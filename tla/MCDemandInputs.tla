---------------------------- MODULE MCDemandInputs ----------------------------
EXTENDS DemandInputs

\* Cold at once, later, never, and no answer of use; longer than a kept one lasts.
MCForecasts == {<<>>, <<1, 1, 1, 1>>, <<3, 3, 1, 1>>, <<3, 3, 3, 3>>}
=============================================================================
