--------------------------- MODULE MCChartMetrics ---------------------------
(* ChartMetrics; the configurations give the number of apps. *)
EXTENDS ChartMetrics

=============================================================================
