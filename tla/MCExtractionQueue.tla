------------------------- MODULE MCExtractionQueue -------------------------
(* The TLC instance of the extraction queue: its constants are model values   *)
(* (QueueSafety.cfg).                                                          *)
EXTENDS ExtractionQueue
============================================================================
