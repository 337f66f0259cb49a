-------------------------- MODULE MCAudioPipeline ---------------------------
(* Instance of AudioPipeline: a queue that two packets fill, recordings of *)
(* up to three parts, a second recording after each way the first can end. *)
EXTENDS AudioPipeline
=============================================================================
