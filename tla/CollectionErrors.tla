-------------------------- MODULE CollectionErrors --------------------------
(***************************************************************************)
(* The stable error codes of a chat replay collection, as the worker writes *)
(* them into the job table and as the API reads them.                       *)
(***************************************************************************)

CollectionErrorCode ==
  {"CHAT_REPLAY_NOT_AVAILABLE", "SOURCE_NOT_READY", "YOUTUBE_ACCESS_DENIED",
   "YOUTUBE_RATE_LIMITED", "YTDLP_TIMEOUT", "YTDLP_PROCESS_FAILED",
   "YTDLP_OUTPUT_CHANGED", "CHAT_IMPORT_FAILED", "WORKER_DISK_CAPACITY_LOW"}

\* The codes the API publishes as retryable.  A code its table does not list
\* (WORKER_DISK_CAPACITY_LOW) is published as COLLECTION_FAILED, not retryable.
RetryableCode ==
  {"SOURCE_NOT_READY", "YOUTUBE_RATE_LIMITED", "YTDLP_TIMEOUT",
   "YTDLP_PROCESS_FAILED", "CHAT_IMPORT_FAILED"}
=============================================================================
