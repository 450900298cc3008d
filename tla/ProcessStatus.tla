--------------------------- MODULE ProcessStatus ---------------------------
(***************************************************************************)
(* The processing status of a document record and the predicates of class  *)
(* ProcessStatus (constants/processing.py).  Statuses are the strings that *)
(* the code stores in the processStatus attribute.                         *)
(***************************************************************************)

NonTerminalIncomplete == {"started", "not_started", "pending_upload"}

\* ProcessStatus.non_terminal: the statuses a terminal write may replace.
NonTerminal ==
    {"started", "not_started", "pending_upload", "pending_image_optimization"}

\* ProcessStatus.is_classified: a final outcome has been recorded.
Classified ==
    {"ai_consent_declined", "blueprint_disabled", "blurry_document_detected",
     "conversion_failed", "deleted", "failed",
     "multiple_documents_in_multipage", "multiple_documents_single_page",
     "no_custom_blueprint_matched", "no_document_detected",
     "not_implemented", "excluded_per_preclassification",
     "password_protected", "processing_excluded", "success", "timed_out"}

\* ProcessStatus.is_awaiting_processing: not yet seen by preclassification,
\* or seen and not convertible to grayscale.
AwaitingProcessing == {"not_started", "pending_upload"}

\* ProcessStatus.is_pending_extraction: preclassification let it through.
PendingExtraction == {"pending_image_optimization", "not_started"}

Status == NonTerminal \cup Classified

\* The processStatus of a key that has no record, or a record without it.
NoStatus == "absent"

MayAlwaysBecomeTerminal(s) == TRUE

\* The condition of build_ddb_non_terminal_condition():
\* attribute_not_exists(processStatus) OR processStatus IN (non_terminal).
MayBecomeTerminal(s) == s = NoStatus \/ s \in NonTerminal
=============================================================================
