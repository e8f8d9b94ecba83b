--------------------------- MODULE MCInboxJournal ---------------------------
(* A chat channel with posts and nudges next to a mailbox epoch is the same *)
(* journal twice: the runs give one source each lane of its kind.           *)
EXTENDS InboxJournal
=============================================================================
