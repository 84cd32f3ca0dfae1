---------------------------- MODULE IssuerStoreTrail ----------------------------
(****************************************************************************)
(* IssuerStore implements AuditTrail when every journal write leaves either *)
(* nothing or a whole line: the trail is the file.                          *)
(****************************************************************************)
EXTENDS IssuerStore

\* The operation on each line of a file of whole lines.
JournalOps == [i \in DOMAIN journal |-> journal[i][1].rec.op]

Abstract == INSTANCE AuditTrail WITH trail <- JournalOps, serving <- mode = "serving"

\* The store's steps, crashes and restarts are steps of the audit trail: what is
\* recorded stays recorded, and each record was admissible when it was made, judged
\* by the whole file and not by the maps the store keeps or rebuilds.
ImplementsTrail == Abstract!TrailSpec
================================================================================
