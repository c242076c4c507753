------------------------------- MODULE Worker -------------------------------
(***************************************************************************)
(* What the booking example's worker reads of the files that the console,  *)
(* a process of its own, writes: the installed skill bundles and the       *)
(* merchants' documents.  The two share no state.                          *)
(***************************************************************************)
EXTENDS SkillBundles, Documents

(* What the worker serves is what the console has stored, of bundles and   *)
(* of documents: the best bundle enabled, once it is at rest, and to an    *)
(* enquiry that no change overlapped the passage its question quotes.      *)
WorkerServesWhatIsStored == CacheIsCurrent /\ QuotesAreFound
=============================================================================
