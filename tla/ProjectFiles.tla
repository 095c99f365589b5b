---------------------------- MODULE ProjectFiles ----------------------------
(***************************************************************************)
(* The project's files as ProjectFiles (project_files.py) reads, compares  *)
(* and writes them, one process per call.  A file is its text and the ends *)
(* of its lines; its sha256 is of both, and stands for itself here.        *)
(***************************************************************************)
CONSTANTS
    Docs,           \* the documentation files, outside the output folder
    Texts,          \* every text there is
    Original,       \* the text they have at first
    Ends            \* bound: how the lines of each end at first

Gone == [text |-> "none", newline |-> "none"]

NoProposal == [text |-> "none", base |-> Gone]

ASSUME FilesAssumption ==
    /\ Original \in Texts /\ Ends \in [Docs -> {"lf", "crlf"}]

VARIABLES
    files,          \* what each document is, Gone if it was removed
    proposals       \* output/proposals/<document>: the text saved there,
                    \* and what it was made from (which the file does not say)

FilesInit ==
    /\ files = [d \in Docs |-> [text |-> Original, newline |-> Ends[d]]]
    /\ proposals = [d \in Docs |-> NoProposal]

Exists(d) == files[d] # Gone

Hash(content) == content
NoHash == Gone

\* Differences are of texts, whatever ends the lines.
Identical(d, text) == files[d].text = text

\* What write refuses for a file outside the output folder; "none" if nothing.
Refusal(d, expected, confirmed) ==
    CASE ~confirmed -> "write_not_authorized"
      [] confirmed /\ Exists(d) /\ expected = NoHash -> "hash_required"
      [] confirmed /\ expected # NoHash /\ expected # Hash(files[d]) -> "hash_mismatch"
      [] OTHER -> "none"

\* The text in the file's own line ends; a new file's are "lf".
Payload(d, text) ==
    [text |-> text, newline |-> IF Exists(d) THEN files[d].newline ELSE "lf"]

\* Into the output folder: no confirmation, no hash, whatever is there.
Saves(d, text, base) == proposals' = [proposals EXCEPT ![d] = [text |-> text, base |-> base]]
=============================================================================
