----------------------------- MODULE ReleaseMC ------------------------------
(* Two instances of Release: two files that people edit, put back and       *)
(* commit until the preparation concludes; or up to three files, committed  *)
(* and left so, one more than the batches hold, and others who write into   *)
(* the folders.                                                             *)
EXTENDS Release

CONSTANTS f1, f2, f3, c1, c2, n1, n2, i1, i2
VARIABLE about

TwoChecks == <<c1, c2>>
TwoNames == <<n1, n2>>

aboutVars == <<about, vars>>

\* The files differ only in name: of what is the same but for that, one.
AboutInit ==
    /\ Init
    /\ about \in {"verdict", "artifacts"}
    /\ tree.committed \in {{}, {f1}, {f1, f2}, {f1, f2, f3}}
    /\ about = "verdict" =>
        /\ f3 \notin tree.committed \cup tree.modified
        /\ tree.modified = {f2} => tree.committed = {f1}
    /\ about = "artifacts" => tree.modified = {}

\* What a verdict rests on is forgotten when it is given: behind it there are
\* no two ways.
OnVerdict(step) ==
    /\ about = "verdict" /\ step
    /\ f3 \notin tree'.modified /\ others' = others /\ run'.id # i2
    /\ UNCHANGED about

OnArtifacts(step) ==
    /\ about = "artifacts" /\ step
    /\ tree' = tree
    /\ UNCHANGED about

AboutNext == OnVerdict(Next) \/ OnArtifacts(Next)
AboutSpec ==
    /\ AboutInit /\ [][AboutNext]_aboutVars
    /\ WF_aboutVars(OnVerdict(RunStep) \/ OnArtifacts(RunStep))

=============================================================================
