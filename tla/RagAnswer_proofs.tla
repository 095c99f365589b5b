--------------------------- MODULE RagAnswer_proofs ---------------------------
(* For any documents, any number of questions and any limits of the        *)
(* search: what the person is told is what happened to the question; and   *)
(* where no two builds are of one size, an answer never rests on another   *)
(* build's chunks.                                                         *)
EXTENDS RagAnswer, FiniteSetTheorems, WellFoundedInduction, TLAPS

\* What load_index refuses a torn pair by: no two builds are of one size.
SizesDiffer == \A v, w \in Versions : Sizes[v] = Sizes[w] => v = w

Builds == Versions \cup {None}
Steps == {"none", "rewrite", "ticket", "user", "load", "vectors", "metadata",
          "search", "generate", "check", "done"}
Outcomes == {"none", "told", "unavailable", "unverified", "no_index", "unreadable",
             "failed", "insufficient", "answered"}
Pairs == [vectors : Builds, metadata : Builds]
Questions ==
    [step : Steps, route : Routes, local : BOOLEAN, mode : Modes,
     query : Queries, heard : BOOLEAN, verified : BOOLEAN,
     pair : Pairs, evidence : SUBSET (1..MaxSize), best : Far..Certain,
     cited : SUBSET (1..MaxSize), support : {"not_checked", "supported", "unsupported"},
     outcome : Outcomes]

\* Two files that load_index takes for one build: they are as long.
Matched(pair) ==
    /\ pair.vectors \in Versions /\ pair.metadata \in Versions
    /\ SameLength(pair.vectors, pair.metadata)

-----------------------------------------------------------------------------
(* The invariant: of a question, of the directory, of the two together.    *)

\* What a question holds at each step, whatever the directory does.
Consistent(q) ==
    /\ q \in Questions
    /\ q.mode # "enhanced" => q.route = "agent"
    /\ q.step = "metadata" => q.pair.vectors \in Versions
    /\ (q.step = "search" \/ q.evidence # {}) => Matched(q.pair)
    /\ q.step \notin {"generate", "check", "done"} => q.evidence = {}
    /\ q.step \notin {"check", "done"} => q.cited = {} /\ q.outcome = "none"
    /\ Cardinality(q.evidence) <= FinalTopK
    /\ q.cited \subseteq q.evidence

\* What the person may be told at each step.
Told(q) ==
    /\ QUERY_REWRITE_ENABLED /\ q.local /\ q.route # "support"
         /\ q.step \in {"load", "vectors", "metadata", "search"} => q.heard
    /\ q.route = "support" /\ q.step \notin {"none", "ticket", "user", "done"} => q.verified
    /\ q.step \in {"ticket", "user"} => q.route = "support"
    /\ q.local => q.route # "agent"
    /\ q.route # "support" /\ q.mode = "enhanced" /\ q.step \in {"generate", "check"} => q.best >= Relevant
    /\ QUERY_REWRITE_ENABLED /\ q.route # "support" /\ q.local /\ q.outcome = "insufficient" => q.heard
    /\ q.route # "support" /\ q.mode = "enhanced" /\ q.outcome = "answered" => q.best >= Relevant
    /\ q.route = "support" /\ q.outcome = "answered" => q.verified /\ q.cited # {}

\* What a question found in a directory that stayed whole since it arrived.
FromWhole(q) ==
    /\ q.outcome \notin {"no_index", "unreadable"}
    /\ q.step = "metadata" => q.pair.vectors = vectors
    /\ q.route \notin Sharing /\ q.pair.metadata # None => q.pair.metadata = metadata

DirectoryOK ==
    /\ IndexTypeOK
    /\ indexer.step # "none" => indexer.version \in Versions
    /\ undisturbed \subseteq Requests
    /\ undisturbed # {} => Whole

CacheOK ==
    /\ cached \in [Sharing -> Pairs]
    /\ \A route \in Sharing : cached[route] = NoPair \/ Matched(cached[route])

QuestionOK(r) ==
    /\ Consistent(request[r]) /\ Told(request[r])
    /\ request[r].step \in {"vectors", "metadata"} => BothThere
    /\ r \in undisturbed => FromWhole(request[r])

RagInv ==
    /\ DirectoryOK /\ CacheOK
    /\ request \in [Requests -> Questions]
    /\ \A r \in Requests : QuestionOK(r)

-----------------------------------------------------------------------------
(* What the operators of the model give.                                   *)

\* A set of naturals that is not empty has a least element.
LEMMA LeastOf ==
    ASSUME NEW T, T \subseteq Nat, T # {}
    PROVE  \E x \in T : \A y \in T : x <= y
<1> DEFINE R == {ss \in Nat \X Nat : ss[1] < ss[2]}
<1>1. \E x \in T : \A y \in T : ~ (<<y, x>> \in R)
    <2>1. IsWellFoundedOn(R, Nat)
        BY NatLessThanWellFounded DEF OpToRel
    <2> HIDE DEF R
    <2> QED
        BY <2>1, WFMin, Zenon
<1>2. PICK x \in T : \A y \in T : ~ (<<y, x>> \in R)
    BY <1>1
<1>3. ASSUME NEW y \in T PROVE x <= y
    <2>1. x \in Nat /\ y \in Nat
        OBVIOUS
    <2>2. y < x => <<y, x>> \in R
        BY <2>1
    <2> QED
        BY <1>2, <2>1, <2>2
<1> QED
    BY <1>3

\* Finitely many naturals have a bound.
LEMMA FinitelyManyAreBounded ==
    ASSUME NEW m \in Nat, NEW g \in [1..m -> Nat]
    PROVE  \E most \in Nat : \A i \in 1..m : g[i] <= most
<1> DEFINE Bad == {n \in 0..m : ~\E most \in Nat : \A i \in 1..n : g[i] <= most}
<1>1. ASSUME Bad # {} PROVE FALSE
    <2>1. Bad \subseteq Nat
        OBVIOUS
    <2>2. PICK x \in Bad : \A y \in Bad : x <= y
        <3> HIDE DEF Bad
        <3> QED
            BY <1>1, <2>1, LeastOf
    <2>3. x \in 0..m
        OBVIOUS
    <2>4. x # 0
        <3>1. SUFFICES ASSUME x = 0 PROVE FALSE
            OBVIOUS
        <3>2. \A i \in 1..0 : g[i] <= 0
            OBVIOUS
        <3> QED
            BY <3>1, <3>2
    <2>5. x - 1 \in 0..m /\ ~(x <= x - 1)
        BY <2>3, <2>4
    <2>6. x - 1 \notin Bad
        <3> HIDE DEF Bad
        <3> QED
            BY <2>2, <2>5
    <2>7. PICK most \in Nat : \A i \in 1..(x - 1) : g[i] <= most
        BY <2>5, <2>6
    <2>8. x \in 1..m /\ g[x] \in Nat
        BY <2>3, <2>4
    <2>9. PICK more \in Nat : most <= more /\ g[x] <= more
        <3>1. CASE g[x] <= most
            BY <3>1
        <3>2. CASE most <= g[x]
            BY <2>8, <3>2
        <3> QED
            BY <2>8, <3>1, <3>2
    <2>10. ASSUME NEW i \in 1..x PROVE g[i] <= more
        <3>1. CASE i = x
            BY <2>9, <3>1
        <3>2. CASE i # x
            <4>1. i \in 1..(x - 1) /\ i \in 1..m
                BY <2>8, <3>2
            <4>2. g[i] <= most /\ g[i] \in Nat
                BY <2>7, <4>1
            <4> QED
                BY <2>9, <4>2
        <3> QED
            BY <3>1, <3>2
    <2>11. \E most2 \in Nat : \A i \in 1..x : g[i] <= most2
        BY <2>9, <2>10
    <2> QED
        BY <2>11
<1>2. m \notin Bad
    BY <1>1
<1> QED
    BY <1>2

\* The sizes are finitely many, so that something bounds them all.
LEMMA SizesAreBounded == \E most \in Nat : \A v \in Versions : Sizes[v] <= most
<1>1. /\ Cardinality(Versions) \in Nat
      /\ ExistsBijection(1..Cardinality(Versions), Versions)
    BY RagAssumption, FS_CardinalityType
<1>2. PICK m \in Nat : ExistsBijection(1..m, Versions)
    BY <1>1
<1>3. PICK f \in [1..m -> Versions] : \A v \in Versions : \E i \in 1..m : f[i] = v
    BY <1>2 DEF ExistsBijection, Bijection, Surjection
<1> DEFINE g == [i \in 1..m |-> Sizes[f[i]]]
<1>4. g \in [1..m -> Nat]
    BY <1>3, IndexAssumption
<1>5. PICK most \in Nat : \A i \in 1..m : g[i] <= most
    <2> HIDE DEF g
    <2> QED
        BY <1>4, FinitelyManyAreBounded
<1> QED
    BY <1>3, <1>5

\* MaxSize is the size of the largest build.
LEMMA MaxSizeIsMax ==
    ASSUME Versions # {}
    PROVE  MaxSize \in Nat /\ \A v \in Versions : Sizes[v] <= MaxSize
<1> DEFINE All == {Sizes[v] : v \in Versions}
           Above == {most \in Nat : \A v \in Versions : Sizes[v] <= most}
<1>1. PICK least \in Above : \A most \in Above : least <= most
    <2>1. Above # {}
        BY SizesAreBounded
    <2> QED
        BY <2>1, LeastOf
<1>2. \E v \in Versions : Sizes[v] = least
    <2>1. SUFFICES ASSUME \A v \in Versions : Sizes[v] # least PROVE FALSE
        OBVIOUS
    <2>2. \A v \in Versions : Sizes[v] \in Nat \ {0} /\ Sizes[v] <= least
        BY <1>1, IndexAssumption
    <2>3. least - 1 \in Above
        BY <1>1, <2>1, <2>2
    <2> QED
        BY <1>1, <2>3
<1>3. \E n \in All : \A v \in Versions : Sizes[v] <= n
    BY <1>1, <1>2
<1>4. MaxSize \in All /\ \A v \in Versions : Sizes[v] <= MaxSize
    BY <1>3 DEF MaxSize
<1> QED
    BY <1>4, IndexAssumption

\* What is left of a search: known chunks, no more than the limit.
LEMMA TopsAreFew ==
    ASSUME NEW n \in Nat, NEW from \in SUBSET (1..n), NEW score, NEW limit \in Nat,
           NEW top \in Tops(score, from, limit)
    PROVE  top \in SUBSET from /\ Cardinality(top) <= limit
<1>1. IsFiniteSet(from) /\ Cardinality(from) \in Nat
    <2>1. IsFiniteSet(1..n)
        BY FS_Interval
    <2> QED
        BY <2>1, FS_Subset, FS_CardinalityType
<1>2. /\ top \in SUBSET from
      /\ Cardinality(top) = IF Cardinality(from) < limit THEN Cardinality(from) ELSE limit
    BY DEF Tops
<1> QED
    BY <1>1, <1>2

\* The best of the scores is one of the scale.
LEMMA BestIsScore ==
    ASSUME NEW kept, NEW score \in [kept -> Weak..Certain], NEW top \in SUBSET kept
    PROVE  BestOf(score, top) \in Far..Certain
<1>1. CASE top = {}
    BY <1>1 DEF BestOf, Far, Certain
<1>2. CASE top # {}
    <2> DEFINE scores == {score[k] : k \in top}
               Best(b) == \A k \in top : score[k] <= b
    <2>1. \A k \in top : score[k] \in 0..3
        BY DEF Weak, Certain
    <2>2. \E b \in scores : Best(b)
        <3> DEFINE Above == {b \in 0..3 : Best(b)}
        <3>1. 3 \in Above
            BY <2>1
        <3>2. PICK b \in Above : \A c \in Above : b <= c
            <4>1. Above \subseteq Nat /\ Above # {}
                BY <3>1
            <4> HIDE DEF Above
            <4> QED
                BY <4>1, LeastOf
        <3>3. b \in scores
            <4>1. SUFFICES ASSUME b \notin scores PROVE FALSE
                OBVIOUS
            <4>2. \A k \in top : score[k] <= b /\ score[k] # b
                BY <4>1
            <4>3. PICK k \in top : TRUE
                BY <1>2
            <4>4. b - 1 \in 0..3
                BY <2>1, <4>2, <4>3
            <4>5. \A j \in top : score[j] <= b - 1
                BY <2>1, <4>2, <4>4
            <4> QED
                BY <3>2, <4>4, <4>5
        <3> QED
            BY <3>3
    <2>3. BestOf(score, top) \in scores
        BY <1>2, <2>2 DEF BestOf
    <2> QED
        BY <2>1, <2>3 DEF Far, Certain
<1> QED
    BY <1>1, <1>2

-----------------------------------------------------------------------------
(* One question goes on: what has to be shown of its new record.           *)

Keeps(r, new) ==
    /\ Consistent(new) /\ Told(new)
    /\ new.step \in {"vectors", "metadata"} => BothThere
    /\ r \in undisturbed => FromWhole(new)

\* The invariant needs no more than that.
LEMMA BecomesKeeps ==
    ASSUME RagInv, NEW r \in Requests, NEW new, Becomes(r, new), Keeps(r, new)
    PROVE  RagInv'
<1>1. /\ documents' = documents /\ vectors' = vectors /\ metadata' = metadata
      /\ indexer' = indexer /\ cached' = cached /\ undisturbed' = undisturbed
      /\ request' = [request EXCEPT ![r] = new]
    BY DEF Becomes, indexVars
<1>2. request \in [Requests -> Questions] /\ new \in Questions
    BY DEF RagInv, Keeps, Consistent
<1>3. DirectoryOK' /\ CacheOK'
    BY <1>1 DEF RagInv, DirectoryOK, CacheOK, IndexTypeOK, Whole
<1>4. ASSUME NEW q \in Requests PROVE QuestionOK(q)'
    <2>1. CASE q = r
        <3>1. request'[q] = new
            BY <1>1, <1>2, <2>1
        <3> QED
            BY <1>1, <2>1, <3>1 DEF QuestionOK, Keeps, Consistent, Told, FromWhole, BothThere
    <2>2. CASE q # r
        <3>1. request'[q] = request[q]
            BY <1>1, <1>2, <2>2
        <3>2. QuestionOK(q)
            BY DEF RagInv
        <3> QED
            BY <1>1, <3>1, <3>2 DEF QuestionOK, Consistent, Told, FromWhole, BothThere
    <2> QED
        BY <2>1, <2>2
<1>5. request' \in [Requests -> Questions]
    BY <1>1, <1>2
<1> QED
    BY <1>3, <1>4, <1>5 DEF RagInv

\* What the invariant says of one question.
LEMMA OfOne ==
    ASSUME RagInv, NEW r \in Requests
    PROVE  /\ request[r] \in Questions
           /\ Consistent(request[r]) /\ Told(request[r])
           /\ request[r].step \in {"vectors", "metadata"} => BothThere
           /\ r \in undisturbed => FromWhole(request[r])
BY DEF RagInv, QuestionOK

\* An error answers nothing of what was found.
LEMMA EndsKeeps ==
    ASSUME RagInv, NEW r \in Requests,
           NEW outcome \in Outcomes \ {"answered", "insufficient"}, Ends(r, outcome),
           r \in undisturbed => outcome \notin {"no_index", "unreadable"}
    PROVE  RagInv'
<1> DEFINE route == request[r].route
           new == [NoRequest EXCEPT !.step = "done", !.route = route, !.outcome = outcome]
<1>1. route \in Routes
    BY OfOne DEF Questions
<1>2. Becomes(r, new)
    BY DEF Ends
<1>3. NoRequest \in Questions
    BY DEF NoRequest, Questions, Steps, Routes, Modes, Pairs, Builds, NoPair, Far, Certain, Outcomes, Queries
<1>4. /\ new \in Questions
      /\ new.step = "done" /\ new.route = route /\ new.outcome = outcome
      /\ new.local = FALSE /\ new.mode = "enhanced" /\ new.evidence = {} /\ new.cited = {}
      /\ new.pair = NoPair
    BY <1>1, <1>3 DEF NoRequest, Questions, Steps, Outcomes
<1>5. Cardinality({}) <= FinalTopK
    BY FS_EmptySet, RagAssumption
<1> HIDE DEF new, route
<1>6. Consistent(new)
    BY <1>4, <1>5 DEF Consistent
<1>7. Told(new)
    BY <1>4 DEF Told
<1>8. r \in undisturbed => FromWhole(new)
    BY <1>4 DEF FromWhole, NoPair
<1>9. Keeps(r, new)
    BY <1>4, <1>6, <1>7, <1>8 DEF Keeps
<1> QED
    BY <1>2, <1>9, BecomesKeeps

-----------------------------------------------------------------------------
(* One lemma for each step.                                                *)

\* A step that finds nothing: only where the question is, its query, and who
\* was heard change.
LEMMA MovesKeeps ==
    ASSUME RagInv, NEW r \in Requests, NEW new \in Questions, Becomes(r, new),
           new.route = request[r].route, new.mode = request[r].mode, new.local = request[r].local,
           new.evidence = request[r].evidence, new.cited = request[r].cited,
           new.best = request[r].best, new.outcome = request[r].outcome,
           new.pair = request[r].pair,
           request[r].step \notin {"generate", "check", "done"},
           new.step \in {"user", "load", "vectors", "search"},
           Told(new),
           new.step = "vectors" => BothThere,
           new.step = "search" => Matched(new.pair)
    PROVE  RagInv'
<1>1. /\ Consistent(request[r]) /\ (r \in undisturbed => FromWhole(request[r]))
    BY OfOne
<1>2. Consistent(new)
    BY <1>1 DEF Consistent
<1>3. Keeps(r, new)
    BY <1>1, <1>2 DEF Keeps, FromWhole
<1> QED
    BY <1>3, BecomesKeeps

\* A question about the branch is answered by Git.
LEMMA ToldTheBranchKeeps ==
    ASSUME RagInv, NEW r \in Requests, ToldTheBranch(r)
    PROVE  RagInv'
<1>1. Ends(r, "told")
    BY DEF ToldTheBranch
<1> QED
    BY <1>1, EndsKeeps DEF Outcomes

\* The question has a query, the model's or its own.
LEMMA RewritesKeeps ==
    ASSUME RagInv, NEW r \in Requests, Rewrites(r)
    PROVE  RagInv'
<1> DEFINE q == request[r]
<1>1. PICK query \in Queries :
        Becomes(r, [q EXCEPT !.step = "load", !.query = query, !.heard = TRUE])
    BY DEF Rewrites
<1> DEFINE new == [q EXCEPT !.step = "load", !.query = query, !.heard = TRUE]
<1>2. q \in Questions /\ Told(q) /\ q.step = "rewrite"
    BY OfOne DEF Rewrites, At
<1>3. /\ new \in Questions /\ new.step = "load" /\ new.heard = TRUE
      /\ new.route = q.route /\ new.mode = q.mode /\ new.local = q.local /\ new.verified = q.verified
      /\ new.pair = q.pair /\ new.evidence = q.evidence /\ new.cited = q.cited
      /\ new.best = q.best /\ new.outcome = q.outcome
    BY <1>2 DEF Questions, Steps
<1>4. Becomes(r, new)
    BY <1>1
<1> HIDE DEF new
<1>5. Told(new)
    BY <1>2, <1>3 DEF Told
<1> QED
    BY <1>2, <1>3, <1>4, <1>5, MovesKeeps

\* Where rewriting is off the question is its own query.
LEMMA SkipsRewriteKeeps ==
    ASSUME RagInv, NEW r \in Requests, SkipsRewrite(r)
    PROVE  RagInv'
<1> DEFINE q == request[r]
           new == [q EXCEPT !.step = "load"]
<1>1. /\ q \in Questions /\ Told(q) /\ q.step = "rewrite"
      /\ q.route = "agent" \/ ~QUERY_REWRITE_ENABLED
    BY OfOne DEF SkipsRewrite, At, MaySkip
<1>2. /\ new \in Questions /\ new.step = "load"
      /\ new.route = q.route /\ new.mode = q.mode /\ new.local = q.local /\ new.verified = q.verified
      /\ new.pair = q.pair /\ new.evidence = q.evidence /\ new.cited = q.cited
      /\ new.best = q.best /\ new.outcome = q.outcome
    BY <1>1 DEF Questions, Steps
<1>3. Becomes(r, new)
    BY DEF SkipsRewrite, Goes
<1> HIDE DEF new
<1>4. Told(new)
    BY <1>1, <1>2 DEF Told
<1> QED
    BY <1>1, <1>2, <1>3, <1>4, MovesKeeps

\* Without the model: its absence is told of, or the question's keywords do.
LEMMA RewriteFailsKeeps ==
    ASSUME RagInv, NEW r \in Requests, RewriteFails(r)
    PROVE  RagInv'
<1> DEFINE q == request[r]
<1>1. q \in Questions /\ Told(q) /\ q.step = "rewrite"
    BY OfOne DEF RewriteFails, At
<1>2. CASE q.local
    <2>1. Ends(r, "unavailable")
        BY <1>2 DEF RewriteFails, WithoutModel
    <2> QED
        BY <2>1, EndsKeeps DEF Outcomes
<1>3. CASE ~q.local
    <2>0. PICK query \in Queries : Becomes(r, [q EXCEPT !.step = "load", !.query = query])
        BY <1>3 DEF RewriteFails, WithoutModel
    <2> DEFINE new == [q EXCEPT !.step = "load", !.query = query]
    <2>1. /\ new \in Questions /\ new.step = "load"
          /\ new.route = q.route /\ new.mode = q.mode /\ new.local = q.local /\ new.verified = q.verified
          /\ new.pair = q.pair /\ new.evidence = q.evidence /\ new.cited = q.cited
          /\ new.best = q.best /\ new.outcome = q.outcome
        BY <1>1 DEF Questions, Steps
    <2>2. Becomes(r, new)
        BY <2>0
    <2> HIDE DEF new
    <2>3. Told(new)
        BY <1>1, <1>3, <2>1 DEF Told
    <2> QED
        BY <1>1, <2>1, <2>2, <2>3, MovesKeeps
<1> QED
    BY <1>2, <1>3

\* The ticket is read.
LEMMA ReadsTicketKeeps ==
    ASSUME RagInv, NEW r \in Requests, ReadsTicket(r)
    PROVE  RagInv'
<1> DEFINE q == request[r]
           new == [q EXCEPT !.step = "user"]
<1>1. q \in Questions /\ Told(q) /\ q.step = "ticket"
    BY OfOne DEF ReadsTicket, At
<1>2. /\ new \in Questions /\ new.step = "user"
      /\ new.route = q.route /\ new.mode = q.mode /\ new.local = q.local /\ new.verified = q.verified
      /\ new.pair = q.pair /\ new.evidence = q.evidence /\ new.cited = q.cited
      /\ new.best = q.best /\ new.outcome = q.outcome
    BY <1>1 DEF Questions, Steps
<1>3. Becomes(r, new)
    BY DEF ReadsTicket, Goes
<1> HIDE DEF new
<1>4. Told(new)
    BY <1>1, <1>2 DEF Told
<1> QED
    BY <1>1, <1>2, <1>3, <1>4, MovesKeeps

\* The ticket's user is the one who asks, or the question is refused.
LEMMA ReadsUserKeeps ==
    ASSUME RagInv, NEW r \in Requests, ReadsUser(r)
    PROVE  RagInv'
<1> DEFINE q == request[r]
<1>1. q \in Questions /\ Told(q) /\ q.step = "user"
    BY OfOne DEF ReadsUser, At
<1>2. PICK same \in BOOLEAN :
        IF IsOwner(same) THEN Becomes(r, [q EXCEPT !.step = "load", !.verified = same])
        ELSE Ends(r, "unverified")
    BY DEF ReadsUser
<1>3. CASE ~same
    <2>1. Ends(r, "unverified")
        BY <1>2, <1>3 DEF IsOwner
    <2> QED
        BY <2>1, EndsKeeps DEF Outcomes
<1>4. CASE same
    <2> DEFINE new == [q EXCEPT !.step = "load", !.verified = TRUE]
    <2>1. /\ new \in Questions /\ new.step = "load" /\ new.verified = TRUE
          /\ new.route = q.route /\ new.mode = q.mode /\ new.local = q.local
          /\ new.pair = q.pair /\ new.evidence = q.evidence /\ new.cited = q.cited
          /\ new.best = q.best /\ new.outcome = q.outcome
        BY <1>1 DEF Questions, Steps
    <2>2. Becomes(r, new)
        BY <1>2, <1>4 DEF IsOwner
    <2> HIDE DEF new
    <2>3. Told(new)
        BY <1>1, <2>1 DEF Told
    <2> QED
        BY <1>1, <2>1, <2>2, <2>3, MovesKeeps
<1> QED
    BY <1>3, <1>4

\* The CRM is not there.
LEMMA CaseFailsKeeps ==
    ASSUME RagInv, NEW r \in Requests, CaseFails(r)
    PROVE  RagInv'
<1>1. Ends(r, "unverified")
    BY DEF CaseFails
<1> QED
    BY <1>1, EndsKeeps DEF Outcomes

\* A retriever keeps pairs of one build only.
LEMMA IsKeptKeeps ==
    ASSUME RagInv, NEW r \in Requests, IsKept(r)
    PROVE  RagInv'
<1> DEFINE q == request[r]
           new == [q EXCEPT !.step = "search", !.pair = Kept(r)]
<1>1. q \in Questions /\ Consistent(q) /\ Told(q) /\ q.step = "load" /\ Kept(r) # NoPair
    BY OfOne DEF IsKept, At
<1>2. q.route \in Sharing /\ Kept(r) = cached[q.route]
    BY <1>1 DEF Kept, Shared
<1>3. Kept(r) \in Pairs /\ Matched(Kept(r))
    BY <1>1, <1>2 DEF RagInv, CacheOK
<1>4. /\ new \in Questions /\ new.step = "search" /\ new.pair = Kept(r)
      /\ new.route = q.route /\ new.mode = q.mode /\ new.local = q.local /\ new.verified = q.verified
      /\ new.heard = q.heard /\ new.evidence = q.evidence /\ new.cited = q.cited
      /\ new.best = q.best /\ new.outcome = q.outcome
    BY <1>1, <1>3 DEF Questions, Steps
<1>5. Becomes(r, new)
    BY DEF IsKept
<1> HIDE DEF new
<1>6. Consistent(new)
    BY <1>1, <1>3, <1>4 DEF Consistent
<1>7. Told(new)
    BY <1>1, <1>4 DEF Told
<1>8. r \in undisturbed => FromWhole(q)
    BY OfOne
<1>9. Keeps(r, new)
    BY <1>2, <1>4, <1>6, <1>7, <1>8 DEF Keeps, FromWhole
<1> QED
    BY <1>5, <1>9, BecomesKeeps

\* The files are there, or they are not.
LEMMA LooksKeeps ==
    ASSUME RagInv, NEW r \in Requests, Looks(r)
    PROVE  RagInv'
<1> DEFINE q == request[r]
           new == [q EXCEPT !.step = "vectors"]
<1>1. q \in Questions /\ Told(q) /\ q.step = "load"
    BY OfOne DEF Looks, At
<1>2. CASE BothThere
    <2>1. /\ new \in Questions /\ new.step = "vectors"
          /\ new.route = q.route /\ new.mode = q.mode /\ new.local = q.local /\ new.verified = q.verified
          /\ new.heard = q.heard /\ new.pair = q.pair /\ new.evidence = q.evidence /\ new.cited = q.cited
          /\ new.best = q.best /\ new.outcome = q.outcome
        BY <1>1 DEF Questions, Steps
    <2>2. Becomes(r, new)
        BY <1>2 DEF Looks, Goes
    <2> HIDE DEF new
    <2>3. Told(new)
        BY <1>1, <2>1 DEF Told
    <2> QED
        BY <1>1, <1>2, <2>1, <2>2, <2>3, MovesKeeps
<1>3. CASE ~BothThere
    <2>1. Ends(r, "no_index")
        BY <1>3 DEF Looks
    <2>2. r \notin undisturbed
        BY <1>3, IndexAssumption DEF RagInv, DirectoryOK, Whole, BothThere, None
    <2> QED
        BY <2>1, <2>2, EndsKeeps DEF Outcomes
<1> QED
    BY <1>2, <1>3

\* The vectors of one build, or of none.
LEMMA ReadsVectorsKeeps ==
    ASSUME RagInv, NEW r \in Requests, ReadsVectors(r)
    PROVE  RagInv'
<1> DEFINE q == request[r]
           new == [q EXCEPT !.step = "metadata", !.pair.vectors = vectors]
<1>1. /\ q \in Questions /\ Consistent(q) /\ Told(q) /\ q.step = "vectors" /\ BothThere
      /\ r \in undisturbed => FromWhole(q)
    BY OfOne DEF ReadsVectors, At
<1>2. CASE vectors = Torn
    <2>1. Ends(r, "unreadable")
        BY <1>2 DEF ReadsVectors
    <2>2. r \notin undisturbed
        BY <1>2, IndexAssumption DEF RagInv, DirectoryOK, Whole
    <2> QED
        BY <2>1, <2>2, EndsKeeps DEF Outcomes
<1>3. CASE vectors # Torn
    <2>1. vectors \in Versions
        BY <1>1, <1>3 DEF RagInv, DirectoryOK, IndexTypeOK, BothThere
    <2>2. /\ [q.pair EXCEPT !.vectors = vectors] \in Pairs
          /\ [q.pair EXCEPT !.vectors = vectors].vectors = vectors
          /\ [q.pair EXCEPT !.vectors = vectors].metadata = q.pair.metadata
        BY <1>1, <2>1 DEF Questions, Pairs, Builds
    <2>3. /\ new \in Questions /\ new.step = "metadata"
          /\ new.pair = [q.pair EXCEPT !.vectors = vectors]
          /\ new.route = q.route /\ new.mode = q.mode /\ new.local = q.local /\ new.verified = q.verified
          /\ new.heard = q.heard /\ new.evidence = q.evidence /\ new.cited = q.cited
          /\ new.best = q.best /\ new.outcome = q.outcome
        BY <1>1, <2>2 DEF Questions, Steps
    <2>4. Becomes(r, new)
        BY <1>3 DEF ReadsVectors
    <2> HIDE DEF new
    <2>5. Consistent(new)
        BY <1>1, <2>1, <2>2, <2>3 DEF Consistent
    <2>6. Told(new)
        BY <1>1, <2>3 DEF Told
    <2>7. Keeps(r, new)
        BY <1>1, <2>2, <2>3, <2>5, <2>6 DEF Keeps, FromWhole
    <2> QED
        BY <2>4, <2>7, BecomesKeeps
<1> QED
    BY <1>2, <1>3

\* A pair is loaded, and kept, when its files are as long as each other.
LEMMA ReadsMetadataKeeps ==
    ASSUME RagInv, NEW r \in Requests, ReadsMetadata(r)
    PROVE  RagInv'
<1> DEFINE q == request[r]
           read == [q.pair EXCEPT !.metadata = metadata]
           new == [q EXCEPT !.step = "search", !.pair = read]
<1>1. /\ q \in Questions /\ Consistent(q) /\ Told(q) /\ q.step = "metadata" /\ BothThere
      /\ r \in undisturbed => FromWhole(q)
    BY OfOne DEF ReadsMetadata, At
<1>2. /\ q.pair.vectors \in Versions /\ q.pair \in Pairs
      /\ metadata \in Versions \cup {Torn}
      /\ read.vectors = q.pair.vectors /\ read.metadata = metadata
    BY <1>1 DEF Consistent, RagInv, DirectoryOK, IndexTypeOK, BothThere, Questions, Pairs
<1>3. CASE metadata = Torn
    <2>1. Ends(r, "unreadable")
        BY <1>3 DEF ReadsMetadata
    <2>2. r \notin undisturbed
        BY <1>3, IndexAssumption DEF RagInv, DirectoryOK, Whole
    <2> QED
        BY <2>1, <2>2, EndsKeeps DEF Outcomes
<1>4. CASE metadata # Torn /\ ~SameLength(read.vectors, metadata)
    <2>1. Ends(r, "no_index")
        BY <1>4 DEF ReadsMetadata
    <2>2. r \notin undisturbed
        <3>1. SUFFICES ASSUME r \in undisturbed PROVE FALSE
            OBVIOUS
        <3>2. read.vectors = vectors /\ metadata = vectors
            BY <1>1, <1>2, <3>1 DEF FromWhole, RagInv, DirectoryOK, Whole
        <3> QED
            BY <1>4, <3>2 DEF SameLength
    <2> QED
        BY <2>1, <2>2, EndsKeeps DEF Outcomes
<1>5. CASE metadata # Torn /\ SameLength(read.vectors, metadata)
    <2>1. /\ request' = [request EXCEPT ![r].step = "search", ![r].pair = read]
          /\ cached' = Keeping(r, read)
          /\ UNCHANGED <<indexVars, undisturbed>>
        BY <1>5 DEF ReadsMetadata
    <2>2. metadata \in Versions
        BY <1>2, <1>5
    <2>3. read \in Pairs /\ Matched(read)
        BY <1>2, <1>5, <2>2 DEF Pairs, Builds, Matched
    <2>4. /\ new \in Questions /\ new.step = "search" /\ new.pair = read
          /\ new.route = q.route /\ new.mode = q.mode /\ new.local = q.local /\ new.verified = q.verified
          /\ new.heard = q.heard /\ new.evidence = q.evidence /\ new.cited = q.cited
          /\ new.best = q.best /\ new.outcome = q.outcome
        <3> HIDE DEF read
        <3> QED
            BY <1>1, <2>3 DEF Questions, Steps
    <2>5. request' = [request EXCEPT ![r] = new]
        BY <2>1 DEF RagInv
    <2>6. /\ documents' = documents /\ vectors' = vectors /\ metadata' = metadata
          /\ indexer' = indexer /\ undisturbed' = undisturbed
        BY <2>1 DEF indexVars
    <2> HIDE DEF new, read
    <2>7. Consistent(new)
        BY <1>1, <2>3, <2>4 DEF Consistent
    <2>8. Told(new)
        BY <1>1, <2>4 DEF Told
    <2>9. r \in undisturbed => FromWhole(new)
        BY <1>1, <1>2, <2>4 DEF FromWhole
    <2>10. DirectoryOK'
        BY <2>6 DEF RagInv, DirectoryOK, IndexTypeOK, Whole
    <2>11. CacheOK'
        BY <2>1, <2>3 DEF RagInv, CacheOK, Keeping, Shared
    <2>12. request' \in [Requests -> Questions]
        BY <2>4, <2>5 DEF RagInv
    <2>13. ASSUME NEW p \in Requests PROVE QuestionOK(p)'
        <3>1. CASE p = r
            <4>1. request'[p] = new
                BY <2>5, <3>1 DEF RagInv
            <4> QED
                BY <2>4, <2>6, <2>7, <2>8, <2>9, <3>1, <4>1
                DEF QuestionOK, Consistent, Told, FromWhole, BothThere
        <3>2. CASE p # r
            <4>1. request'[p] = request[p] /\ QuestionOK(p)
                BY <2>5, <3>2 DEF RagInv
            <4> QED
                BY <2>6, <4>1 DEF QuestionOK, Consistent, Told, FromWhole, BothThere
        <3> QED
            BY <3>1, <3>2
    <2> QED
        BY <2>10, <2>11, <2>12, <2>13 DEF RagInv
<1> QED
    BY <1>3, <1>4, <1>5

\* What is found are chunks of the pair that was loaded.
LEMMA SearchesKeeps ==
    ASSUME RagInv, NEW r \in Requests, Searches(r)
    PROVE  RagInv'
<1> DEFINE q == request[r]
<1>1. /\ q \in Questions /\ Consistent(q) /\ Told(q) /\ q.step = "search"
      /\ r \in undisturbed => FromWhole(q)
    BY OfOne DEF Searches, At
<1> DEFINE Answered(kept) ==
        \E score \in [kept -> Weak..Certain] :
        \E top \in Tops(score, kept, FinalTopK) : Becomes(r, AfterSearch(r, top, score))
           Found(near, found) ==
        LET kept == IF q.mode = "baseline" THEN found ELSE Filtered(near, found) IN
        IF kept = {} /\ Retries(r) THEN SearchesQuestion(r) ELSE Answered(kept)
<1>2. PICK near \in [Positions(r) -> Far..Similar] :
        \E found \in Tops(near, Positions(r), RetrievalTopK) : Found(near, found)
    BY DEF Searches
<1>2a. PICK found \in Tops(near, Positions(r), RetrievalTopK) : Found(near, found)
    BY <1>2
<1>3. PICK n \in Nat : n <= MaxSize /\ MaxSize \in Nat /\ Positions(r) = 1..n
    <2>1. q.pair.vectors \in Versions
        BY <1>1 DEF Consistent, Matched
    <2>2. /\ Sizes[q.pair.vectors] \in Nat /\ Sizes[q.pair.vectors] <= MaxSize
          /\ MaxSize \in Nat
        BY <2>1, MaxSizeIsMax, IndexAssumption
    <2> QED
        BY <2>2 DEF Positions
<1>4. found \in SUBSET (1..n)
    <2>1. found \in SUBSET Positions(r)
        BY DEF Tops
    <2> QED
        BY <1>3, <2>1
<1>5. CASE SearchesQuestion(r)
    <2> DEFINE new == [q EXCEPT !.query = "question"]
    <2>1. /\ new \in Questions /\ new.step = q.step /\ new.heard = q.heard
          /\ new.route = q.route /\ new.mode = q.mode /\ new.local = q.local /\ new.verified = q.verified
          /\ new.pair = q.pair /\ new.evidence = q.evidence /\ new.cited = q.cited
          /\ new.best = q.best /\ new.outcome = q.outcome
        BY <1>1 DEF Questions, Queries
    <2>2. Becomes(r, new)
        BY <1>5 DEF SearchesQuestion
    <2> HIDE DEF new
    <2>3. Told(new)
        BY <1>1, <2>1 DEF Told
    <2>4. Matched(new.pair)
        BY <1>1, <2>1 DEF Consistent
    <2> QED
        BY <1>1, <2>1, <2>2, <2>3, <2>4, MovesKeeps
<1>6. ASSUME NEW kept \in SUBSET (1..n), NEW score \in [kept -> Weak..Certain],
             NEW top \in Tops(score, kept, FinalTopK),
             Becomes(r, AfterSearch(r, top, score))
      PROVE  RagInv'
    <2> DEFINE new == AfterSearch(r, top, score)
    <2>1. /\ top \in SUBSET (1..n) /\ Cardinality(top) <= FinalTopK
          /\ BestOf(score, top) \in Far..Certain
        <3>1. FinalTopK \in Nat
            BY RagAssumption
        <3>2. top \in SUBSET kept /\ Cardinality(top) <= FinalTopK
            BY <3>1, TopsAreFew
        <3>3. top \in SUBSET (1..n)
            BY <3>2
        <3> QED
            BY <1>3, <3>2, <3>3, BestIsScore
    <2>2. top \in SUBSET (1..MaxSize)
        BY <1>3, <2>1
    <2> DEFINE best == BestOf(score, top)
               passes == q.route = "support" \/ q.mode = "baseline" \/ best >= Relevant
               given == [q EXCEPT !.evidence = top, !.best = best]
    <2>3. /\ given \in Questions /\ given.step = q.step /\ given.heard = q.heard
          /\ given.route = q.route /\ given.mode = q.mode /\ given.local = q.local
          /\ given.verified = q.verified /\ given.pair = q.pair /\ given.cited = q.cited
          /\ given.evidence = top /\ given.best = best /\ given.outcome = q.outcome
        <3> HIDE DEF best
        <3> QED
            BY <1>1, <2>1, <2>2 DEF Questions, best
    <2>4. new = IF passes THEN [given EXCEPT !.step = "generate"]
                ELSE [given EXCEPT !.step = "done", !.outcome = "insufficient"]
        <3>1. given = Given(r, top, score)
            BY DEF Given
        <3> HIDE DEF given
        <3> QED
            BY <2>3, <3>1 DEF AfterSearch, Enough
    <2> HIDE DEF given, new
    <2>5. /\ new \in Questions /\ new.heard = q.heard
          /\ new.route = q.route /\ new.mode = q.mode /\ new.local = q.local
          /\ new.verified = q.verified /\ new.pair = q.pair /\ new.cited = q.cited
          /\ new.evidence = top /\ new.best = best
          /\ new.step = IF passes THEN "generate" ELSE "done"
          /\ new.outcome = IF passes THEN q.outcome ELSE "insufficient"
        <3> HIDE DEF passes, best
        <3>1. CASE passes
            BY <2>3, <2>4, <3>1 DEF Questions, Steps
        <3>2. CASE ~passes
            BY <2>3, <2>4, <3>2 DEF Questions, Steps, Outcomes
        <3> QED
            BY <3>1, <3>2
    <2>6. Consistent(new)
        BY <1>1, <2>1, <2>5 DEF Consistent
    <2>7. q.mode = "baseline" => q.mode # "enhanced"
        OBVIOUS
    <2>8. Told(new)
        BY <1>1, <2>5, <2>7 DEF Told, Consistent
    <2>9. Keeps(r, new)
        BY <1>1, <2>5, <2>6, <2>8 DEF Keeps, FromWhole
    <2> QED
        BY <1>6, <2>9, BecomesKeeps DEF new
<1> DEFINE chosen == IF q.mode = "baseline" THEN found ELSE Filtered(near, found)
<1>7. chosen \in SUBSET (1..n)
    BY <1>4 DEF Filtered
<1>8. SearchesQuestion(r) \/ Answered(chosen)
    BY <1>2a
<1> HIDE DEF chosen
<1> QED
    BY <1>5, <1>6, <1>7, <1>8

\* The question could not be embedded, or the model is not there.
LEMMA FailureKeeps ==
    ASSUME RagInv, NEW r \in Requests, SearchFails(r) \/ GenerationFails(r)
    PROVE  RagInv'
<1>1. PICK outcome \in {"failed", "unavailable"} : Ends(r, outcome)
    BY DEF SearchFails, GenerationFails
<1> QED
    BY <1>1, EndsKeeps DEF Outcomes

\* What a reply cites and was given stands.
LEMMA GeneratesKeeps ==
    ASSUME RagInv, NEW r \in Requests, Generates(r)
    PROVE  RagInv'
<1> DEFINE q == request[r]
<1>1. /\ q \in Questions /\ Consistent(q) /\ Told(q) /\ q.step = "generate"
      /\ r \in undisturbed => FromWhole(q)
    BY OfOne DEF Generates, At
<1>2. ASSUME NEW cited \in SUBSET q.evidence, NEW step \in {"check", "done"},
             NEW outcome \in {"answered", "insufficient"}, NEW new \in Questions,
             Becomes(r, new),
             new.route = q.route, new.mode = q.mode, new.local = q.local, new.heard = q.heard,
             new.verified = q.verified, new.pair = q.pair, new.best = q.best,
             new.evidence = q.evidence,
             new.cited = cited, new.step = step, new.outcome = outcome,
             q.route = "support" => (outcome = "answered" => cited # {}) /\ step = "done",
             q.route # "support" => outcome = "answered"
      PROVE  RagInv'
    <2>1. Consistent(new)
        BY <1>1, <1>2 DEF Consistent
    <2>2. Told(new)
        BY <1>1, <1>2 DEF Told
    <2>3. Keeps(r, new)
        BY <1>1, <1>2, <2>1, <2>2 DEF Keeps, FromWhole
    <2> QED
        BY <1>2, <2>3, BecomesKeeps
<1>3. PICK reply \in Replies, claims \in BOOLEAN :
         LET cited == Valid(r, reply) IN
         CASE q.mode # "enhanced" ->
                Becomes(r, [q EXCEPT !.step = "done", !.outcome = "answered"])
           [] q.route = "support" ->
                Becomes(r, [q EXCEPT !.step = "done", !.cited = cited, !.outcome = SupportStatus(cited)])
           [] OTHER ->
                Becomes(r, [q EXCEPT !.cited = cited,
                                     !.step = IF claims /\ cited # {} THEN "check" ELSE "done",
                                     !.outcome = "answered"])
    BY DEF Generates
<1> DEFINE cited == Valid(r, reply)
<1>4. cited \in SUBSET q.evidence
    BY DEF Valid, Stands
<1>5. q.evidence \in SUBSET (1..MaxSize)
    BY <1>1 DEF Questions
<1> HIDE DEF cited
<1>6. CASE q.mode # "enhanced"
    <2> DEFINE new == [q EXCEPT !.step = "done", !.outcome = "answered"]
    <2>1. /\ new \in Questions /\ new.step = "done" /\ new.heard = q.heard
          /\ new.route = q.route /\ new.mode = q.mode /\ new.local = q.local /\ new.verified = q.verified
          /\ new.pair = q.pair /\ new.evidence = q.evidence /\ new.cited = q.cited
          /\ new.best = q.best /\ new.outcome = "answered"
        BY <1>1 DEF Questions, Steps, Outcomes
    <2>2. Becomes(r, new)
        <3> DEFINE other == Becomes(r, [q EXCEPT !.step = "done", !.cited = cited, !.outcome = SupportStatus(cited)])
                   third == Becomes(r, [q EXCEPT !.cited = cited,
                                                 !.step = IF claims /\ cited # {} THEN "check" ELSE "done",
                                                 !.outcome = "answered"])
                   first == Becomes(r, new)
        <3>1. (CASE q.mode # "enhanced" -> first [] q.route = "support" -> other [] OTHER -> third)
            BY <1>3 DEF cited
        <3>2. q.route # "support"
            BY <1>1, <1>6 DEF Consistent
        <3> HIDE DEF first, other, third
        <3>3. first
            BY <1>6, <3>1, <3>2
        <3> QED
            BY <3>3 DEF first
    <2>3. q.route # "support" /\ q.cited \in SUBSET q.evidence
        BY <1>1, <1>6 DEF Consistent
    <2> HIDE DEF new
    <2> QED
        BY <1>2, <2>1, <2>2, <2>3
<1>7. CASE q.mode = "enhanced" /\ q.route = "support"
    <2> DEFINE new == [q EXCEPT !.step = "done", !.cited = cited, !.outcome = SupportStatus(cited)]
    <2>1. /\ SupportStatus(cited) \in {"answered", "insufficient"}
          /\ SupportStatus(cited) = "answered" => cited # {}
        BY DEF SupportStatus
    <2>2. /\ new \in Questions /\ new.step = "done" /\ new.heard = q.heard
          /\ new.route = q.route /\ new.mode = q.mode /\ new.local = q.local /\ new.verified = q.verified
          /\ new.pair = q.pair /\ new.evidence = q.evidence /\ new.cited = cited
          /\ new.best = q.best /\ new.outcome = SupportStatus(cited)
        BY <1>1, <1>4, <1>5, <2>1 DEF Questions, Steps, Outcomes
    <2>3. Becomes(r, new)
        BY <1>3, <1>7 DEF cited
    <2> HIDE DEF new
    <2> QED
        BY <1>2, <1>4, <1>7, <2>1, <2>2, <2>3
<1>8. CASE q.mode = "enhanced" /\ q.route # "support"
    <2> DEFINE step == IF claims /\ cited # {} THEN "check" ELSE "done"
               new == [q EXCEPT !.cited = cited, !.step = step, !.outcome = "answered"]
    <2>1. step \in {"check", "done"}
        OBVIOUS
    <2>2. Becomes(r, new)
        BY <1>3, <1>8 DEF cited
    <2> HIDE DEF step
    <2>3. /\ new \in Questions /\ new.step = step /\ new.heard = q.heard
          /\ new.route = q.route /\ new.mode = q.mode /\ new.local = q.local /\ new.verified = q.verified
          /\ new.pair = q.pair /\ new.evidence = q.evidence /\ new.cited = cited
          /\ new.best = q.best /\ new.outcome = "answered"
        BY <1>1, <1>4, <1>5, <2>1 DEF Questions, Steps, Outcomes
    <2> HIDE DEF new
    <2> QED
        BY <1>2, <1>4, <1>8, <2>1, <2>2, <2>3
<1> QED
    BY <1>6, <1>7, <1>8

\* The verdict on the claims changes nothing else.
LEMMA ChecksKeeps ==
    ASSUME RagInv, NEW r \in Requests, Checks(r)
    PROVE  RagInv'
<1> DEFINE q == request[r]
<1>1. /\ q \in Questions /\ Consistent(q) /\ Told(q) /\ q.step = "check"
      /\ r \in undisturbed => FromWhole(q)
    BY OfOne DEF Checks, At
<1>2. PICK verdict \in {"supported", "unsupported"} :
         Becomes(r, [q EXCEPT !.step = "done", !.support = verdict])
    BY DEF Checks
<1> DEFINE new == [q EXCEPT !.step = "done", !.support = verdict]
<1>3. /\ new \in Questions /\ new.step = "done" /\ new.heard = q.heard
      /\ new.route = q.route /\ new.mode = q.mode /\ new.local = q.local /\ new.verified = q.verified
      /\ new.pair = q.pair /\ new.evidence = q.evidence /\ new.cited = q.cited
      /\ new.best = q.best /\ new.outcome = q.outcome
    BY <1>1 DEF Questions, Steps
<1>4. Becomes(r, new)
    BY <1>2
<1> HIDE DEF new
<1>5. Consistent(new)
    BY <1>1, <1>3 DEF Consistent
<1>6. Told(new)
    BY <1>1, <1>3 DEF Told
<1>7. Keeps(r, new)
    BY <1>1, <1>3, <1>5, <1>6 DEF Keeps, FromWhole
<1> QED
    BY <1>4, <1>7, BecomesKeeps

\* A question arrives with nothing found, and knows whether the directory is
\* whole.
LEMMA ArrivesKeeps ==
    ASSUME RagInv, NEW r \in Requests, Arrives(r)
    PROVE  RagInv'
<1>1. PICK route \in Routes, mode \in Modes, local \in BOOLEAN :
         /\ mode # "enhanced" => route = "agent"
         /\ route = "agent" => ~local
         /\ request' = [request EXCEPT ![r] =
               [NoRequest EXCEPT !.route = route, !.mode = mode, !.local = local, !.step = FirstStep(route, mode)]]
    BY DEF Arrives
<1> DEFINE step == FirstStep(route, mode)
           new == [NoRequest EXCEPT !.route = route, !.mode = mode, !.local = local, !.step = step]
<1>2. /\ documents' = documents /\ vectors' = vectors /\ metadata' = metadata
      /\ indexer' = indexer /\ cached' = cached
      /\ undisturbed' = IF Whole THEN undisturbed \cup {r} ELSE undisturbed \ {r}
    BY DEF Arrives, indexVars
<1>3. /\ step \in {"ticket", "generate", "load", "rewrite"}
      /\ step = "ticket" <=> route = "support"
      /\ step = "generate" \/ step = "load" => mode # "enhanced"
    BY <1>1 DEF FirstStep, Modes
<1>4. NoRequest \in Questions
    BY DEF NoRequest, Questions, Steps, Routes, Modes, Pairs, Builds, NoPair, Far, Certain, Outcomes, Queries
<1> HIDE DEF step
<1>5. /\ new \in Questions
      /\ new.step = step /\ new.route = route /\ new.outcome = "none"
      /\ new.local = local /\ new.mode = mode /\ new.evidence = {} /\ new.cited = {}
      /\ new.pair = NoPair
    BY <1>3, <1>4 DEF NoRequest, Questions, Steps, Routes, Modes
<1>6. Cardinality({}) <= FinalTopK
    BY FS_EmptySet, RagAssumption
<1>7. request' = [request EXCEPT ![r] = new]
    BY <1>1 DEF step
<1> HIDE DEF new
<1>8. Consistent(new)
    BY <1>1, <1>3, <1>5, <1>6 DEF Consistent
<1>9. Told(new)
    BY <1>1, <1>3, <1>5 DEF Told
<1>10. FromWhole(new)
    BY <1>3, <1>5 DEF FromWhole, NoPair
<1>11. DirectoryOK'
    BY <1>2 DEF RagInv, DirectoryOK, IndexTypeOK, Whole
<1>12. CacheOK'
    BY <1>2 DEF RagInv, CacheOK
<1>13. request' \in [Requests -> Questions]
    BY <1>5, <1>7 DEF RagInv
<1>14. ASSUME NEW p \in Requests PROVE QuestionOK(p)'
    <2>1. CASE p = r
        <3>1. request'[p] = new
            BY <1>7, <2>1 DEF RagInv
        <3> QED
            BY <1>2, <1>3, <1>5, <1>8, <1>9, <1>10, <2>1, <3>1
            DEF QuestionOK, Consistent, Told, FromWhole, BothThere
    <2>2. CASE p # r
        <3>1. request'[p] = request[p] /\ QuestionOK(p)
            BY <1>7, <2>2 DEF RagInv
        <3>2. p \in undisturbed' => p \in undisturbed
            BY <1>2, <2>2
        <3> QED
            BY <1>2, <3>1, <3>2 DEF QuestionOK, Consistent, Told, FromWhole, BothThere
    <2> QED
        BY <2>1, <2>2
<1> QED
    BY <1>11, <1>12, <1>13, <1>14 DEF RagInv

\* The indexer leaves both files there, and whoever it disturbs is known.
LEMMA IndexerKeeps ==
    ASSUME RagInv, IndexerStep
    PROVE  RagInv'
<1>1. /\ request' = request /\ cached' = cached
      /\ undisturbed' = IF vectors' = vectors /\ metadata' = metadata THEN undisturbed ELSE {}
    BY DEF IndexerStep
<1>2. /\ documents \in Versions /\ vectors \in Versions \cup {None, Torn}
      /\ metadata \in Versions \cup {None, Torn}
      /\ indexer \in [step : {"none", "vectors", "filling", "metadata", "written"}, version : Versions \cup {None}]
      /\ indexer.step # "none" => indexer.version \in Versions
      /\ undisturbed \subseteq Requests
      /\ undisturbed # {} => Whole
    BY DEF RagInv, DirectoryOK, IndexTypeOK
<1>3. None \notin Versions /\ Torn \notin Versions /\ None # Torn
    BY IndexAssumption DEF None, Torn
<1>4. /\ documents' \in Versions /\ vectors' \in Versions \cup {None, Torn}
      /\ metadata' \in Versions \cup {None, Torn}
      /\ indexer' \in [step : {"none", "vectors", "filling", "metadata", "written"}, version : Versions \cup {None}]
      /\ indexer'.step # "none" => indexer'.version \in Versions
      /\ vectors' = None => vectors = None
      /\ metadata' = None => metadata = None
      /\ vectors' = vectors /\ metadata' = metadata /\ Whole => indexer'.step \notin {"filling", "metadata", "written"}
    <2>1. CASE Edits
        BY <1>2, <1>3, <2>1 DEF Edits, Whole
    <2>2. CASE Embeds
        BY <1>2, <1>3, <2>2 DEF Embeds, Whole
    <2>3. CASE IsStopped
        BY <1>2, <1>3, <2>3 DEF IsStopped, Resting, Whole
    <2>4. CASE OpensVectors
        BY <1>2, <1>3, <2>4 DEF OpensVectors, Whole
    <2>5. CASE FillsVectors
        BY <1>2, <1>3, <2>5 DEF FillsVectors, Whole
    <2>6. CASE OpensMetadata
        BY <1>2, <1>3, <2>6 DEF OpensMetadata, Whole
    <2>7. CASE FillsMetadata
        BY <1>2, <1>3, <2>7 DEF FillsMetadata, Resting, Whole
    <2> QED
        BY <2>1, <2>2, <2>3, <2>4, <2>5, <2>6, <2>7 DEF IndexerStep, Writes
<1>5. /\ undisturbed' \subseteq Requests
      /\ undisturbed' # {} => vectors' = vectors /\ metadata' = metadata /\ undisturbed' = undisturbed /\ Whole /\ Whole'
    <2>1. CASE vectors' = vectors /\ metadata' = metadata
        BY <1>1, <1>2, <1>4, <2>1 DEF Whole
    <2>2. CASE ~(vectors' = vectors /\ metadata' = metadata)
        BY <1>1, <2>2
    <2> QED
        BY <2>1, <2>2
<1>6. DirectoryOK'
    BY <1>4, <1>5 DEF DirectoryOK, IndexTypeOK
<1>7. CacheOK'
    BY <1>1 DEF RagInv, CacheOK
<1>8. ASSUME NEW r \in Requests PROVE QuestionOK(r)'
    <2>1. QuestionOK(r)
        BY DEF RagInv
    <2>2. BothThere => BothThere'
        BY <1>4 DEF BothThere
    <2>3. r \in undisturbed' => FromWhole(request[r])'
        BY <1>1, <1>5, <2>1 DEF QuestionOK, FromWhole
    <2>4. Consistent(request[r])' /\ Told(request[r])'
        BY <1>1, <2>1 DEF QuestionOK, Consistent, Told
    <2> QED
        BY <1>1, <2>1, <2>2, <2>3, <2>4 DEF QuestionOK
<1> QED
    BY <1>1, <1>6, <1>7, <1>8 DEF RagInv

-----------------------------------------------------------------------------
\* Nobody asked anything yet, and there are no files.
LEMMA InitRag == Init => RagInv
<1> SUFFICES ASSUME Init PROVE RagInv
    OBVIOUS
<1>1. /\ documents \in Versions /\ vectors = None /\ metadata = None /\ indexer = Resting
      /\ request = [r \in Requests |-> NoRequest]
      /\ cached = [route \in Sharing |-> NoPair] /\ undisturbed = {}
    BY DEF Init, IndexInit
<1>2. NoRequest \in Questions /\ NoPair \in Pairs
    BY DEF NoRequest, Questions, Steps, Routes, Modes, Pairs, Builds, NoPair, Far, Certain, Outcomes, Queries
<1>3. Cardinality({}) <= FinalTopK
    BY FS_EmptySet, RagAssumption
<1>4. Consistent(NoRequest) /\ Told(NoRequest)
    BY <1>2, <1>3 DEF Consistent, Told, NoRequest
<1>5. \A r \in Requests : QuestionOK(r)
    BY <1>1, <1>4 DEF QuestionOK, NoRequest
<1>6. DirectoryOK
    BY <1>1 DEF DirectoryOK, IndexTypeOK, Resting
<1>7. CacheOK
    BY <1>1, <1>2 DEF CacheOK
<1> QED
    BY <1>1, <1>2, <1>5, <1>6, <1>7 DEF RagInv

\* Every step of a question or of the indexer keeps it.
LEMMA NextRag ==
    ASSUME RagInv, [Next]_vars
    PROVE  RagInv'
<1>1. CASE IndexerStep
    BY <1>1, IndexerKeeps
<1>2. ASSUME NEW r \in Requests, Arrives(r) PROVE RagInv'
    BY <1>2, ArrivesKeeps
<1>3. ASSUME NEW r \in Requests, RequestStep(r) PROVE RagInv'
    <2>1. CASE ToldTheBranch(r) \/ SkipsRewrite(r) \/ Rewrites(r) \/ RewriteFails(r)
        BY <2>1, ToldTheBranchKeeps, SkipsRewriteKeeps, RewritesKeeps, RewriteFailsKeeps
    <2>2. CASE ReadsTicket(r) \/ ReadsUser(r) \/ CaseFails(r)
        BY <2>2, ReadsTicketKeeps, ReadsUserKeeps, CaseFailsKeeps
    <2>3. CASE IsKept(r) \/ Looks(r) \/ ReadsVectors(r) \/ ReadsMetadata(r)
        BY <2>3, IsKeptKeeps, LooksKeeps, ReadsVectorsKeeps, ReadsMetadataKeeps
    <2>4. CASE Searches(r) \/ SearchFails(r)
        BY <2>4, SearchesKeeps, FailureKeeps
    <2>5. CASE Generates(r) \/ GenerationFails(r) \/ Checks(r)
        BY <2>5, GeneratesKeeps, FailureKeeps, ChecksKeeps
    <2> QED
        BY <1>3, <2>1, <2>2, <2>3, <2>4, <2>5 DEF RequestStep
<1>4. CASE UNCHANGED vars
    <2>1. /\ documents' = documents /\ vectors' = vectors /\ metadata' = metadata
          /\ indexer' = indexer /\ cached' = cached /\ undisturbed' = undisturbed
          /\ request' = request
        BY <1>4 DEF vars, indexVars
    <2>2. DirectoryOK' /\ CacheOK'
        BY <2>1 DEF RagInv, DirectoryOK, CacheOK, IndexTypeOK, Whole
    <2>3. ASSUME NEW r \in Requests PROVE QuestionOK(r)'
        <3>1. QuestionOK(r)
            BY DEF RagInv
        <3> QED
            BY <2>1, <3>1 DEF QuestionOK, Consistent, Told, FromWhole, BothThere
    <2> QED
        BY <2>1, <2>2, <2>3 DEF RagInv
<1> QED
    BY <1>1, <1>2, <1>3, <1>4 DEF Next

\* The invariant holds always.
LEMMA RagInvAlways == FairSpec => []RagInv
<1>1. Init => RagInv
    BY InitRag
<1>2. RagInv /\ [Next]_vars => RagInv'
    BY NextRag
<1> QED
    BY <1>1, <1>2, PTL DEF FairSpec, Spec

(***************************************************************************)
(* Where the lengths tell two builds apart, which is all load_index looks  *)
(* at, a question meets one build of the index whatever the indexer does   *)
(* while it is asked, and is refused for no index only when there was none *)
(* (vector_index.py, rag_agent.py).                                        *)
(***************************************************************************)
THEOREM NeverAnotherBuild ==
    ASSUME SizesDiffer
    PROVE  FairSpec => []IndexIsWhole
<1>1. RagInv => TypeOK
    <2> SUFFICES ASSUME RagInv PROVE TypeOK
        OBVIOUS
    <2>1. /\ request \in [Requests -> Questions] /\ IndexTypeOK /\ cached \in [Sharing -> Pairs]
          /\ undisturbed \subseteq Requests
        BY DEF RagInv, DirectoryOK, CacheOK
    <2>2. \A r \in Requests : Cardinality(request[r].evidence) <= FinalTopK
        BY OfOne DEF Consistent
    <2> QED
        BY <2>1, <2>2 DEF TypeOK, Questions, Steps, Outcomes, Pairs, Builds
<1>2. RagInv => NeverTheWrongChunk
    <2> SUFFICES ASSUME RagInv, NEW r \in Requests, request[r].evidence # {}
                 PROVE  request[r].pair.vectors = request[r].pair.metadata
        BY DEF NeverTheWrongChunk
    <2> QED
        BY OfOne DEF Consistent, Matched, SameLength, SizesDiffer
<1>3. RagInv => WholeIndexIsRead
    <2> SUFFICES ASSUME RagInv, NEW r \in undisturbed
                 PROVE  /\ request[r].outcome \notin {"no_index", "unreadable"}
                        /\ request[r].pair.metadata # None /\ ~Shared(r) => request[r].pair.metadata = metadata
        BY DEF WholeIndexIsRead
    <2>1. r \in Requests
        BY DEF RagInv, DirectoryOK
    <2> QED
        BY <2>1, OfOne DEF FromWhole, Shared
<1> QED
    BY <1>1, <1>2, <1>3, RagInvAlways, PTL DEF IndexIsWhole

(***************************************************************************)
(* What a person is told is what happened to the question: an answer of    *)
(* the documents stands on evidence above the bar, a support answer on a   *)
(* quote and a verified user, and the local model's absence is never told  *)
(* as ignorance (rag_agent.py, support_assistant.py).                      *)
(***************************************************************************)
THEOREM TheOutcomeIsTrue == FairSpec => []OutcomeIsTrue
<1>1. RagInv => UnreachableIsNotIgnorance
    <2> SUFFICES ASSUME RagInv, NEW r \in Requests, QUERY_REWRITE_ENABLED,
                        request[r].outcome = "insufficient",
                        request[r].local, request[r].route # "support"
                 PROVE  request[r].heard
        BY DEF UnreachableIsNotIgnorance
    <2> QED
        BY OfOne DEF Told
<1>2. RagInv => AnswerIsFounded
    <2> SUFFICES ASSUME RagInv, NEW r \in Requests, request[r].outcome = "answered",
                        request[r].mode = "enhanced"
                 PROVE  /\ request[r].cited \subseteq request[r].evidence
                        /\ IF request[r].route = "support" THEN request[r].verified /\ request[r].cited # {}
                           ELSE /\ request[r].best >= Relevant
                                /\ Confidence(r) = "high" =>
                                      /\ request[r].cited # {} /\ request[r].best >= Certain
                                      /\ request[r].support = "supported"
        BY DEF AnswerIsFounded
    <2>1. Consistent(request[r]) /\ Told(request[r])
        BY OfOne
    <2>2. Confidence(r) = "high" => /\ request[r].cited # {} /\ request[r].best >= Certain
                                    /\ request[r].support = "supported"
        BY DEF Confidence
    <2> QED
        BY <2>1, <2>2 DEF Consistent, Told
<1> QED
    BY <1>1, <1>2, RagInvAlways, PTL DEF OutcomeIsTrue

=============================================================================
