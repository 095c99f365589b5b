------------------------------ MODULE RagAnswer ------------------------------
(***************************************************************************)
(* A question answered from the indexed documents: rewrite, load, search,  *)
(* filter and rerank, the relevance gate, the model, the citations, the    *)
(* support check (rag_agent.py and what it calls), behind four routes.     *)
(* POST /agent/rag and /support/chat keep one retriever for the life of    *)
(* the process, /rag/chat and /dev/chat make one for each request.         *)
(*                                                                         *)
(* The help centre's directory is another than the project's and is made   *)
(* and read the same way; the directory here stands for either.            *)
(***************************************************************************)
EXTENDS DocumentIndex, FiniteSets

CONSTANTS
    Requests,       \* bound: the questions under way at a time
    RetrievalTopK,  \* chunks the search returns
    FinalTopK,      \* chunks that reach the prompt
    QUERY_REWRITE_ENABLED, RETRY_WITH_QUESTION      \* read once, at the start

ASSUME RagAssumption ==
    /\ RetrievalTopK \in Nat \ {0} /\ FinalTopK \in 1..RetrievalTopK
    /\ QUERY_REWRITE_ENABLED \in BOOLEAN /\ RETRY_WITH_QUESTION \in BOOLEAN
    /\ IsFiniteSet(Versions)

VARIABLES
    request,        \* each question, how far it is and what it has found
    cached,         \* the pair a route's retriever has loaded
    undisturbed     \* the requests since whose arrival the directory was whole
vars == <<indexVars, request, cached, undisturbed>>

Routes == {"agent", "rag", "dev", "support"}
Sharing == {"agent", "support"}
Modes == {"off", "baseline", "enhanced"}
MaxSize == CHOOSE n \in {Sizes[v] : v \in Versions} : \A v \in Versions : Sizes[v] <= n
NoPair == [vectors |-> None, metadata |-> None]

\* A chunk's similarity is below or above similarity_threshold; its rerank
\* score, made of its similarity and of the question's words in it, below
\* answer_threshold, above it, or above it by HIGH_MARGIN.
Far == 0
Similar == 1
Weak == 1
Relevant == 2
Certain == 3

NoRequest ==
    [step |-> "none", route |-> "rag", local |-> FALSE, mode |-> "enhanced", query |-> "question",
     heard |-> FALSE, verified |-> FALSE, pair |-> NoPair, evidence |-> {}, best |-> Far,
     cited |-> {}, support |-> "not_checked", outcome |-> "none"]

Init ==
    /\ IndexInit
    /\ request = [r \in Requests |-> NoRequest]
    /\ cached = [route \in Sharing |-> NoPair]
    /\ undisturbed = {}

Loading(r) == request[r].step \in {"vectors", "metadata"}

\* Loading an index is one stretch of the event loop: no request moves in it.
At(r, step) == request[r].step = step /\ \A q \in Requests \ {r} : ~Loading(q)

Becomes(r, new) ==
    /\ request' = [request EXCEPT ![r] = new]
    /\ UNCHANGED <<indexVars, cached, undisturbed>>

Goes(r, step) == Becomes(r, [request[r] EXCEPT !.step = step])

\* An error: nothing of what was found is answered.
Ends(r, outcome) ==
    Becomes(r, [NoRequest EXCEPT !.step = "done", !.route = request[r].route, !.outcome = outcome])

FirstStep(route, mode) ==
    CASE route = "support" -> "ticket"
      [] mode = "off" -> "generate"
      [] mode = "baseline" -> "load"
      [] OTHER -> "rewrite"

\* Only /agent/rag has modes, and no choice of the provider.  A question that
\* has its answer makes room for another.
Arrives(r) ==
    /\ At(r, "none") \/ At(r, "done")
    /\ \E route \in Routes, mode \in Modes, local \in BOOLEAN :
         /\ mode # "enhanced" => route = "agent"
         /\ route = "agent" => ~local
         /\ request' = [request EXCEPT ![r] =
               [NoRequest EXCEPT !.route = route, !.mode = mode, !.local = local, !.step = FirstStep(route, mode)]]
    /\ undisturbed' = IF Whole THEN undisturbed \cup {r} ELSE undisturbed \ {r}
    /\ UNCHANGED <<indexVars, cached>>

-----------------------------------------------------------------------------
(* What comes before the search.                                           *)

\* dev_assistant.ask: a question about the branch alone is answered by Git,
\* read or not, and never searched.
ToldTheBranch(r) == At(r, "rewrite") /\ request[r].route = "dev" /\ Ends(r, "told")

\* A request to /agent/rag may have its query written again or not; the
\* others go by the setting.
MayRewrite(r) == request[r].route = "agent" \/ QUERY_REWRITE_ENABLED
MaySkip(r) == request[r].route = "agent" \/ ~QUERY_REWRITE_ENABLED

SkipsRewrite(r) == At(r, "rewrite") /\ MaySkip(r) /\ Goes(r, "load")

\* The model's query, or the question's keywords; either may be the question
\* itself.
Queries == {"another", "question"}

\* QueryRewriter.rewrite: the keywords when what the model wrote is of no use
\* as a query.
Rewrites(r) ==
    /\ At(r, "rewrite") /\ MayRewrite(r)
    /\ \E query \in Queries :
         Becomes(r, [request[r] EXCEPT !.step = "load", !.query = query, !.heard = TRUE])

\* Only the local provider says that it is unavailable; whatever else is
\* raised leaves the question's keywords.
WithoutModel(r) ==
    IF request[r].local THEN Ends(r, "unavailable")
    ELSE \E query \in Queries : Becomes(r, [request[r] EXCEPT !.step = "load", !.query = query])

RewriteFails(r) == At(r, "rewrite") /\ MayRewrite(r) /\ WithoutModel(r)

\* load_case: the ticket, then its user, each a call of the CRM.
ReadsTicket(r) == At(r, "ticket") /\ Goes(r, "user")

IsOwner(same) == same

\* find_user matches whatever the case of an id; load_case compares exactly.
ReadsUser(r) ==
    /\ At(r, "user")
    /\ \E same \in BOOLEAN :
         IF IsOwner(same)
         THEN Becomes(r, [request[r] EXCEPT !.step = "load", !.verified = same])
         ELSE Ends(r, "unverified")

CaseFails(r) == (At(r, "ticket") \/ At(r, "user")) /\ Ends(r, "unverified")

-----------------------------------------------------------------------------
(* The index.                                                              *)

Shared(r) == request[r].route \in Sharing

\* RAGRetriever.index: what this retriever has loaded before.
Kept(r) == IF Shared(r) THEN cached[request[r].route] ELSE NoPair

IsKept(r) ==
    /\ At(r, "load") /\ Kept(r) # NoPair
    /\ Becomes(r, [request[r] EXCEPT !.step = "search", !.pair = Kept(r)])

Looks(r) ==
    /\ At(r, "load") /\ Kept(r) = NoPair
    /\ IF BothThere THEN Goes(r, "vectors") ELSE Ends(r, "no_index")

\* VectorIndexError is no_index, any other error unreadable.
ReadsVectors(r) ==
    /\ At(r, "vectors")
    /\ IF vectors = Torn THEN Ends(r, "unreadable")
       ELSE Becomes(r, [request[r] EXCEPT !.step = "metadata", !.pair.vectors = vectors])

Keeping(r, pair) == IF Shared(r) THEN [cached EXCEPT ![request[r].route] = pair] ELSE cached

ReadsMetadata(r) ==
    LET read == [request[r].pair EXCEPT !.metadata = metadata] IN
    /\ At(r, "metadata")
    /\ CASE metadata = Torn -> Ends(r, "unreadable")
         [] metadata # Torn /\ ~SameLength(read.vectors, metadata) -> Ends(r, "no_index")
         [] OTHER ->
              /\ request' = [request EXCEPT ![r].step = "search", ![r].pair = read]
              /\ cached' = Keeping(r, read)
              /\ UNCHANGED <<indexVars, undisturbed>>

-----------------------------------------------------------------------------
(* Search, filter, rerank and the gate: no await between them.             *)

Positions(r) == 1..Sizes[request[r].pair.vectors]

\* The chunks of the best scores, as many as there are up to limit.
Tops(score, from, limit) ==
    {top \in SUBSET from :
        /\ Cardinality(top) = IF Cardinality(from) < limit THEN Cardinality(from) ELSE limit
        /\ \A n \in top, m \in from \ top : score[n] >= score[m]}

BestOf(score, top) == IF top = {} THEN Far ELSE CHOOSE s \in {score[n] : n \in top} : \A n \in top : score[n] <= s

Filtered(near, found) == {n \in found : near[n] >= Similar}

\* Mutant: whatever is left after the filter and reranking is good enough.
AnythingLeft(best) == best > Far

Enough(best) == best >= Relevant

Given(r, top, score) == [request[r] EXCEPT !.evidence = top, !.best = BestOf(score, top)]

\* The assistant of /support/chat asks the model whatever was found.
AfterSearch(r, top, score) ==
    LET found == Given(r, top, score) IN
    IF request[r].route = "support" \/ request[r].mode = "baseline" \/ Enough(found.best)
    THEN [found EXCEPT !.step = "generate"]
    ELSE [found EXCEPT !.step = "done", !.outcome = "insufficient"]

\* Mutant: a search that keeps nothing has the query written again.
RewritesAgain(r) == Goes(r, "rewrite")

SearchesQuestion(r) == Becomes(r, [request[r] EXCEPT !.query = "question"])

\* retry_with_question: /dev/chat always sets it, the help centre never.
Retries(r) ==
    /\ request[r].route = "dev" \/ (RETRY_WITH_QUESTION /\ request[r].route # "support")
    /\ request[r].query # "question"

\* The nearest are found, what is too far is dropped, and of what is left
\* those of the best rerank scores are given to the model.
Searches(r) ==
    /\ At(r, "search")
    /\ \E near \in [Positions(r) -> Far..Similar] :
       \E found \in Tops(near, Positions(r), RetrievalTopK) :
         LET kept == IF request[r].mode = "baseline" THEN found ELSE Filtered(near, found) IN
         IF kept = {} /\ Retries(r) THEN SearchesQuestion(r)
         ELSE \E score \in [kept -> Weak..Certain] :
              \E top \in Tops(score, kept, FinalTopK) : Becomes(r, AfterSearch(r, top, score))

\* The question could not be embedded.
SearchFails(r) == At(r, "search") /\ Ends(r, "failed")

-----------------------------------------------------------------------------
(* The model, its citations and what they support.                         *)

\* validate: of a chunk that was given to the model, and exactly.
Stands(r, citation) == citation.exact /\ citation.n \in request[r].evidence

\* What a model may cite: any number, word for word or not; one citation a
\* reply.
Replies == {{}} \cup {{citation} : citation \in [n : 1..MaxSize, exact : BOOLEAN]}

Valid(r, reply) == {citation.n : citation \in {c \in reply : Stands(r, c)}}

SupportStatus(cited) == IF cited = {} THEN "insufficient" ELSE "answered"

\* Without a quote or a claim there is nothing to check.
Generates(r) ==
    /\ At(r, "generate")
    /\ \E reply \in Replies, claims \in BOOLEAN :
         LET cited == Valid(r, reply) IN
         CASE request[r].mode # "enhanced" ->
                Becomes(r, [request[r] EXCEPT !.step = "done", !.outcome = "answered"])
           [] request[r].route = "support" ->
                Becomes(r, [request[r] EXCEPT !.step = "done", !.cited = cited, !.outcome = SupportStatus(cited)])
           [] OTHER ->
                Becomes(r, [request[r] EXCEPT !.cited = cited,
                                              !.step = IF claims /\ cited # {} THEN "check" ELSE "done",
                                              !.outcome = "answered"])

GenerationFails(r) ==
    /\ At(r, "generate")
    /\ Ends(r, IF request[r].local THEN "unavailable" ELSE "failed")

\* claim_support.check: by the model, or by words when it cannot be asked or
\* says nothing to read.
Checks(r) ==
    /\ At(r, "check")
    /\ \E verdict \in {"supported", "unsupported"} :
         Becomes(r, [request[r] EXCEPT !.step = "done", !.support = verdict])

Confidence(r) ==
    IF request[r].cited = {} \/ request[r].support = "unsupported" THEN "low"
    ELSE IF request[r].best >= Certain /\ request[r].support = "supported" THEN "high" ELSE "medium"

RequestStep(r) ==
    \/ ToldTheBranch(r) \/ SkipsRewrite(r) \/ Rewrites(r) \/ RewriteFails(r)
    \/ ReadsTicket(r) \/ ReadsUser(r) \/ CaseFails(r)
    \/ IsKept(r) \/ Looks(r) \/ ReadsVectors(r) \/ ReadsMetadata(r)
    \/ Searches(r) \/ SearchFails(r)
    \/ Generates(r) \/ GenerationFails(r) \/ Checks(r)

IndexerStep ==
    /\ Edits \/ Embeds \/ IsStopped \/ Writes
    /\ undisturbed' = IF vectors' = vectors /\ metadata' = metadata THEN undisturbed ELSE {}
    /\ UNCHANGED <<request, cached>>

Next == IndexerStep \/ \E r \in Requests : Arrives(r) \/ RequestStep(r)

Spec == Init /\ [][Next]_vars
FairSpec == Spec /\ \A r \in Requests : WF_vars(RequestStep(r))

-----------------------------------------------------------------------------
TypeOK ==
    /\ IndexTypeOK
    /\ request \in [Requests -> [step : {"none", "rewrite", "ticket", "user", "load", "vectors", "metadata",
                                         "search", "generate", "check", "done"},
                                 route : Routes, local : BOOLEAN, mode : Modes,
                                 query : Queries, heard : BOOLEAN, verified : BOOLEAN,
                                 pair : [vectors : Versions \cup {None}, metadata : Versions \cup {None}],
                                 evidence : SUBSET (1..MaxSize), best : Far..Certain,
                                 cited : SUBSET (1..MaxSize),
                                 support : {"not_checked", "supported", "unsupported"},
                                 outcome : {"none", "told", "unavailable", "unverified", "no_index", "unreadable",
                                            "failed", "insufficient", "answered"}]]
    /\ cached \in [Sharing -> [vectors : Versions \cup {None}, metadata : Versions \cup {None}]]
    /\ undisturbed \subseteq Requests
    /\ \A r \in Requests : Cardinality(request[r].evidence) <= FinalTopK

(***************************************************************************)
(* A chunk that is read, quoted and cited is the one whose vector was      *)
(* near, whatever the indexer did while the two files were read and        *)
(* however long ago they were: "loading refuses a pair whose lengths       *)
(* disagree rather than answering with the wrong chunk".                   *)
(***************************************************************************)
NeverTheWrongChunk ==
    \A r \in Requests : request[r].evidence # {} => request[r].pair.vectors = request[r].pair.metadata

(***************************************************************************)
(* When the directory held a whole build from before a question arrived    *)
(* until its answer, the question is not refused for the index - no failed *)
(* load is remembered - and a route that makes its own retriever answers   *)
(* from that build and no earlier one.                                     *)
(***************************************************************************)
WholeIndexIsRead ==
    \A r \in undisturbed :
        request[r].step = "done" =>
            /\ request[r].outcome \notin {"no_index", "unreadable"}
            /\ request[r].pair.metadata # None /\ ~Shared(r) => request[r].pair.metadata = metadata

(***************************************************************************)
(* A question meets one build of the index, and the one that is there.     *)
(***************************************************************************)
IndexIsWhole == TypeOK /\ NeverTheWrongChunk /\ WholeIndexIsRead

(***************************************************************************)
(* "I don't know" is said of the documents only: with the local model      *)
(* switched off it would send the person looking in the wrong place. That  *)
(* the model is there is known by its rewrite; with QUERY_REWRITE_ENABLED  *)
(* off, the gate is passed judgement on without it.                        *)
(***************************************************************************)
UnreachableIsNotIgnorance ==
    QUERY_REWRITE_ENABLED =>
        \A r \in Requests :
            request[r].outcome = "insufficient" /\ request[r].local /\ request[r].route # "support" =>
                request[r].heard

(***************************************************************************)
(* An answer from documents is as good as what it stands on: the model was *)
(* asked with evidence above the bar, cites nothing else, and is called    *)
(* certain only when it is cited, well above the bar and was checked.      *)
(***************************************************************************)
AnswerIsFounded ==
    \A r \in Requests :
        request[r].outcome = "answered" /\ request[r].mode = "enhanced" =>
            /\ request[r].cited \subseteq request[r].evidence
            /\ IF request[r].route = "support" THEN request[r].verified /\ request[r].cited # {}
               ELSE /\ request[r].best >= Relevant
                    /\ Confidence(r) = "high" =>
                          /\ request[r].cited # {} /\ request[r].best >= Certain
                          /\ request[r].support = "supported"

(***************************************************************************)
(* What the person is told is what happened to the question: an answer     *)
(* stands on what was found, and a refusal says which of its reasons it is.*)
(***************************************************************************)
OutcomeIsTrue == UnreachableIsNotIgnorance /\ AnswerIsFounded

\* Every question is answered or refused, however often the index is rebuilt
\* meanwhile.
QuestionsEnd == \A r \in Requests : request[r].step # "none" ~> request[r].step = "done"

=============================================================================
