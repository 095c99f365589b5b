---------------------------- MODULE DocumentIndex ----------------------------
(***************************************************************************)
(* One index directory under data/index: the vectors (index.faiss) and     *)
(* their metadata (metadata.json), position N of one belonging to position *)
(* N of the other.  The indexer (index_documents.py) is a program of its   *)
(* own that may be stopped at any point; the server reads what it left     *)
(* (vector_index.py).                                                      *)
(*                                                                         *)
(* Documents are known by their version: a build of a version always makes *)
(* the same chunks, Sizes[version] of them, and <<version, n>> is the n-th. *)
(***************************************************************************)
EXTENDS Naturals

CONSTANTS
    Sizes       \* how many chunks the documents of each version make

Versions == DOMAIN Sizes
None == 0       \* no file
Torn == 99      \* a file opened for writing and not yet written

ASSUME IndexAssumption ==
    /\ Versions \subseteq Nat \ {None, Torn}
    /\ \A v \in Versions : Sizes[v] \in Nat \ {0}

VARIABLES
    documents,      \* the version on disk
    vectors,        \* index.faiss: of which version
    metadata,       \* metadata.json: of which version
    indexer         \* what the indexer does, and for which version
indexVars == <<documents, vectors, metadata, indexer>>

Resting == [step |-> "none", version |-> None]

IndexInit ==
    /\ documents \in Versions
    /\ vectors = None /\ metadata = None
    /\ indexer = Resting

\* Somebody edits the documents.
Edits ==
    /\ \E v \in Versions : v > documents /\ documents' = v
    /\ UNCHANGED <<vectors, metadata, indexer>>

\* load_documents, chunk_documents and the embeddings: nothing is written.
Embeds ==
    /\ indexer = Resting
    /\ indexer' = [step |-> "vectors", version |-> documents]
    /\ UNCHANGED <<documents, vectors, metadata>>

\* Embeddings fail, or the program is stopped: the files stay as they are.
IsStopped ==
    /\ indexer # Resting
    /\ indexer' = Resting
    /\ UNCHANGED <<documents, vectors, metadata>>

\* faiss.write_index truncates the file, torn or not, then fills it.
OpensVectors ==
    /\ indexer.step = "vectors"
    /\ vectors' = Torn
    /\ indexer' = [indexer EXCEPT !.step = "filling"]
    /\ UNCHANGED <<documents, metadata>>

FillsVectors ==
    /\ indexer.step = "filling"
    /\ vectors' = indexer.version
    /\ indexer' = [indexer EXCEPT !.step = "metadata"]
    /\ UNCHANGED <<documents, metadata>>

\* Path.write_text: truncated, then written.
OpensMetadata ==
    /\ indexer.step = "metadata"
    /\ metadata' = Torn
    /\ indexer' = [indexer EXCEPT !.step = "written"]
    /\ UNCHANGED <<documents, vectors>>

FillsMetadata ==
    /\ indexer.step = "written"
    /\ metadata' = indexer.version
    /\ indexer' = Resting
    /\ UNCHANGED <<documents, vectors>>

\* The steps that change a file of the directory.
Writes == OpensVectors \/ FillsVectors \/ OpensMetadata \/ FillsMetadata

BothThere == vectors # None /\ metadata # None

\* Mutant: the lengths are not compared.
AnyPair(v, m) == TRUE

\* What load_index demands of the pair it has read.
SameLength(v, m) == Sizes[v] = Sizes[m]

\* The directory holds one whole build, and nobody is about to write to it.
Whole == vectors \in Versions /\ metadata = vectors /\ indexer.step \notin {"filling", "metadata", "written"}

IndexTypeOK ==
    /\ documents \in Versions
    /\ vectors \in Versions \cup {None, Torn}
    /\ metadata \in Versions \cup {None, Torn}
    /\ indexer \in [step : {"none", "vectors", "filling", "metadata", "written"}, version : Versions \cup {None}]

=============================================================================
