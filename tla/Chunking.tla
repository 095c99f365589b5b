------------------------------ MODULE Chunking ------------------------------
(***************************************************************************)
(* src/app/services/chunking.py: how the documents of a corpus are cut     *)
(* into the chunks an index holds.  One action is one pass of a loop: a    *)
(* block joined or kept, a window cut.                                     *)
(*                                                                         *)
(* A text is its characters 1..length, some of them blank.  Where a        *)
(* heading, a class, a declaration or a paragraph begins is part of the    *)
(* document (starts): the four parsers are told apart by nothing else.  A  *)
(* section is named by the character it begins at.  What lies between two  *)
(* paragraphs is blank, and stands in the text as they are joined again.   *)
(***************************************************************************)
EXTENDS Integers, Sequences, FiniteSets

CONSTANTS
    Corpora,            \* sequences of [file, length, blank, starts]
    Settings,           \* [strategy, size, overlap]
    MAX_STRUCTURAL_CHARS, MIN_STRUCTURAL_CHARS

ASSUME ChunkingAssumption ==
    /\ MAX_STRUCTURAL_CHARS \in Nat \ {0} /\ MIN_STRUCTURAL_CHARS \in Nat
    /\ \A s \in Settings : s.size \in Nat /\ s.overlap \in Int
    /\ \A texts \in Corpora :
         /\ texts \in Seq({texts[d] : d \in DOMAIN texts})
         /\ \A d \in DOMAIN texts :
              texts[d].length \in Nat /\ texts[d].starts \subseteq 1..texts[d].length

VARIABLES
    corpus, setting,    \* the arguments of chunk_documents
    cutting             \* the loops: see NothingCut
chunkingVars == <<corpus, setting, cutting>>

None == [section |-> 0, from |-> 1, to |-> 0]

NothingCut ==
    [pc |-> "document",
     doc |-> 1,             \* which document
     next |-> 1,            \* the next block of this loop
     pending |-> None,      \* coalesce: too small to stand alone
     merged |-> <<>>,       \* coalesce: the blocks so far
     window |-> 1,          \* where the next window begins
     own |-> 0,             \* how many chunks are this document's
     chunks |-> <<>>]

ChunkingInit == corpus \in Corpora /\ setting \in Settings /\ cutting = NothingCut

Document == corpus[cutting.doc]

\* Directories and stem joined by dashes; the suffix is left out.
FileSlug(file) == file.dirs \o file.stem

\* What is left of a piece that is stripped, as its length.
Stripped(text, piece) ==
    LET ink == (piece.from..piece.to) \ text.blank
    IN  IF ink = {} THEN 0
        ELSE 1 + (CHOOSE last \in ink : \A c \in ink : c <= last)
               - (CHOOSE first \in ink : \A c \in ink : first <= c)

Length(piece) == piece.to - piece.from + 1

\* blocks_of: from each start to the next one.
BlocksOf(text) ==
    LET begins == {1} \cup text.starts
        Nth(k) == CHOOSE b \in begins : Cardinality({c \in begins : c <= b}) = k
        N == Cardinality(begins)
    IN  [k \in 1..N |-> [section |-> Nth(k), from |-> Nth(k),
                         to |-> IF k < N THEN Nth(k + 1) - 1 ELSE text.length]]

\* The ValueError of fixed_size_chunks.
Refuses ==
    /\ cutting.pc = "document" /\ cutting.doc <= Len(corpus)
    /\ setting.strategy = "fixed-size" /\ setting.overlap >= setting.size
    /\ cutting' = [cutting EXCEPT !.pc = "refused"]
    /\ UNCHANGED <<corpus, setting>>

\* A document is one piece for fixed-size, and blocks for structural.
BeginsDocument ==
    /\ cutting.pc = "document" /\ cutting.doc <= Len(corpus)
    /\ setting.strategy = "fixed-size" => setting.overlap < setting.size
    /\ cutting' =
         IF setting.strategy = "fixed-size"
         THEN [cutting EXCEPT
                 !.pc = "windows", !.window = 1, !.own = 0, !.next = 1,
                 !.merged = << [section |-> 0, from |-> 1, to |-> Document.length] >>]
         ELSE [cutting EXCEPT
                 !.pc = "coalesce", !.next = 1, !.own = 0,
                 !.pending = None, !.merged = <<>>]
    /\ UNCHANGED <<corpus, setting>>

\* The next block, behind the one that waits for it.
Joined ==
    LET block == BlocksOf(Document)[cutting.next] IN
    IF cutting.pending = None THEN block ELSE [cutting.pending EXCEPT !.to = block.to]

Coalesces ==
    /\ cutting.pc = "coalesce" /\ cutting.next <= Len(BlocksOf(Document))
    /\ cutting' =
         IF Stripped(Document, Joined) < MIN_STRUCTURAL_CHARS
         THEN [cutting EXCEPT !.next = @ + 1, !.pending = Joined]
         ELSE [cutting EXCEPT !.next = @ + 1, !.pending = None, !.merged = Append(@, Joined)]
    /\ UNCHANGED <<corpus, setting>>

\* Mutant: what still waits when the blocks are over is left behind.
CoalescedWithoutTail ==
    /\ cutting.pc = "coalesce" /\ cutting.next > Len(BlocksOf(Document))
    /\ cutting' = [cutting EXCEPT
         !.pc = "block", !.next = 1, !.pending = None,
         !.merged = IF cutting.pending # None /\ @ = <<>> THEN <<cutting.pending>> ELSE @]
    /\ UNCHANGED <<corpus, setting>>

\* What still waits when the blocks are over goes to the last one.
Coalesced ==
    /\ cutting.pc = "coalesce" /\ cutting.next > Len(BlocksOf(Document))
    /\ LET last == Len(cutting.merged)
           tail == cutting.pending
       IN  cutting' = [cutting EXCEPT
             !.pc = "block", !.next = 1, !.pending = None,
             !.merged = CASE tail = None -> @
                          [] tail # None /\ last = 0 -> <<tail>>
                          [] OTHER -> [@ EXCEPT ![last].to = tail.to]]
    /\ UNCHANGED <<corpus, setting>>

Block == cutting.merged[cutting.next]

Chunk(piece) ==
    [id |-> <<FileSlug(Document.file), cutting.own>>, doc |-> cutting.doc,
     section |-> piece.section, from |-> piece.from, to |-> piece.to,
     position |-> Len(cutting.chunks)]

\* A block that is blank is left out, one that is not too long is a chunk.
TakesBlock ==
    /\ cutting.pc = "block" /\ cutting.next <= Len(cutting.merged)
    /\ Length(Block) <= MAX_STRUCTURAL_CHARS \/ Stripped(Document, Block) = 0
    /\ cutting' =
         IF Stripped(Document, Block) = 0 THEN [cutting EXCEPT !.next = @ + 1]
         ELSE [cutting EXCEPT !.next = @ + 1, !.own = @ + 1,
                              !.chunks = Append(@, Chunk(Block))]
    /\ UNCHANGED <<corpus, setting>>

WindowsBlock ==
    /\ cutting.pc = "block" /\ cutting.next <= Len(cutting.merged)
    /\ Length(Block) > MAX_STRUCTURAL_CHARS /\ Stripped(Document, Block) > 0
    /\ cutting' = [cutting EXCEPT !.pc = "windows", !.window = Block.from]
    /\ UNCHANGED <<corpus, setting>>

Step == setting.size - setting.overlap

\* The break of _windows: this window reaches the end of the text.
ReachesEnd == cutting.window + setting.size > Block.to

\* range() of a step of zero raises, and of one below zero is empty.
NoWindows ==
    /\ cutting.pc = "windows" /\ Step <= 0
    /\ cutting' = IF Step = 0 THEN [cutting EXCEPT !.pc = "refused"]
                  ELSE [cutting EXCEPT !.pc = "block", !.next = @ + 1]
    /\ UNCHANGED <<corpus, setting>>

CutsWindow ==
    /\ cutting.pc = "windows" /\ Step > 0
    /\ LET end == cutting.window + setting.size - 1
           piece == [section |-> Block.section, from |-> cutting.window,
                     to |-> IF end < Block.to THEN end ELSE Block.to]
           blank == Stripped(Document, piece) = 0
       IN  cutting' = [cutting EXCEPT
             !.chunks = IF blank THEN @ ELSE Append(@, Chunk(piece)),
             !.own = IF blank THEN @ ELSE @ + 1,
             !.window = @ + Step,
             !.pc = IF ReachesEnd THEN "block" ELSE "windows",
             !.next = IF ReachesEnd THEN @ + 1 ELSE @]
    /\ UNCHANGED <<corpus, setting>>

DocumentDone ==
    /\ cutting.pc = "block" /\ cutting.next > Len(cutting.merged)
    /\ cutting' = [cutting EXCEPT !.pc = "document", !.doc = @ + 1]
    /\ UNCHANGED <<corpus, setting>>

AllCut ==
    /\ cutting.pc = "document" /\ cutting.doc > Len(corpus)
    /\ cutting' = [cutting EXCEPT !.pc = "cut"]
    /\ UNCHANGED <<corpus, setting>>

ChunkingNext == Refuses \/ BeginsDocument \/ Coalesces \/ Coalesced \/ TakesBlock
                  \/ WindowsBlock \/ NoWindows \/ CutsWindow \/ DocumentDone \/ AllCut
ChunkingSpec == ChunkingInit /\ [][ChunkingNext]_chunkingVars

-----------------------------------------------------------------------------
\* The stretches of a text no cut should break: as long as the overlap and
\* one more, inside one block, and not blank.
Stretches(text) ==
    {piece \in [from : 1..text.length, to : 1..text.length] :
        /\ 1 <= Length(piece) /\ Length(piece) <= setting.overlap + 1
        /\ Stripped(text, piece) > 0
        /\ \/ setting.strategy = "fixed-size"
           \/ \E k \in 1..Len(BlocksOf(text)) :
                /\ BlocksOf(text)[k].from <= piece.from
                /\ piece.to <= BlocksOf(text)[k].to}

(***************************************************************************)
(* "A sentence cut in half by one window is whole in the next": whatever   *)
(* is no longer than the overlap is whole in a chunk of its document,      *)
(* however blocks are joined, blank pieces left out and long ones cut - so *)
(* no character of a document is lost either.                              *)
(***************************************************************************)
StretchesAreWhole ==
    cutting.pc = "cut" /\ Step > 0 =>
        \A d \in 1..Len(corpus) : \A piece \in Stretches(corpus[d]) :
            \E k \in 1..Len(cutting.chunks) : LET chunk == cutting.chunks[k] IN
                chunk.doc = d /\ chunk.from <= piece.from /\ piece.to <= chunk.to

(***************************************************************************)
(* Chunks are "numbered across the whole run": a chunk's position is its   *)
(* row in the index, whichever document and block it comes from; and where *)
(* no two files share a slug, no two chunks share an id.                   *)
(***************************************************************************)
SlugsAreApart ==
    \A d, e \in 1..Len(corpus) : FileSlug(corpus[d].file) = FileSlug(corpus[e].file) => d = e

PositionsAreRows ==
    \A k \in 1..Len(cutting.chunks) :
        /\ cutting.chunks[k].position = k - 1
        /\ \A j \in 1..(k - 1) : SlugsAreApart => cutting.chunks[j].id # cutting.chunks[k].id

(***************************************************************************)
(* The chunks are the documents: every stretch whole in one of them, and   *)
(* each at the row and under the id it is cited by.                        *)
(***************************************************************************)
ChunksAreTheText == StretchesAreWhole /\ PositionsAreRows

=============================================================================
