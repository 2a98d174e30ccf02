------------------------------ MODULE PageList ------------------------------
(***************************************************************************)
(* The page lists through which bulk data is described to the VideoCore    *)
(* (vchiq_2835_arm.c): pages in runs, the cache lines cleaned for them,    *)
(* and the fragments that stand in for the partial cache lines at the ends *)
(* of a read.  Transfers share the fragments.  An address is a number and  *)
(* page n has addresses n * PageSize and on.                               *)
(*                                                                         *)
(* Fragments are for the Linux build; under Circle there are none and the  *)
(* pages of a buffer follow each other.                                    *)
(***************************************************************************)
EXTENDS Integers, Sequences, FiniteSets

CONSTANTS
  Transfers,     (* threads with a bulk transfer each                        *)
  PageSize,      (* PAGE_SIZE                                                *)
  LineSize,      (* g_cache_line_size                                        *)
  MaxFragments,  (* MAX_FRAGMENTS                                            *)
  PageNumbers,   (* pages that memory has                                    *)
  MaxPages       (* bound, for each transfer: pages of its buffer            *)

ASSUME PageListAssumption ==
  /\ {PageSize, LineSize} \subseteq Nat \ {0} /\ PageSize % LineSize = 0
  /\ MaxFragments \in Nat /\ PageNumbers \subseteq Nat
  /\ IsFiniteSet(Transfers) /\ MaxPages \in [Transfers -> Nat]

VARIABLES
  buffer,     (* of each transfer: its pages, offset, count and direction    *)
  pagelist,   (* what create_pagelist made of it                             *)
  listAt,     (* where each transfer is                                      *)
  fragments,  (* g_free_fragments, the first to be taken first               *)
  fragSema,   (* g_free_fragments_sema                                       *)
  copied,     (* bytes of each buffer copied from its fragment               *)
  leaked      (* history: fragments of page lists never freed                *)

pageVars == <<buffer, pagelist, listAt, fragments, fragSema, copied, leaked>>

Fragments == 1 .. MaxFragments
NoFragment == 0

NoBuffer == [pages |-> <<>>, offset |-> 0, count |-> 0, read |-> FALSE]
NoList == [addrs |-> <<>>, cleaned |-> {}, fragment |-> NoFragment]

PageInit ==
  /\ buffer = [t \in Transfers |-> NoBuffer]
  /\ pagelist = [t \in Transfers |-> NoList]
  /\ listAt = [t \in Transfers |-> "start"]
  /\ fragments = [i \in Fragments |-> i] /\ fragSema = MaxFragments
  /\ copied = [t \in Transfers |-> {}] /\ leaked = {}

NumPages(offset, count) == (count + offset + PageSize - 1) \div PageSize

-----------------------------------------------------------------------------
(* Runs of pages that follow each other: the address of the first, and in    *)
(* its low bits how many follow.                                             *)

(* Variant for mutation: one page too many in a run.                         *)
RoomInRunTooMany(run) == run < PageSize
RoomInRun(run) == run < PageSize - 1

(* A page joins the last run, or begins another.                             *)
Joined(runs, page) ==
  LET last == runs[Len(runs)]
  IN IF runs # <<>> /\ page = last.base + last.run + 1 /\ RoomInRun(last.run)
     THEN [runs EXCEPT ![Len(runs)].run = @ + 1]
     ELSE Append(runs, [base |-> page, run |-> 0])

(* The runs of the first i pages, for each i.                                *)
RunsOf(pages) ==
  LET upTo[i \in 0 .. Len(pages)] ==
        IF i = 0 THEN <<>> ELSE Joined(upTo[i - 1], pages[i])
  IN upTo

WordsOf(runs) == [i \in DOMAIN runs |-> runs[i].base * PageSize + runs[i].run]
Words(pages) == WordsOf(RunsOf(pages)[Len(pages)])

(* The addresses cleaned, page by page: all of a page, but for what is       *)
(* before the buffer in the first and after it in the last.                  *)
CleanedBytes(b) ==
  UNION {LET off == IF i = 1 THEN b.offset ELSE 0
             before == IF i = 1 THEN 0 ELSE (i - 1) * PageSize - b.offset
             room == PageSize - off
             bytes == IF room > b.count - before THEN b.count - before ELSE room
         IN {b.pages[i] * PageSize + off + k : k \in 0 .. bytes - 1}
         : i \in DOMAIN b.pages}

PartialLines(b) ==
  b.read /\ (b.offset % LineSize # 0 \/ (b.offset + b.count) % LineSize # 0)

-----------------------------------------------------------------------------
(* create_pagelist                                                           *)

CreateList(t) ==
  /\ listAt[t] = "start"
  /\ \E offset \in 0 .. PageSize - 1, count \in 1 .. MaxPages[t] * PageSize,
        read \in BOOLEAN :
       /\ NumPages(offset, count) <= MaxPages[t]
       /\ \E pages \in [1 .. NumPages(offset, count) -> PageNumbers] :
            LET b == [pages |-> pages, offset |-> offset, count |-> count,
                      read |-> read]
            IN /\ Cardinality({pages[i] : i \in DOMAIN pages}) = Len(pages)
               /\ buffer' = [buffer EXCEPT ![t] = b]
               /\ pagelist' = [pagelist EXCEPT
                    ![t] = [addrs |-> Words(pages), cleaned |-> CleanedBytes(b),
                            fragment |-> NoFragment]]
               /\ listAt' = [listAt EXCEPT
                    ![t] = IF PartialLines(b) THEN "down" ELSE "sent"]
  /\ UNCHANGED <<fragments, fragSema, copied, leaked>>

FragmentDown(t) ==
  /\ listAt[t] = "down" /\ fragSema > 0
  /\ fragSema' = fragSema - 1
  /\ listAt' = [listAt EXCEPT ![t] = "take"]
  /\ UNCHANGED <<buffer, pagelist, fragments, copied, leaked>>

FragmentTake(t) ==
  /\ listAt[t] = "take"
  /\ pagelist' = [pagelist EXCEPT ![t].fragment = Head(fragments)]
  /\ fragments' = Tail(fragments)
  /\ listAt' = [listAt EXCEPT ![t] = "sent"]
  /\ UNCHANGED <<buffer, fragSema, copied, leaked>>

-----------------------------------------------------------------------------
(* vchiq_complete_bulk and free_pagelist                                     *)

Least(a, b) == IF a < b THEN a ELSE b

HeadBytes(b, actual) == Least((LineSize - b.offset) % LineSize, actual)

TailBytes(b, actual) ==
  IF HeadBytes(b, actual) < actual THEN (b.offset + actual) % LineSize ELSE 0

(* Positions in the buffer: the head of the first line, the tail of the last.*)
FragmentBytes(b, actual) ==
  (0 .. HeadBytes(b, actual) - 1) \cup (actual - TailBytes(b, actual) .. actual - 1)

(* All of it was transferred, or none of an aborted one (actual = -1).       *)
FreeList(t) ==
  /\ listAt[t] = "sent"
  /\ \E aborted \in BOOLEAN :
       copied' = [copied EXCEPT
         ![t] = IF pagelist[t].fragment = NoFragment \/ aborted THEN {}
                ELSE FragmentBytes(buffer[t], buffer[t].count)]
  /\ listAt' = [listAt EXCEPT
       ![t] = IF pagelist[t].fragment = NoFragment THEN "freed" ELSE "put"]
  /\ UNCHANGED <<buffer, pagelist, fragments, fragSema, leaked>>

FragmentPut(t) ==
  /\ listAt[t] = "put"
  /\ fragments' = <<pagelist[t].fragment>> \o fragments
  /\ pagelist' = [pagelist EXCEPT ![t].fragment = NoFragment]
  /\ listAt' = [listAt EXCEPT ![t] = "up"]
  /\ UNCHANGED <<buffer, fragSema, copied, leaked>>

FragmentUp(t) ==
  /\ listAt[t] = "up"
  /\ fragSema' = fragSema + 1
  /\ listAt' = [listAt EXCEPT ![t] = "freed"]
  /\ UNCHANGED <<buffer, pagelist, fragments, copied, leaked>>

(* A transfer of nothing (actual = 0) never gives its page list back.        *)
KeepList(t) ==
  /\ listAt[t] = "sent"
  /\ leaked' = leaked \cup ({pagelist[t].fragment} \ {NoFragment})
  /\ listAt' = [listAt EXCEPT ![t] = "leaked"]
  /\ UNCHANGED <<buffer, pagelist, fragments, fragSema, copied>>

(* The next transfer.                                                        *)
NextBuffer(t) ==
  /\ listAt[t] = "freed"
  /\ buffer' = [buffer EXCEPT ![t] = NoBuffer]
  /\ pagelist' = [pagelist EXCEPT ![t] = NoList]
  /\ copied' = [copied EXCEPT ![t] = {}]
  /\ listAt' = [listAt EXCEPT ![t] = "start"]
  /\ UNCHANGED <<fragments, fragSema, leaked>>

PageNext ==
  \E t \in Transfers :
    \/ CreateList(t) \/ FragmentDown(t) \/ FragmentTake(t)
    \/ FreeList(t) \/ FragmentPut(t) \/ FragmentUp(t)
    \/ KeepList(t) \/ NextBuffer(t)

PageSpec == PageInit /\ [][PageNext]_pageVars

-----------------------------------------------------------------------------
PageTypeOK ==
  /\ \A t \in Transfers :
       /\ buffer[t].offset \in 0 .. PageSize - 1 /\ buffer[t].count \in Nat
       /\ pagelist[t].fragment \in 0 .. MaxFragments
  /\ fragments \in Seq(Fragments) /\ fragSema \in 0 .. MaxFragments
  /\ leaked \subseteq Fragments

(* The pages that the VideoCore reads from a word of a page list, and from   *)
(* the first i of them, for each i.                                          *)
PagesOf(word) ==
  [k \in 1 .. (word % PageSize) + 1 |-> word \div PageSize + k - 1]

PagesUpTo(words) ==
  LET upTo[i \in 0 .. Len(words)] ==
        IF i = 0 THEN <<>> ELSE upTo[i - 1] \o PagesOf(words[i])
  IN upTo

PagesNamed(words) == PagesUpTo(words)[Len(words)]

(* The address of each byte of a buffer.                                     *)
AddressOf(b, k) ==
  b.pages[(b.offset + k) \div PageSize + 1] * PageSize
    + ((b.offset + k) % PageSize)

(* A page list names the pages of its buffer, in order, and its bytes and no *)
(* others are cleaned (create_pagelist).  The bytes taken from a fragment    *)
(* are those in cache lines that the buffer does not fill (free_pagelist).   *)
(* No fragment has two users, and none is lost but with a page list that is  *)
(* not freed.                                                                *)
PageListExact ==
  /\ \A t \in Transfers : LET b == buffer[t] IN
       /\ PagesNamed(pagelist[t].addrs) = b.pages
       /\ pagelist[t].cleaned = {AddressOf(b, k) : k \in 0 .. b.count - 1}
       /\ copied[t] # {} =>
            copied[t] = {k \in 0 .. b.count - 1 :
              LET line == ((b.offset + k) \div LineSize) * LineSize
              IN line < b.offset \/ line + LineSize > b.offset + b.count}
  /\ \A t \in Transfers : listAt[t] = "take" => fragments # <<>>
  /\ \A f \in Fragments :
       Cardinality({i \in DOMAIN fragments : fragments[i] = f})
       + Cardinality({t \in Transfers : pagelist[t].fragment = f}) = 1
=============================================================================
