---------------------------- MODULE VdirProofs ----------------------------
(***************************************************************************)
(* Proofs about Vdir, for any number of branches, names of any sizes that   *)
(* fit a block, any number of open directories and of changes, and hidden   *)
(* directories that return their entries in any order.                     *)
(***************************************************************************)
EXTENDS Vdir, NatLemmas, FiniteSetTheorems, SequenceTheorems, TLAPS

-----------------------------------------------------------------------------
(* Lists. *)

Entry == [name : AllNames, pos : Nat]
List  == [ents : Seq(Entry), room : Nat, ver : Nat]

EndOf(e) == e.pos + Size[e.name]

(* A list as append_de builds it: entries inside their blocks, one after    *)
(* the other, the first at 0.                                              *)
Good(v) ==
    /\ v \in List
    /\ \A i \in 1 .. Len(v.ents) : EndOf(v.ents[i]) <= BlkEnd(v.ents[i].pos)
    /\ \A i \in 1 .. Len(v.ents), j \in 1 .. Len(v.ents) : i < j => EndOf(v.ents[i]) <= v.ents[j].pos
    /\ \A i \in 1 .. Len(v.ents) : EndOf(v.ents[i]) <= v.room
    /\ PosOf(v, 0) = 0

LEMMA SizeFacts == /\ Blk \in Nat /\ Blk >= 1 /\ EndSize \in Nat
                   /\ \A n \in AllNames : Size[n] \in Nat /\ 1 <= Size[n] /\ Size[n] <= Blk
  BY SizeAssumption

(* The arithmetic of blocks. *)
LEMMA BlkFacts ==
    ASSUME NEW p \in Nat
    PROVE  /\ BlkEnd(p) \in Nat /\ p < BlkEnd(p) /\ BlkEnd(p) <= p + Blk
           /\ BlkEnd(BlkEnd(p)) = BlkEnd(p) + Blk
<1>1. Blk \in Nat /\ Blk >= 1
  BY SizeFacts
<1>2. p \div Blk \in Nat /\ p % Blk \in 0 .. Blk - 1 /\ p = Blk * (p \div Blk) + (p % Blk)
  BY <1>1
<1>. DEFINE q == p \div Blk
<1>3. BlkEnd(p) = (q + 1) * Blk
  BY DEF BlkEnd
<1>. HIDE DEF q
<1>4. \A k \in Nat : (k * Blk) \div Blk = k
  BY <1>1
<1>5. q \in Nat
  BY <1>2 DEF q
<1>6. (q + 1) * Blk = Blk * q + Blk
  BY <1>1, <1>5
<1>7. BlkEnd(p) \in Nat
  BY <1>1, <1>5, <1>3
<1>8. p < BlkEnd(p) /\ BlkEnd(p) <= p + Blk
  BY <1>2, <1>3, <1>6, <1>1, <1>5 DEF q
<1>9. BlkEnd(BlkEnd(p)) = (q + 2) * Blk
  BY <1>3, <1>4, <1>5 DEF BlkEnd
<1>10. (q + 2) * Blk = (q + 1) * Blk + Blk
  BY <1>1, <1>5
<1>. QED BY <1>7, <1>8, <1>9, <1>10, <1>3

LEMMA EmptyGood == Good(EmptyVdir)
<1>1. <<>> \in Seq(Entry) /\ Len(<<>>) = 0
  BY EmptySeq
<1>2. EmptyVdir \in List
  BY <1>1 DEF EmptyVdir, List
<1>3. Len(EmptyVdir.ents) = 0 /\ EmptyVdir.room = 0
  BY <1>1 DEF EmptyVdir
<1>. QED BY <1>2, <1>3 DEF Good, PosOf

LEMMA EntFacts ==
    ASSUME NEW v \in List, NEW i \in 1 .. Len(v.ents)
    PROVE  /\ v.ents[i] \in Entry /\ v.ents[i].pos \in Nat /\ v.ents[i].name \in AllNames
           /\ EndOf(v.ents[i]) \in Nat /\ v.ents[i].pos < EndOf(v.ents[i])
<1>1. v.ents \in Seq(Entry)
  BY DEF List
<1>2. v.ents[i] \in Entry
  BY <1>1, ElementOfSeq
<1>. QED BY <1>2, SizeFacts DEF Entry, EndOf

(* Where append_de puts an entry. *)
At(v, n) == IF Size[n] > BlkEnd(v.room) - v.room THEN BlkEnd(v.room) ELSE v.room

LEMMA AtFacts ==
    ASSUME NEW v \in List, NEW n \in AllNames
    PROVE  /\ At(v, n) \in Nat /\ v.room <= At(v, n)
           /\ At(v, n) + Size[n] <= BlkEnd(At(v, n))
           /\ v.room = 0 => At(v, n) = 0
<1>1. v.room \in Nat
  BY DEF List
<1>2. BlkEnd(v.room) \in Nat /\ v.room < BlkEnd(v.room) /\ BlkEnd(BlkEnd(v.room)) = BlkEnd(v.room) + Blk
  BY <1>1, BlkFacts
<1>3. Size[n] \in Nat /\ Size[n] <= Blk /\ Blk \in Nat /\ Blk >= 1
  BY SizeFacts
<1>4. At(v, n) \in Nat /\ v.room <= At(v, n)
  BY <1>1, <1>2 DEF At
<1>5. At(v, n) + Size[n] <= BlkEnd(At(v, n))
  <2>1. CASE Size[n] > BlkEnd(v.room) - v.room
    BY <2>1, <1>2, <1>3 DEF At
  <2>2. CASE ~(Size[n] > BlkEnd(v.room) - v.room)
    BY <2>2, <1>1, <1>2, <1>3 DEF At
  <2>. QED BY <2>1, <2>2
<1>6. v.room = 0 => At(v, n) = 0
  <2>1. SUFFICES ASSUME v.room = 0 PROVE At(v, n) = 0
    OBVIOUS
  <2>2. 0 \div Blk = 0
    BY <1>3
  <2>3. (0 + 1) * Blk = Blk
    BY <1>3
  <2>4. BlkEnd(0) = Blk
    BY <2>2, <2>3 DEF BlkEnd
  <2>. QED BY <2>1, <2>4, <1>3 DEF At
<1>. QED BY <1>4, <1>5, <1>6

LEMMA AppendIs ==
    ASSUME NEW v \in List, NEW n \in AllNames
    PROVE  /\ AppendDe(v, n) \in List
           /\ AppendDe(v, n).ver = v.ver
           /\ Len(AppendDe(v, n).ents) = Len(v.ents) + 1
           /\ \A i \in 1 .. Len(v.ents) : AppendDe(v, n).ents[i] = v.ents[i]
           /\ AppendDe(v, n).ents[Len(v.ents) + 1] = [name |-> n, pos |-> At(v, n)]
           /\ At(v, n) + Size[n] <= AppendDe(v, n).room
<1>. DEFINE e == [name |-> n, pos |-> At(v, n)]
            room == IF BlkEnd(At(v, n)) - (At(v, n) + Size[n]) < EndSize THEN BlkEnd(At(v, n))
                    ELSE At(v, n) + Size[n]
<1>1. AppendDe(v, n) = [v EXCEPT !.ents = Append(@, e), !.room = room]
  BY DEF AppendDe, At
<1>2. At(v, n) \in Nat /\ At(v, n) + Size[n] <= BlkEnd(At(v, n))
  BY AtFacts
<1>3. e \in Entry
  BY <1>2 DEF Entry
<1>4. room \in Nat /\ At(v, n) + Size[n] <= room
  BY <1>2, SizeFacts, BlkFacts
<1>5. v.ents \in Seq(Entry)
  BY DEF List
<1>. HIDE DEF e, room
<1>6. AppendDe(v, n) \in List /\ AppendDe(v, n).ver = v.ver /\ AppendDe(v, n).room = room
      /\ AppendDe(v, n).ents = Append(v.ents, e)
  <2>1. Append(v.ents, e) \in Seq(Entry)
    BY <1>3, <1>5, AppendProperties
  <2>. QED BY <1>1, <1>4, <2>1 DEF List
<1>7. /\ Len(Append(v.ents, e)) = Len(v.ents) + 1
      /\ \A i \in 1 .. Len(v.ents) : Append(v.ents, e)[i] = v.ents[i]
      /\ Append(v.ents, e)[Len(v.ents) + 1] = e
  BY <1>3, <1>5, AppendProperties
<1>. QED BY <1>4, <1>6, <1>7 DEF e

LEMMA AppendGood ==
    ASSUME NEW v, Good(v), NEW n \in AllNames
    PROVE  Good(AppendDe(v, n))
<1>. DEFINE w == AppendDe(v, n)
            l == Len(v.ents)
<1>1. v \in List
  BY DEF Good
<1>2. /\ w \in List /\ Len(w.ents) = l + 1
      /\ \A i \in 1 .. l : w.ents[i] = v.ents[i]
      /\ w.ents[l + 1] = [name |-> n, pos |-> At(v, n)]
      /\ At(v, n) + Size[n] <= w.room
  BY <1>1, AppendIs
<1>3. l \in Nat
  BY <1>1, LenProperties DEF List
<1>4. /\ At(v, n) \in Nat /\ v.room <= At(v, n) /\ v.room \in Nat
      /\ At(v, n) + Size[n] <= BlkEnd(At(v, n)) /\ (v.room = 0 => At(v, n) = 0)
      /\ Size[n] \in Nat /\ w.room \in Nat
  BY <1>1, <1>2, AtFacts, SizeFacts DEF List
<1>. HIDE DEF w, l
<1>5. w.ents[l + 1].pos = At(v, n) /\ EndOf(w.ents[l + 1]) = At(v, n) + Size[n]
  BY <1>2 DEF EndOf
<1>6. \A i \in 1 .. l : /\ EndOf(v.ents[i]) \in Nat /\ EndOf(v.ents[i]) <= v.room
                        /\ EndOf(v.ents[i]) <= BlkEnd(v.ents[i].pos)
  BY <1>1, EntFacts DEF Good, l
<1>7. \A i \in 1 .. Len(w.ents) : i \in 1 .. l \/ i = l + 1
  BY <1>2, <1>3
<1>8. \A i \in 1 .. Len(w.ents) : EndOf(w.ents[i]) <= BlkEnd(w.ents[i].pos)
  <2>. SUFFICES ASSUME NEW i \in 1 .. Len(w.ents) PROVE EndOf(w.ents[i]) <= BlkEnd(w.ents[i].pos)
    OBVIOUS
  <2>1. CASE i \in 1 .. l
    BY <2>1, <1>2, <1>6
  <2>2. CASE i = l + 1
    BY <2>2, <1>4, <1>5
  <2>. QED BY <2>1, <2>2, <1>7
<1>9. \A i \in 1 .. Len(w.ents) : EndOf(w.ents[i]) <= w.room
  <2>. SUFFICES ASSUME NEW i \in 1 .. Len(w.ents) PROVE EndOf(w.ents[i]) <= w.room
    OBVIOUS
  <2>1. CASE i \in 1 .. l
    BY <2>1, <1>2, <1>6, <1>4
  <2>2. CASE i = l + 1
    BY <2>2, <1>2, <1>5
  <2>. QED BY <2>1, <2>2, <1>7
<1>10. \A i, j \in 1 .. Len(w.ents) : i < j => EndOf(w.ents[i]) <= w.ents[j].pos
  <2>. SUFFICES ASSUME NEW i \in 1 .. Len(w.ents), NEW j \in 1 .. Len(w.ents), i < j
                PROVE  EndOf(w.ents[i]) <= w.ents[j].pos
    OBVIOUS
  <2>1. i \in 1 .. l
    BY <1>2, <1>3
  <2>2. CASE j \in 1 .. l
    BY <2>1, <2>2, <1>2, <1>1 DEF Good, l
  <2>3. CASE j = l + 1
    BY <2>1, <2>3, <1>2, <1>4, <1>5, <1>6
  <2>. QED BY <2>2, <2>3, <1>7
<1>11. PosOf(w, 0) = 0
  <2>1. 0 < Len(w.ents)
    BY <1>2, <1>3
  <2>2. PosOf(w, 0) = w.ents[1].pos
    BY <2>1 DEF PosOf
  <2>3. CASE l = 0
    <3>1. v.room = 0
      BY <2>3, <1>1 DEF Good, PosOf, l
    <3>. QED BY <3>1, <2>2, <2>3, <1>4, <1>5
  <2>4. CASE l # 0
    <3>1. 1 \in 1 .. l /\ 0 < l
      BY <2>4, <1>3
    <3>2. v.ents[1].pos = 0
      BY <3>1 DEF Good, PosOf, l
    <3>. QED BY <3>1, <3>2, <2>2, <1>2
  <2>. QED BY <2>3, <2>4
<1>. QED BY <1>2, <1>8, <1>9, <1>10, <1>11 DEF Good, w

LEMMA NamesFacts ==
    ASSUME NEW v \in List
    PROVE  /\ NamesOf(v) \in Seq(AllNames) /\ Len(NamesOf(v)) = Len(v.ents)
           /\ Len(v.ents) \in Nat /\ DOMAIN NamesOf(v) = 1 .. Len(v.ents)
           /\ \A i \in 1 .. Len(v.ents) : NamesOf(v)[i] = v.ents[i].name
<1>1. v.ents \in Seq(Entry)
  BY DEF List
<1>2. DOMAIN v.ents = 1 .. Len(v.ents) /\ Len(v.ents) \in Nat
  BY <1>1, LenProperties
<1>3. \A i \in 1 .. Len(v.ents) : v.ents[i].name \in AllNames
  BY EntFacts
<1>4. NamesOf(v) = [i \in 1 .. Len(v.ents) |-> v.ents[i].name]
  BY <1>2 DEF NamesOf
<1>5. NamesOf(v) \in [1 .. Len(v.ents) -> AllNames]
  BY <1>3, <1>4
<1>6. NamesOf(v) \in Seq(AllNames)
  BY <1>2, <1>5, SeqDef
<1>7. Len(NamesOf(v)) = Len(v.ents)
  BY <1>2, <1>5, <1>6, LenProperties
<1>. QED BY <1>2, <1>4, <1>6, <1>7

(* Positions grow with the number of entries before them. *)
LEMMA PosFacts ==
    ASSUME NEW v, Good(v), NEW k \in 0 .. Len(v.ents)
    PROVE  /\ PosOf(v, k) \in Nat /\ PosOf(v, k) <= v.room
           /\ \A i \in 1 .. Len(v.ents) : v.ents[i].pos < PosOf(v, k) <=> i <= k
           /\ PosOf(v, k) = 0 => k = 0
<1>1. v \in List /\ v.room \in Nat /\ Len(v.ents) \in Nat
  BY NamesFacts DEF Good, List
<1>2. \A i \in 1 .. Len(v.ents) : /\ v.ents[i].pos \in Nat /\ EndOf(v.ents[i]) \in Nat
                                  /\ v.ents[i].pos < EndOf(v.ents[i])
  BY <1>1, EntFacts
<1>3. PosOf(v, k) \in Nat /\ PosOf(v, k) <= v.room
  <2>1. CASE k < Len(v.ents)
    <3>1. k + 1 \in 1 .. Len(v.ents)
      BY <2>1, <1>1
    <3>2. EndOf(v.ents[k + 1]) <= v.room
      BY <3>1 DEF Good
    <3>. QED BY <2>1, <3>1, <3>2, <1>1, <1>2 DEF PosOf
  <2>2. CASE ~(k < Len(v.ents))
    BY <2>2, <1>1 DEF PosOf
  <2>. QED BY <2>1, <2>2
<1>4. ASSUME NEW i \in 1 .. Len(v.ents), i <= k PROVE EndOf(v.ents[i]) <= PosOf(v, k)
  <2>1. CASE k < Len(v.ents)
    <3>1. k + 1 \in 1 .. Len(v.ents) /\ i < k + 1
      BY <2>1, <1>1, <1>4
    <3>2. EndOf(v.ents[i]) <= v.ents[k + 1].pos
      BY <3>1 DEF Good
    <3>. QED BY <2>1, <3>2 DEF PosOf
  <2>2. CASE ~(k < Len(v.ents))
    <3>1. EndOf(v.ents[i]) <= v.room
      BY DEF Good
    <3>. QED BY <2>2, <3>1 DEF PosOf
  <2>. QED BY <2>1, <2>2
<1>5. ASSUME NEW i \in 1 .. Len(v.ents), v.ents[i].pos < PosOf(v, k) PROVE i <= k
  <2>1. CASE k < Len(v.ents)
    <3>1. k + 1 \in 1 .. Len(v.ents)
      BY <2>1, <1>1
    <3>2. SUFFICES ASSUME k + 1 <= i PROVE FALSE
      BY <1>1
    <3>3. k + 1 < i => EndOf(v.ents[k + 1]) <= v.ents[i].pos
      BY <3>1 DEF Good
    <3>4. v.ents[k + 1].pos <= v.ents[i].pos
      BY <3>1, <3>2, <3>3, <1>1, <1>2
    <3>. QED BY <2>1, <3>1, <3>4, <1>2, <1>5 DEF PosOf
  <2>2. CASE ~(k < Len(v.ents))
    BY <2>2, <1>1
  <2>. QED BY <2>1, <2>2
<1>6. \A i \in 1 .. Len(v.ents) : v.ents[i].pos < PosOf(v, k) <=> i <= k
  BY <1>2, <1>3, <1>4, <1>5
<1>7. PosOf(v, k) = 0 => k = 0
  <2>1. SUFFICES ASSUME k # 0 PROVE PosOf(v, k) > 0
    BY <1>3
  <2>2. 1 \in 1 .. Len(v.ents) /\ 1 <= k
    BY <2>1, <1>1
  <2>. QED BY <2>2, <1>2, <1>3, <1>6
<1>. QED BY <1>3, <1>6, <1>7

(* seek_vdir finds the entry that a position was given for. *)
LEMMA SeekFinds ==
    ASSUME NEW v, Good(v), NEW k \in 0 .. Len(v.ents)
    PROVE  EntsBefore(v, PosOf(v, k)) = k
<1>1. Len(v.ents) \in Nat /\ DOMAIN v.ents = 1 .. Len(v.ents)
  BY LenProperties DEF Good, List
<1>2. {i \in DOMAIN v.ents : v.ents[i].pos < PosOf(v, k)} = 1 .. k
  BY <1>1, PosFacts
<1>3. Cardinality(1 .. k) = k
  BY <1>1, FS_Interval
<1>. QED BY <1>2, <1>3 DEF EntsBefore

-----------------------------------------------------------------------------
(* The invariant. *)

FileRec == [open : BOOLEAN, hend : SUBSET Br, hseen : SUBSET HEntry, pos : Nat, ver : Nat,
            cache : List \cup {NoVdir}, from : Nat, got : Seq(AllNames), eof : BOOLEAN,
            want : SUBSET AllNames]

Calls == [pc : {"read", "copy"}, f : Files, n : 1 .. 2, v : List, known : SUBSET (Br \X AllNames),
          white : SUBSET (Br \X AllNames), todo : SUBSET HEntry]

VType ==
    /\ ent \in [Br -> SUBSET AllNames] /\ wh \in [Br -> SUBSET Names]
    /\ mounted \in SUBSET Br /\ mounted # {} /\ iver \in 1 .. MaxVer
    /\ ivdir \in List \cup {NoVdir} /\ ivdir.ver <= iver
    /\ file \in [Files -> FileRec] /\ rd \in Calls \cup {NoCall}
    /\ seeks \in Nat /\ fails \in Nat

(* Every list there is was built by append_de; files have no copy before    *)
(* the inode has a list.                                                   *)
ListsInv ==
    /\ ivdir = NoVdir \/ Good(ivdir)
    /\ \A f \in Files : file[f].cache = NoVdir \/ (Good(file[f].cache) /\ ivdir # NoVdir)
    /\ rd.pc = "read" => Good(rd.v) /\ rd.v.ver = 0
    /\ rd.pc = "copy" => ivdir # NoVdir
    /\ ~Idle => file[rd.f].open

(* The position of a file is that of the entry after the ones it returned. *)
Count(x) == x.from + Len(x.got)

Walk(x) ==
    \/ x.cache = NoVdir /\ x.pos = 0 /\ x.from = 0 /\ x.got = <<>> /\ ~x.eof
    \/ /\ x.cache # NoVdir
       /\ Count(x) <= Len(x.cache.ents) /\ x.pos = PosOf(x.cache, Count(x))
       /\ x.got = SubSeq(NamesOf(x.cache), x.from + 1, Count(x))
       /\ x.eof => Count(x) = Len(x.cache.ents)

WalkInv == \A f \in Files : Walk(file[f])

DirInv == \A b \in Br : Dot \in ent[b] /\ ent[b] \cap wh[b] = {}

(* read_vdir so far, when all hidden files were at their start: what was    *)
(* returned comes from the branches above, and every name that was          *)
(* returned is in the list or hidden by a whiteout of an upper branch.      *)
HEnt(b, n, w) == [b |-> b, n |-> n, wh |-> w]

MergeInv ==
    /\ rd.todo \subseteq HEntries(mounted)
    /\ \A e \in HEntries(mounted) \ rd.todo, d \in rd.todo : e.b <= d.b
    /\ \A b \in mounted, n \in AllNames :
          <<b, n>> \in rd.white <=> n \in wh[b] /\ HEnt(b, n, TRUE) \notin rd.todo
    /\ \A c \in Br, n \in AllNames : <<c, n>> \in rd.white \cup rd.known => c \in mounted
    /\ \A b \in mounted, n \in AllNames : <<b, n>> \in rd.known =>
          /\ n \in ent[b] /\ HEnt(b, n, FALSE) \notin rd.todo
          /\ \A c \in mounted : c < b => n \notin wh[c]
    /\ \A n \in AllNames : n \in Range(NamesOf(rd.v)) <=> \E b \in mounted : <<b, n>> \in rd.known
    /\ \A b \in mounted : \A n \in ent[b] : HEnt(b, n, FALSE) \notin rd.todo =>
          n \in Range(NamesOf(rd.v)) \/ \E c \in mounted : c < b /\ n \in wh[c]
    /\ IsInjective(NamesOf(rd.v))

Complete(v, S) == Range(NamesOf(v)) = S /\ IsInjective(NamesOf(v))

(* As long as nobody has gone back and nothing failed. *)
Steady == seeks = 0 /\ fails = 0

FilePass(f) ==
    /\ file[f].cache = NoVdir /\ ~(rd.pc = "copy" /\ rd.f = f) => file[f].hend = {} /\ file[f].hseen = {}
    /\ file[f].cache # NoVdir => /\ file[f].from = 0 /\ file[f].pos # 0
                                 /\ Complete(file[f].cache, file[f].want)

PassInv ==
    /\ ivdir # NoVdir /\ ivdir.ver = iver => Complete(ivdir, Visible)
    /\ \A f \in Files : FilePass(f)
    /\ rd.pc = "read" => file[rd.f].cache = NoVdir /\ file[rd.f].want = Visible /\ MergeInv
    /\ rd.pc = "copy" /\ file[rd.f].cache = NoVdir => ivdir.ver = iver /\ file[rd.f].want = Visible

VdirInv == VType /\ ListsInv /\ WalkInv /\ DirInv /\ (Steady => PassInv)

-----------------------------------------------------------------------------

LEMMA Basics == /\ NoVdir.ver = 0 /\ NoVdir.room = -1 /\ NoVdir.ents = <<>> /\ NoCall.pc = "idle"
                /\ \A v : Good(v) => v \in List /\ v # NoVdir
                /\ Br \subseteq Nat
<1>1. NoVdir.ver = 0 /\ NoVdir.room = -1 /\ NoVdir.ents = <<>> /\ NoCall.pc = "idle"
  BY DEF NoVdir, NoCall
<1>2. \A v : Good(v) => v \in List /\ v # NoVdir
  BY <1>1 DEF Good, List
<1>3. Br \subseteq Nat
  BY VdirBoundAssumption DEF Br
<1>. QED BY <1>1, <1>2, <1>3

LEMMA IdleIs ==
    ASSUME VType
    PROVE  /\ Idle <=> rd = NoCall
           /\ ~Idle <=> rd \in Calls
           /\ rd \in Calls => rd.pc \in {"read", "copy"} /\ rd.f \in Files
<1>1. rd \in Calls \cup {NoCall} /\ NoCall.pc = "idle"
  BY Basics DEF VType
<1>2. rd \in Calls => rd.pc \in {"read", "copy"} /\ rd.f \in Files
  BY DEF Calls
<1>. QED BY <1>1, <1>2 DEF Idle

LEMMA ClosedIs ==
    ASSUME NEW o \in BOOLEAN, NEW k \in Nat
    PROVE  LET x == [Closed EXCEPT !.open = o, !.ver = k]
           IN  /\ x \in FileRec /\ x.cache = NoVdir /\ x.hend = {} /\ x.hseen = {}
               /\ Walk(x)
<1>. DEFINE x == [Closed EXCEPT !.open = o, !.ver = k]
<1>0. <<>> \in Seq(AllNames)
  BY EmptySeq
<1>1. /\ Closed.cache = NoVdir /\ Closed.hend = {} /\ Closed.hseen = {} /\ Closed.pos = 0 /\ Closed.from = 0
      /\ Closed.got = <<>> /\ Closed.eof = FALSE
  BY DEF Closed
<1>2. Closed \in FileRec
  BY <1>0, ZenonT(30) DEF FileRec, Closed
<1>3. x \in FileRec
  BY <1>2 DEF FileRec
<1>4. /\ x.cache = Closed.cache /\ x.hend = Closed.hend /\ x.hseen = Closed.hseen /\ x.pos = Closed.pos
      /\ x.from = Closed.from /\ x.got = Closed.got /\ x.eof = Closed.eof
  BY <1>2 DEF FileRec
<1>. QED BY <1>1, <1>3, <1>4 DEF Walk

LEMMA ClosedIsClosed == Closed = [Closed EXCEPT !.open = FALSE, !.ver = 0]
<1>1. Closed.open = FALSE /\ Closed.ver = 0
  BY DEF Closed
<1>. QED BY <1>1, Zenon DEF Closed

LEMMA InitInv == Init => VdirInv
<1>. SUFFICES ASSUME Init PROVE VdirInv
  OBVIOUS
<1>1. PICK E \in [Br -> SUBSET Names], W \in [Br -> SUBSET Names] :
          /\ \A b \in Br : E[b] \cap W[b] = {}
          /\ ent = [b \in Br |-> E[b] \cup {Dot}]
          /\ wh = W
  BY DEF Init
<1>2. 1 \in Br /\ 1 # 0
  BY VdirBoundAssumption DEF Br
<1>3. Closed \in FileRec /\ Closed.cache = NoVdir /\ Closed.hend = {} /\ Closed.hseen = {} /\ Walk(Closed)
  BY ClosedIs, ClosedIsClosed, Zenon
<1>4. VType
  <2>1. ent \in [Br -> SUBSET AllNames] /\ wh \in [Br -> SUBSET Names]
    BY <1>1 DEF AllNames
  <2>2. mounted \in SUBSET Br /\ mounted # {}
    BY <1>2 DEF Init
  <2>3. iver \in 1 .. MaxVer /\ seeks \in Nat /\ fails \in Nat /\ ivdir = NoVdir /\ ivdir.ver <= iver
    BY VdirBoundAssumption, Basics DEF Init
  <2>4. file \in [Files -> FileRec] /\ rd = NoCall
    BY <1>3 DEF Init
  <2>. QED BY <2>1, <2>2, <2>3, <2>4 DEF VType
<1>5. ivdir = NoVdir /\ rd.pc = "idle" /\ \A f \in Files : file[f] = Closed
  BY Basics DEF Init
<1>6. ListsInv
  BY <1>3, <1>5 DEF ListsInv, Idle
<1>7. WalkInv
  BY <1>3, <1>5 DEF WalkInv
<1>8. DirInv
  BY <1>1, SizeAssumption DEF DirInv
<1>9. PassInv
  BY <1>3, <1>5 DEF PassInv, FilePass
<1>. QED BY <1>4, <1>6, <1>7, <1>8, <1>9 DEF VdirInv

(* What does not look at the directory. *)
LEMMA SameDisk == disk' = disk => Visible' = Visible
  BY DEF disk, Visible

LEMMA SameMerge == disk' = disk /\ rd' = rd => (MergeInv <=> MergeInv')
<1>. SUFFICES ASSUME disk' = disk, rd' = rd PROVE MergeInv <=> MergeInv'
  OBVIOUS
<1>2. ent' = ent /\ wh' = wh /\ mounted' = mounted
  BY DEF disk
<1>3. HEntries(mounted)' = HEntries(mounted)
  BY <1>2 DEF HEntries
<1>. QED BY <1>3, <1>2 DEF MergeInv

(* A step of a file that no readdir is using. *)
LEMMA FileStep ==
    ASSUME VdirInv, disk' = disk, ivdir' = ivdir, rd' = rd, seeks' \in Nat, fails' \in Nat,
           NEW f \in Files, NEW x \in FileRec, file' = [file EXCEPT ![f] = x], ~Busy(f),
           Walk(x), x.cache = NoVdir \/ (Good(x.cache) /\ ivdir # NoVdir),
           Steady' => Steady /\ x.cache = NoVdir /\ x.hend = {} /\ x.hseen = {}
    PROVE  VdirInv'
<1>1. VType /\ ListsInv /\ WalkInv /\ DirInv /\ (Steady => PassInv)
  BY DEF VdirInv
<1>2. file'[f] = x /\ \A g \in Files : g # f => file'[g] = file[g]
  BY <1>1 DEF VType
<1>3. ~Idle => rd.f \in Files /\ rd.f # f
  BY <1>1, IdleIs DEF Busy
<1>4. VType'
  BY <1>1 DEF VType, disk
<1>5. ListsInv'
  BY <1>1, <1>2, <1>3, IdleIs DEF ListsInv, Idle
<1>6. WalkInv'
  BY <1>1, <1>2 DEF WalkInv
<1>7. DirInv'
  BY <1>1 DEF DirInv, disk
<1>8. ASSUME Steady' PROVE PassInv'
  <2>1. PassInv /\ x.cache = NoVdir /\ x.hend = {} /\ x.hseen = {}
    BY <1>1, <1>8
  <2>2. Visible' = Visible /\ (MergeInv <=> MergeInv') /\ iver' = iver
    BY SameDisk, SameMerge DEF disk
  <2>3. \A g \in Files : FilePass(g)'
    BY <2>1, <1>2 DEF PassInv, FilePass
  <2>4. rd.pc \in {"read", "copy"} => file'[rd.f] = file[rd.f]
    BY <1>2, <1>3 DEF Idle
  <2>. QED BY <2>1, <2>2, <2>3, <2>4 DEF PassInv
<1>. QED BY <1>4, <1>5, <1>6, <1>7, <1>8 DEF VdirInv

LEMMA OpenInv ==
    ASSUME VdirInv, NEW f \in Files, Open(f)
    PROVE  VdirInv'
<1>1. VType /\ ListsInv
  BY DEF VdirInv
<1>2. ~Busy(f)
  BY <1>1 DEF Open, Busy, ListsInv
<1>3. PICK x : x = [Closed EXCEPT !.open = TRUE, !.ver = iver]
  OBVIOUS
<1>4. iver \in Nat
  BY <1>1 DEF VType
<1>5. x \in FileRec /\ x.cache = NoVdir /\ x.hend = {} /\ x.hseen = {} /\ Walk(x)
  BY <1>3, <1>4, ClosedIs, Zenon
<1>6. file' = [file EXCEPT ![f] = x]
  BY <1>3 DEF Open
<1>7. disk' = disk /\ ivdir' = ivdir /\ rd' = rd /\ seeks' = seeks /\ fails' = fails /\ seeks \in Nat /\ fails \in Nat
  BY <1>1 DEF Open, VType, disk
<1>8. Steady' => Steady
  BY <1>7 DEF Steady
<1>. QED BY <1>2, <1>5, <1>6, <1>7, <1>8, FileStep

LEMMA ReleaseInv ==
    ASSUME VdirInv, NEW f \in Files, ReleaseDir(f)
    PROVE  VdirInv'
<1>1. VType
  BY DEF VdirInv
<1>2. ~Busy(f) /\ file' = [file EXCEPT ![f] = Closed]
  BY DEF ReleaseDir
<1>3. Closed \in FileRec /\ Closed.cache = NoVdir /\ Closed.hend = {} /\ Closed.hseen = {} /\ Walk(Closed)
  BY ClosedIs, ClosedIsClosed, Zenon
<1>7. disk' = disk /\ ivdir' = ivdir /\ rd' = rd /\ seeks' = seeks /\ fails' = fails /\ seeks \in Nat /\ fails \in Nat
  BY <1>1 DEF ReleaseDir, VType, disk
<1>8. Steady' => Steady
  BY <1>7 DEF Steady
<1>. QED BY <1>2, <1>3, <1>7, <1>8, FileStep

LEMMA LseekInv ==
    ASSUME VdirInv, NEW f \in Files, NEW k \in 0 .. Len(file[f].cache.ents), Lseek(f, k)
    PROVE  VdirInv'
<1>1. VType /\ ListsInv /\ WalkInv
  BY DEF VdirInv
<1>2. PICK x : x = file[f]
  OBVIOUS
<1>3. x \in FileRec /\ x.cache # NoVdir /\ Good(x.cache) /\ ivdir # NoVdir /\ Walk(x)
  BY <1>1, <1>2 DEF VType, ListsInv, WalkInv, Lseek
<1>4. k \in 0 .. Len(x.cache.ents) /\ Len(x.cache.ents) \in Nat /\ k \in Nat
  BY <1>2, <1>3, NamesFacts DEF Good
<1>5. PICK p : p = IF k = 0 THEN 0 ELSE PosOf(x.cache, k)
  OBVIOUS
<1>6. p = PosOf(x.cache, k) /\ p \in Nat
  BY <1>3, <1>4, <1>5, PosFacts DEF Good
<1>7. PICK y : y = [x EXCEPT !.pos = p, !.ver = IF p = x.pos THEN @ ELSE 0,
                              !.from = k, !.got = <<>>, !.eof = FALSE]
  OBVIOUS
<1>8. file' = [file EXCEPT ![f] = y]
  BY <1>2, <1>5, <1>7 DEF Lseek
<1>9. <<>> \in Seq(AllNames) /\ Len(<<>>) = 0
  BY EmptySeq
<1>10. y \in FileRec /\ y.cache = x.cache /\ y.pos = p /\ y.from = k /\ y.got = <<>> /\ y.eof = FALSE
  BY <1>3, <1>4, <1>6, <1>7, <1>9 DEF FileRec
<1>11. Count(y) = k
  BY <1>4, <1>9, <1>10 DEF Count
<1>12. y.got = SubSeq(NamesOf(y.cache), y.from + 1, Count(y))
  <2>1. SubSeq(NamesOf(y.cache), k + 1, k) = <<>>
    BY <1>4, SubSeqEmpty
  <2>. QED BY <2>1, <1>10, <1>11
<1>13. Walk(y)
  BY <1>3, <1>4, <1>6, <1>10, <1>11, <1>12 DEF Walk
<1>14. disk' = disk /\ ivdir' = ivdir /\ rd' = rd /\ seeks' = seeks + 1 /\ fails' = fails /\ seeks \in Nat /\ fails \in Nat
  BY <1>1 DEF Lseek, VType, disk
<1>15. ~Steady' /\ seeks' \in Nat /\ fails' \in Nat
  BY <1>14 DEF Steady
<1>16. ~Busy(f)
  BY DEF Lseek
<1>. QED BY <1>3, <1>8, <1>10, <1>13, <1>14, <1>15, <1>16, FileStep

(* The list as read_vdir leaves it. *)
LEMMA VerGood ==
    ASSUME NEW v, Good(v), NEW k \in Nat
    PROVE  LET w == [v EXCEPT !.ver = k]
           IN  Good(w) /\ NamesOf(w) = NamesOf(v) /\ w.ver = k
<1>. DEFINE w == [v EXCEPT !.ver = k]
<1>1. v \in List
  BY DEF Good
<1>2. w \in List /\ w.ents = v.ents /\ w.room = v.room /\ w.ver = k
  BY <1>1 DEF List
<1>. HIDE DEF w
<1>3. PosOf(w, 0) = PosOf(v, 0) /\ NamesOf(w) = NamesOf(v)
  BY <1>2 DEF PosOf, NamesOf
<1>4. Good(w)
  BY <1>2, <1>3 DEF Good
<1>. QED BY <1>2, <1>3, <1>4 DEF w

LEMMA EmptyNames == Range(NamesOf(EmptyVdir)) = {} /\ IsInjective(NamesOf(EmptyVdir)) /\ EmptyVdir.ver = 0
<1>1. EmptyVdir \in List /\ EmptyVdir.ents = <<>> /\ EmptyVdir.ver = 0
  BY EmptyGood DEF Good, EmptyVdir
<1>2. DOMAIN NamesOf(EmptyVdir) = {}
  BY <1>1 DEF NamesOf
<1>. QED BY <1>1, <1>2 DEF Range, IsInjective

LEMMA ReaddirInv ==
    ASSUME VdirInv, NEW f \in Files, NEW n \in 1 .. 2, NEW expired \in BOOLEAN, Readdir(f, n, expired)
    PROVE  VdirInv'
<1>1. VType /\ ListsInv /\ WalkInv /\ DirInv /\ (Steady => PassInv)
  BY DEF VdirInv
<1>2. PICK x : x = file[f]
  OBVIOUS
<1>3. x \in FileRec /\ Walk(x) /\ x.open /\ Idle /\ rd.pc = "idle"
  BY <1>1, <1>2 DEF VType, WalkInv, Readdir, Idle
<1>4. PICK w : w = IF x.pos = 0 THEN Visible ELSE x.want
  OBVIOUS
<1>5. w \in SUBSET AllNames
  BY <1>3, <1>4 DEF FileRec, Visible
<1>6. PICK y : y = [x EXCEPT !.want = w]
  OBVIOUS
<1>7. file' = [file EXCEPT ![f] = y]
  BY <1>2, <1>4, <1>6 DEF Readdir
<1>8. /\ y \in FileRec /\ y.want = w /\ y.cache = x.cache /\ y.pos = x.pos /\ y.from = x.from /\ y.got = x.got
      /\ y.eof = x.eof /\ y.open = x.open /\ y.hend = x.hend /\ y.hseen = x.hseen
  BY <1>3, <1>5, <1>6 DEF FileRec
<1>9. Walk(y)
  BY <1>3, <1>8 DEF Walk, Count
<1>10. file'[f] = y /\ \A g \in Files : g # f => file'[g] = file[g]
  BY <1>1, <1>7 DEF VType
<1>11. disk' = disk /\ ivdir' = ivdir /\ seeks' = seeks /\ fails' = fails
  BY DEF Readdir, disk
<1>12. PICK T : T = IF DoRead(f, expired) THEN HEntries(mounted \ x.hend) \ x.hseen ELSE {}
  OBVIOUS
<1>13. PICK pc : pc = IF DoRead(f, expired) THEN "read" ELSE "copy"
  OBVIOUS
<1>14. rd' = [pc |-> pc, f |-> f, n |-> n, v |-> EmptyVdir, known |-> {}, white |-> {}, todo |-> T]
  BY <1>2, <1>12, <1>13 DEF Readdir
<1>15. T \in SUBSET HEntry
  BY <1>12 DEF HEntries
<1>16. rd' \in Calls /\ rd'.pc = pc /\ rd'.f = f /\ rd'.v = EmptyVdir /\ rd'.known = {} /\ rd'.white = {} /\ rd'.todo = T
  BY <1>13, <1>14, <1>15, EmptyGood DEF Calls, Good
<1>17. VType'
  BY <1>1, <1>7, <1>8, <1>11, <1>16 DEF VType, disk
<1>18. pc = "copy" => ivdir # NoVdir /\ (x.pos = 0 => ivdir.ver = iver)
  BY <1>2, <1>13 DEF DoRead
<1>19. ListsInv'
  BY <1>1, <1>2, <1>3, <1>8, <1>10, <1>11, <1>16, <1>18, EmptyGood, EmptyNames DEF ListsInv
<1>20. WalkInv'
  BY <1>1, <1>9, <1>10 DEF WalkInv
<1>21. DirInv'
  BY <1>1, <1>11 DEF DirInv, disk
<1>22. ASSUME Steady' PROVE PassInv'
  <2>1. PassInv
    BY <1>1, <1>11, <1>22 DEF Steady
  <2>2. Visible' = Visible /\ iver' = iver /\ mounted' = mounted /\ ent' = ent /\ wh' = wh
    BY <1>11, SameDisk DEF disk
  <2>3. FilePass(f) /\ \A g \in Files : FilePass(g)
    BY <2>1 DEF PassInv
  <2>4. \A g \in Files : g # f => FilePass(g)'
    BY <2>3, <1>3, <1>10 DEF FilePass
  <2>5. x.cache # NoVdir => x.pos # 0 /\ x.from = 0 /\ Complete(x.cache, x.want)
    BY <2>3, <1>2 DEF FilePass
  <2>6. x.cache = NoVdir => x.hend = {} /\ x.hseen = {} /\ x.pos = 0 /\ w = Visible
    BY <2>3, <1>2, <1>3, <1>4 DEF FilePass, Walk
  <2>7. FilePass(f)'
    BY <2>5, <2>6, <1>4, <1>8, <1>10 DEF FilePass
  <2>8. ASSUME pc = "read" PROVE x.cache = NoVdir /\ T = HEntries(mounted)
    <3>1. DoRead(f, expired)
      BY <2>8, <1>13
    <3>2. x.cache = NoVdir
      BY <3>1, <2>5, <1>1, <1>2 DEF DoRead, ListsInv
    <3>. QED BY <3>1, <3>2, <2>6, <1>12
  <2>9. pc = "read" => MergeInv'
    <3>. SUFFICES ASSUME pc = "read" PROVE MergeInv'
      OBVIOUS
    <3>1. T = HEntries(mounted) /\ HEntries(mounted)' = HEntries(mounted)
      BY <2>8, <2>2 DEF HEntries
    <3>2. \A b \in mounted, m \in AllNames :
              /\ m \in ent[b] => HEnt(b, m, FALSE) \in T
              /\ m \in wh[b] => HEnt(b, m, TRUE) \in T
      BY <3>1, <1>1 DEF HEntries, HEntry, HEnt, VType
    <3>3. \A b \in mounted : ent[b] \subseteq AllNames
      BY <1>1 DEF VType
    <3>. QED BY <3>1, <3>2, <3>3, <1>16, <2>2, EmptyNames DEF MergeInv
  <2>10. pc = "read" => x.cache = NoVdir /\ w = Visible /\ MergeInv'
    BY <2>6, <2>8, <2>9
  <2>11. pc = "copy" /\ x.cache = NoVdir => ivdir.ver = iver /\ w = Visible
    BY <2>6, <1>18
  <2>. QED BY <2>1, <2>2, <2>4, <2>7, <2>10, <2>11, <1>8, <1>10, <1>11, <1>16 DEF PassInv
<1>. QED BY <1>17, <1>19, <1>20, <1>21, <1>22 DEF VdirInv

-----------------------------------------------------------------------------
(* fillvdir. *)

(* r is e appended to q. *)
Appended(q, r, e) ==
    /\ r.v = AppendDe(q.v, e.n) /\ r.known = q.known \cup {<<e.b, e.n>>} /\ r.white = q.white

Filled(q, r, e) ==
    \/ e.wh /\ r.v = q.v /\ r.known = q.known /\ r.white = q.white \cup {<<e.b, e.n>>}
    \/ /\ ~e.wh /\ (Known(q, e.b, e.n) \/ KnownWh(q, e.b, e.n))
       /\ r.v = q.v /\ r.known = q.known /\ r.white = q.white
    \/ ~e.wh /\ ~Known(q, e.b, e.n) /\ ~KnownWh(q, e.b, e.n) /\ Appended(q, r, e)

LEMMA FillIs ==
    ASSUME NEW q \in Calls, NEW e \in HEntry, e \in q.todo,
           NEW r, r = [FillVdir(q, e) EXCEPT !.todo = @ \ {e}]
    PROVE  /\ r \in Calls /\ r.pc = q.pc /\ r.f = q.f /\ r.todo = q.todo \ {e}
           /\ Filled(q, r, e)
<1>1. e.b \in Br /\ e.n \in AllNames /\ e.wh \in BOOLEAN /\ <<e.b, e.n>> \in Br \X AllNames
  BY DEF HEntry
<1>2. q.v \in List /\ AppendDe(q.v, e.n) \in List
  BY <1>1, AppendIs DEF Calls
<1>3. CASE e.wh
  <2>1. FillVdir(q, e) = [q EXCEPT !.white = @ \cup {<<e.b, e.n>>}]
    BY <1>3 DEF FillVdir
  <2>2. FillVdir(q, e) \in Calls
    BY <2>1, <1>1 DEF Calls
  <2>3. /\ FillVdir(q, e).v = q.v /\ FillVdir(q, e).known = q.known /\ FillVdir(q, e).pc = q.pc
        /\ FillVdir(q, e).f = q.f /\ FillVdir(q, e).todo = q.todo
        /\ FillVdir(q, e).white = q.white \cup {<<e.b, e.n>>}
    BY <2>1 DEF Calls
  <2>4. /\ r \in Calls /\ r.v = FillVdir(q, e).v /\ r.known = FillVdir(q, e).known /\ r.pc = FillVdir(q, e).pc
        /\ r.f = FillVdir(q, e).f /\ r.todo = FillVdir(q, e).todo \ {e} /\ r.white = FillVdir(q, e).white
    BY <2>2 DEF Calls
  <2>. QED BY <2>3, <2>4, <1>3 DEF Filled
<1>4. CASE ~e.wh /\ (Known(q, e.b, e.n) \/ KnownWh(q, e.b, e.n))
  <2>1. FillVdir(q, e) = q
    BY <1>4 DEF FillVdir
  <2>2. /\ r \in Calls /\ r.v = q.v /\ r.known = q.known /\ r.pc = q.pc
        /\ r.f = q.f /\ r.todo = q.todo \ {e} /\ r.white = q.white
    BY <2>1 DEF Calls
  <2>. QED BY <2>2, <1>4 DEF Filled
<1>5. CASE ~e.wh /\ ~Known(q, e.b, e.n) /\ ~KnownWh(q, e.b, e.n)
  <2>0. PICK A \in List, K \in SUBSET (Br \X AllNames) :
            A = AppendDe(q.v, e.n) /\ K = q.known \cup {<<e.b, e.n>>}
    BY <1>1, <1>2 DEF Calls
  <2>1. FillVdir(q, e) = [q EXCEPT !.v = A, !.known = K]
    BY <1>5, <2>0 DEF FillVdir
  <2>2. FillVdir(q, e) \in Calls
    BY <2>1 DEF Calls
  <2>3. /\ FillVdir(q, e).v = AppendDe(q.v, e.n) /\ FillVdir(q, e).known = q.known \cup {<<e.b, e.n>>}
        /\ FillVdir(q, e).pc = q.pc /\ FillVdir(q, e).f = q.f /\ FillVdir(q, e).todo = q.todo
        /\ FillVdir(q, e).white = q.white
    BY <2>0, <2>1 DEF Calls
  <2>4. /\ r \in Calls /\ r.v = FillVdir(q, e).v /\ r.known = FillVdir(q, e).known /\ r.pc = FillVdir(q, e).pc
        /\ r.f = FillVdir(q, e).f /\ r.todo = FillVdir(q, e).todo \ {e} /\ r.white = FillVdir(q, e).white
    BY <2>2 DEF Calls
  <2>. QED BY <2>3, <2>4, <1>5 DEF Appended, Filled
<1>. QED BY <1>3, <1>4, <1>5

(* The names after append_de. *)
LEMMA AppendNames ==
    ASSUME NEW v \in List, NEW n \in AllNames
    PROVE  /\ Range(NamesOf(AppendDe(v, n))) = Range(NamesOf(v)) \cup {n}
           /\ IsInjective(NamesOf(v)) /\ n \notin Range(NamesOf(v)) => IsInjective(NamesOf(AppendDe(v, n)))
<1>. DEFINE w == AppendDe(v, n)
            l == Len(v.ents)
<1>1. /\ w \in List /\ Len(w.ents) = l + 1
      /\ \A i \in 1 .. l : w.ents[i] = v.ents[i]
      /\ w.ents[l + 1] = [name |-> n, pos |-> At(v, n)]
  BY AppendIs
<1>0. w.ents[l + 1].name = n
  BY <1>1
<1>2. l \in Nat /\ DOMAIN NamesOf(v) = 1 .. l /\ \A i \in 1 .. l : NamesOf(v)[i] = v.ents[i].name
  BY NamesFacts
<1>3. DOMAIN NamesOf(w) = 1 .. l + 1 /\ \A i \in 1 .. l + 1 : NamesOf(w)[i] = w.ents[i].name
  BY <1>1, NamesFacts
<1>. HIDE DEF w, l
<1>4. /\ \A i \in 1 .. l : NamesOf(w)[i] = NamesOf(v)[i]
      /\ NamesOf(w)[l + 1] = n
      /\ \A i \in 1 .. l + 1 : i \in 1 .. l \/ i = l + 1
      /\ \A i \in 1 .. l : i \in 1 .. l + 1
      /\ l + 1 \in 1 .. l + 1
  BY <1>0, <1>1, <1>2, <1>3
<1>5. Range(NamesOf(w)) = Range(NamesOf(v)) \cup {n}
  BY <1>2, <1>3, <1>4 DEF Range
<1>6. ASSUME IsInjective(NamesOf(v)), n \notin Range(NamesOf(v)) PROVE IsInjective(NamesOf(w))
  <2>1. \A i \in 1 .. l : NamesOf(v)[i] # n
    BY <1>2, <1>6 DEF Range
  <2>2. \A i, j \in 1 .. l : NamesOf(v)[i] = NamesOf(v)[j] => i = j
    BY <1>2, <1>6 DEF IsInjective
  <2>. QED BY <2>1, <2>2, <1>3, <1>4 DEF IsInjective
<1>. QED BY <1>5, <1>6 DEF w

LEMMA MergeStep ==
    ASSUME VType, DirInv, MergeInv, rd.pc = "read", NEW e \in HEntry, ReadEntry(e)
    PROVE  MergeInv'
<1>1. rd \in Calls /\ e \in rd.todo
  BY IdleIs DEF Idle, ReadEntry
<1>2. \A d \in rd.todo : e.b <= d.b
  <2>1. \A d \in rd.todo : e.b < d.b \/ e.b = d.b
    BY DEF ReadEntry
  <2>2. \A d \in rd.todo \cup {e} : d.b \in Nat
    BY <1>1, Basics DEF Calls, HEntry
  <2>. QED BY <2>1, <2>2
<1>3. rd' = [FillVdir(rd, e) EXCEPT !.todo = @ \ {e}]
  BY DEF ReadEntry
<1>4. /\ rd' \in Calls /\ rd'.todo = rd.todo \ {e}
      /\ \/ e.wh /\ rd'.v = rd.v /\ rd'.known = rd.known /\ rd'.white = rd.white \cup {<<e.b, e.n>>}
         \/ /\ ~e.wh /\ (Known(rd, e.b, e.n) \/ KnownWh(rd, e.b, e.n))
            /\ rd'.v = rd.v /\ rd'.known = rd.known /\ rd'.white = rd.white
         \/ ~e.wh /\ ~Known(rd, e.b, e.n) /\ ~KnownWh(rd, e.b, e.n) /\ Appended(rd, rd', e)
  <2>1. PICK q \in Calls : q = rd
    BY <1>1
  <2>2. PICK r : r = rd'
    OBVIOUS
  <2>3. r = [FillVdir(q, e) EXCEPT !.todo = @ \ {e}] /\ e \in q.todo
    BY <1>1, <1>3, <2>1, <2>2
  <2>4. r \in Calls /\ r.todo = q.todo \ {e} /\ Filled(q, r, e)
    BY <2>3, FillIs
  <2>. QED BY <2>1, <2>2, <2>4 DEF Filled
<1>5. ent' = ent /\ wh' = wh /\ mounted' = mounted
  BY DEF ReadEntry, disk
<1>6. HEntries(mounted)' = HEntries(mounted)
  BY <1>5 DEF HEntries
<1>7. /\ e \in HEntries(mounted) /\ e.b \in mounted /\ e.n \in AllNames /\ e.b \in Nat
      /\ e.n \in (IF e.wh THEN wh[e.b] ELSE ent[e.b])
  BY <1>1, Basics DEF MergeInv, HEntries, HEntry
<1>8. mounted \subseteq Nat /\ mounted \subseteq Br
  BY Basics DEF VType
<1>9. e = HEnt(e.b, e.n, e.wh)
  BY DEF HEntry, HEnt
<1>9a. (e.wh => e = HEnt(e.b, e.n, TRUE)) /\ (~e.wh => e = HEnt(e.b, e.n, FALSE))
  <2>1. e.wh \in BOOLEAN
    BY DEF HEntry
  <2>2. e.wh = TRUE \/ e.wh = FALSE
    BY <2>1
  <2>. QED BY <2>2, <1>9, Zenon
<1>10. \A b, n, w : HEnt(b, n, w) = e => b = e.b /\ n = e.n /\ w = e.wh
  BY DEF HEnt
<1>. DEFINE M1 == rd.todo \subseteq HEntries(mounted)
            M2 == \A x \in HEntries(mounted) \ rd.todo, d \in rd.todo : x.b <= d.b
            M3 == \A b \in mounted, n \in AllNames :
                      <<b, n>> \in rd.white <=> n \in wh[b] /\ HEnt(b, n, TRUE) \notin rd.todo
            M4 == \A c \in Br, n \in AllNames : <<c, n>> \in rd.white \cup rd.known => c \in mounted
            M5 == \A b \in mounted, n \in AllNames : <<b, n>> \in rd.known =>
                      /\ n \in ent[b] /\ HEnt(b, n, FALSE) \notin rd.todo
                      /\ \A c \in mounted : c < b => n \notin wh[c]
            M6 == \A n \in AllNames : n \in Range(NamesOf(rd.v)) <=> \E b \in mounted : <<b, n>> \in rd.known
            M7 == \A b \in mounted : \A n \in ent[b] : HEnt(b, n, FALSE) \notin rd.todo =>
                      n \in Range(NamesOf(rd.v)) \/ \E c \in mounted : c < b /\ n \in wh[c]
            M8 == IsInjective(NamesOf(rd.v))
<1>11. M1 /\ M2 /\ M3 /\ M4 /\ M5 /\ M6 /\ M7 /\ M8
  BY DEF MergeInv
<1>12. M1' /\ M2'
  BY <1>1, <1>2, <1>4, <1>6, <1>11
\* What has been read of the branches above e.
<1>13. \A c \in mounted : c < e.b => HEnt(c, e.n, TRUE) \notin rd.todo
  <2>. SUFFICES ASSUME NEW c \in mounted, c < e.b, HEnt(c, e.n, TRUE) \in rd.todo PROVE FALSE
    OBVIOUS
  <2>1. HEnt(c, e.n, TRUE).b = c
    BY DEF HEnt
  <2>2. e.b <= c
    BY <2>1, <1>2
  <2>. QED BY <2>2, <1>7, <1>8
<1>14. Known(rd, e.b, e.n) => \E c \in mounted : c < e.b /\ <<c, e.n>> \in rd.known
  BY <1>7, <1>11 DEF Known
<1>15. KnownWh(rd, e.b, e.n) => \E c \in mounted : c < e.b /\ <<c, e.n>> \in rd.white
  BY <1>7, <1>11 DEF KnownWh
<1>16. ~KnownWh(rd, e.b, e.n) => \A c \in mounted : c < e.b => e.n \notin wh[c]
  BY <1>7, <1>8, <1>11, <1>13 DEF KnownWh
<1>17. CASE e.wh
  <2>1. rd'.v = rd.v /\ rd'.known = rd.known /\ rd'.white = rd.white \cup {<<e.b, e.n>>} /\ e.n \in wh[e.b]
    BY <1>4, <1>7, <1>17
  <2>2. \A b, n : HEnt(b, n, FALSE) # e
    BY <1>10, <1>17
  <2>3. M3'
    <3>. SUFFICES ASSUME NEW b \in mounted, NEW n \in AllNames
                  PROVE  <<b, n>> \in rd'.white <=> n \in wh[b] /\ HEnt(b, n, TRUE) \notin rd'.todo
      BY <1>5
    <3>1. HEnt(b, n, TRUE) = e <=> b = e.b /\ n = e.n
      BY <1>9a, <1>10, <1>17, Zenon
    <3>2. <<b, n>> = <<e.b, e.n>> <=> b = e.b /\ n = e.n
      OBVIOUS
    <3>3. <<b, n>> \in rd.white <=> n \in wh[b] /\ HEnt(b, n, TRUE) \notin rd.todo
      BY <1>11
    <3>. QED BY <3>1, <3>2, <3>3, <2>1, <1>4
  <2>4. M4'
    BY <2>1, <1>5, <1>7, <1>11
  <2>5. M5'
    BY <2>1, <2>2, <1>4, <1>5, <1>11
  <2>6. M6' /\ M8'
    BY <2>1, <1>5, <1>11
  <2>7. M7'
    <3>1. \A b, n : HEnt(b, n, FALSE) \in rd'.todo <=> HEnt(b, n, FALSE) \in rd.todo
      BY <2>2, <1>4
    <3>. QED BY <3>1, <2>1, <1>5, <1>11
  <2>. QED BY <2>3, <2>4, <2>5, <2>6, <2>7, <1>12 DEF MergeInv
<1>18. ASSUME ~e.wh, rd'.white = rd.white PROVE M3'
  <2>1. \A b, n : HEnt(b, n, TRUE) # e
    BY <1>10, <1>18
  <2>. QED BY <2>1, <1>4, <1>5, <1>11, <1>18
<1>19. CASE ~e.wh /\ (Known(rd, e.b, e.n) \/ KnownWh(rd, e.b, e.n)) /\ rd'.v = rd.v /\ rd'.known = rd.known /\ rd'.white = rd.white
  <2>1. M3'
    BY <1>18, <1>19
  <2>2. M4' /\ M5' /\ M6' /\ M8'
    BY <1>19, <1>4, <1>5, <1>11
  <2>3. e.n \in Range(NamesOf(rd.v)) \/ \E c \in mounted : c < e.b /\ e.n \in wh[c]
    BY <1>19, <1>14, <1>15, <1>7, <1>11
  <2>4. M7'
    <3>. SUFFICES ASSUME NEW b \in mounted, NEW n \in ent[b], HEnt(b, n, FALSE) \notin rd'.todo
                  PROVE  n \in Range(NamesOf(rd.v)) \/ \E c \in mounted : c < b /\ n \in wh[c]
      BY <1>5, <1>19
    <3>1. CASE HEnt(b, n, FALSE) = e
      BY <3>1, <2>3, <1>10
    <3>2. CASE HEnt(b, n, FALSE) # e
      BY <3>2, <1>4, <1>11
    <3>. QED BY <3>1, <3>2
  <2>. QED BY <2>1, <2>2, <2>4, <1>12 DEF MergeInv
<1>20. CASE ~e.wh /\ ~Known(rd, e.b, e.n) /\ ~KnownWh(rd, e.b, e.n) /\ Appended(rd, rd', e)
  <2>1. rd'.v = AppendDe(rd.v, e.n) /\ rd'.known = rd.known \cup {<<e.b, e.n>>} /\ rd'.white = rd.white
    BY <1>20 DEF Appended
  <2>2. rd.v \in List
    BY <1>1 DEF Calls
  <2>3. Range(NamesOf(rd'.v)) = Range(NamesOf(rd.v)) \cup {e.n}
    BY <2>1, <2>2, <1>7, AppendNames
  <2>4. M3'
    BY <1>18, <1>20, <2>1
  <2>5. M4'
    BY <2>1, <1>5, <1>7, <1>11
  <2>6. M5'
    <3>. SUFFICES ASSUME NEW b \in mounted, NEW n \in AllNames, <<b, n>> \in rd'.known
                  PROVE  /\ n \in ent[b] /\ HEnt(b, n, FALSE) \notin rd'.todo
                         /\ \A c \in mounted : c < b => n \notin wh[c]
      BY <1>5
    <3>1. CASE <<b, n>> = <<e.b, e.n>>
      <4>1. b = e.b /\ n = e.n /\ HEnt(b, n, FALSE) = e
        BY <3>1, <1>9a, <1>20
      <4>. QED BY <4>1, <1>4, <1>7, <1>16, <1>20
    <3>2. CASE <<b, n>> # <<e.b, e.n>>
      BY <3>2, <2>1, <1>4, <1>11
    <3>. QED BY <3>1, <3>2
  <2>7. M6'
    <3>. SUFFICES ASSUME NEW n \in AllNames
                  PROVE  n \in Range(NamesOf(rd'.v)) <=> \E b \in mounted : <<b, n>> \in rd'.known
      BY <1>5
    <3>1. CASE n = e.n
      BY <3>1, <2>1, <2>3, <1>7
    <3>2. CASE n # e.n
      <4>1. \A b : <<b, n>> \in rd'.known <=> <<b, n>> \in rd.known
        BY <3>2, <2>1
      <4>. QED BY <4>1, <3>2, <2>3, <1>11
    <3>. QED BY <3>1, <3>2
  <2>8. M7'
    <3>. SUFFICES ASSUME NEW b \in mounted, NEW n \in ent[b], HEnt(b, n, FALSE) \notin rd'.todo
                  PROVE  n \in Range(NamesOf(rd'.v)) \/ \E c \in mounted : c < b /\ n \in wh[c]
      BY <1>5
    <3>1. CASE HEnt(b, n, FALSE) = e
      BY <3>1, <2>3, <1>10
    <3>2. CASE HEnt(b, n, FALSE) # e
      BY <3>2, <2>3, <1>4, <1>11
    <3>. QED BY <3>1, <3>2
  <2>9. e.n \notin Range(NamesOf(rd.v))
    <3>. SUFFICES ASSUME NEW c \in mounted, <<c, e.n>> \in rd.known PROVE FALSE
      BY <1>7, <1>11
    <3>1. ~(c < e.b)
      BY <1>8, <1>20 DEF Known
    <3>2. e.n \in ent[c] /\ HEnt(c, e.n, FALSE) \notin rd.todo
      BY <1>7, <1>11
    <3>3. c # e.b
      BY <3>2, <1>1, <1>9a, <1>20
    <3>4. HEnt(c, e.n, FALSE) \in HEntries(mounted) /\ HEnt(c, e.n, FALSE).b = c
      BY <3>2, <1>7, <1>8 DEF HEnt, HEntries, HEntry
    <3>5. c <= e.b
      <4>1. PICK h : h = HEnt(c, e.n, FALSE)
        OBVIOUS
      <4>2. h \in HEntries(mounted) \ rd.todo /\ h.b = c
        BY <4>1, <3>2, <3>4
      <4>. QED BY <4>2, <1>1, <1>11
    <3>6. c \in Nat
      BY <1>8
    <3>. QED BY <3>1, <3>3, <3>5, <3>6, <1>7
  <2>10. M8'
    BY <2>1, <2>2, <2>9, <1>7, <1>11, AppendNames
  <2>. QED BY <2>4, <2>5, <2>6, <2>7, <2>8, <2>10, <1>12 DEF MergeInv
<1>. QED BY <1>4, <1>17, <1>19, <1>20

LEMMA ReadEntryInv ==
    ASSUME VdirInv, NEW e \in HEntry, ReadEntry(e)
    PROVE  VdirInv'
<1>1. VType /\ ListsInv /\ WalkInv /\ DirInv /\ (Steady => PassInv)
  BY DEF VdirInv
<1>2. rd.pc = "read" /\ rd \in Calls /\ e \in rd.todo
  BY <1>1, IdleIs DEF ReadEntry, Idle
<1>3. rd' \in Calls /\ rd'.pc = "read" /\ rd'.f = rd.f /\ rd'.todo = rd.todo \ {e} /\ Filled(rd, rd', e)
  <2>1. PICK q \in Calls : q = rd
    BY <1>2
  <2>2. PICK r : r = rd'
    OBVIOUS
  <2>3. r = [FillVdir(q, e) EXCEPT !.todo = @ \ {e}] /\ e \in q.todo
    BY <1>2, <2>1, <2>2 DEF ReadEntry
  <2>4. r \in Calls /\ r.pc = q.pc /\ r.f = q.f /\ r.todo = q.todo \ {e} /\ Filled(q, r, e)
    BY <2>3, FillIs
  <2>. QED BY <2>1, <2>2, <2>4, <1>2
<1>4. disk' = disk /\ ivdir' = ivdir /\ file' = file /\ seeks' = seeks /\ fails' = fails
  BY DEF ReadEntry, disk
<1>5. VType'
  BY <1>1, <1>3, <1>4 DEF VType, disk
<1>6. Good(rd'.v) /\ rd'.v.ver = 0
  <2>1. Good(rd.v) /\ rd.v.ver = 0 /\ e.n \in AllNames /\ rd.v \in List
    BY <1>1, <1>2, Basics DEF ListsInv, HEntry
  <2>2. rd'.v = rd.v \/ rd'.v = AppendDe(rd.v, e.n)
    BY <1>3 DEF Filled, Appended
  <2>3. PICK v : v = rd.v
    OBVIOUS
  <2>4. Good(AppendDe(v, e.n)) /\ AppendDe(v, e.n).ver = 0
    BY <2>1, <2>3, AppendGood, AppendIs
  <2>. QED BY <2>1, <2>2, <2>3, <2>4
<1>7. ListsInv'
  BY <1>1, <1>2, <1>3, <1>4, <1>6 DEF ListsInv, Idle
<1>8. WalkInv'
  BY <1>1, <1>4 DEF WalkInv
<1>9. DirInv'
  BY <1>1, <1>4 DEF DirInv, disk
<1>10. ASSUME Steady' PROVE PassInv'
  <2>1. PassInv
    BY <1>1, <1>4, <1>10 DEF Steady
  <2>2. Visible' = Visible /\ iver' = iver
    BY <1>4, SameDisk DEF disk
  <2>3. MergeInv'
    BY <2>1, <1>1, <1>2, MergeStep DEF PassInv
  <2>4. \A f \in Files : FilePass(f)'
    BY <2>1, <1>2, <1>3, <1>4 DEF PassInv, FilePass
  <2>. QED BY <2>1, <2>2, <2>3, <2>4, <1>2, <1>3, <1>4 DEF PassInv
<1>. QED BY <1>5, <1>7, <1>8, <1>9, <1>10 DEF VdirInv

(* When all has been read, the list is what a lookup finds. *)
LEMMA MergeDone ==
    ASSUME VType, DirInv, MergeInv, rd \in Calls, rd.todo = {}
    PROVE  Complete(rd.v, Visible)
<1>1. mounted \subseteq Nat /\ mounted \subseteq Br
  BY Basics DEF VType
<1>2. rd.v \in List
  BY DEF Calls
<1>3. Range(NamesOf(rd.v)) \subseteq AllNames
  BY <1>2, NamesFacts, RangeOfSeq
<1>4. ASSUME NEW n \in Range(NamesOf(rd.v)) PROVE n \in Visible
  <2>1. n \in AllNames
    BY <1>3
  <2>2. PICK b \in mounted : <<b, n>> \in rd.known
    BY <2>1 DEF MergeInv
  <2>3. n \in ent[b] /\ \A c \in mounted : c < b => n \notin wh[c]
    BY <2>1, <2>2 DEF MergeInv
  <2>4. n \notin wh[b]
    BY <2>3, <1>1 DEF DirInv
  <2>5. \A c \in mounted : c <= b => n \notin wh[c]
    BY <2>3, <2>4, <1>1
  <2>. QED BY <2>1, <2>3, <2>5 DEF Visible
<1>5. ASSUME NEW n \in Visible PROVE n \in Range(NamesOf(rd.v))
  <2>1. PICK b \in mounted : n \in ent[b] /\ \A c \in mounted : c <= b => n \notin wh[c]
    BY DEF Visible
  <2>2. n \in Range(NamesOf(rd.v)) \/ \E c \in mounted : c < b /\ n \in wh[c]
    BY <2>1 DEF MergeInv
  <2>. QED BY <2>1, <2>2, <1>1
<1>6. IsInjective(NamesOf(rd.v))
  BY DEF MergeInv
<1>. QED BY <1>4, <1>5, <1>6 DEF Complete

LEMMA ReadVdirInv ==
    ASSUME VdirInv, ReadVdir
    PROVE  VdirInv'
<1>1. VType /\ ListsInv /\ WalkInv /\ DirInv /\ (Steady => PassInv)
  BY DEF VdirInv
<1>2. rd.pc = "read" /\ rd \in Calls /\ rd.todo = {} /\ rd.f \in Files
  BY <1>1, IdleIs DEF ReadVdir, Idle
<1>3. PICK f \in Files : f = rd.f
  BY <1>2
<1>4. PICK x \in FileRec : x = file[f]
  BY <1>1 DEF VType
<1>5. PICK y : y = [[x EXCEPT !.hend = @ \cup mounted] EXCEPT !.hseen = {}]
  OBVIOUS
<1>6. file' = [file EXCEPT ![f] = y]
  BY <1>1, <1>3, <1>4, <1>5 DEF ReadVdir, VType
<1>7. /\ y \in FileRec /\ y.cache = x.cache /\ y.pos = x.pos /\ y.from = x.from /\ y.got = x.got
      /\ y.eof = x.eof /\ y.open = x.open /\ y.want = x.want
  BY <1>1, <1>4, <1>5 DEF FileRec, VType
<1>8. file'[f] = y /\ \A g \in Files : g # f => file'[g] = file[g]
  BY <1>1, <1>6 DEF VType
<1>9. Good(rd.v) /\ iver \in Nat
  BY <1>1, <1>2 DEF ListsInv, VType
<1>10. Good(ivdir') /\ NamesOf(ivdir') = NamesOf(rd.v) /\ ivdir'.ver = iver /\ ivdir' # NoVdir /\ ivdir' \in List
  <2>1. PICK v : v = rd.v
    OBVIOUS
  <2>2. PICK w : w = [v EXCEPT !.ver = iver]
    OBVIOUS
  <2>3. ivdir' = w
    BY <2>1, <2>2 DEF ReadVdir
  <2>4. Good(w) /\ NamesOf(w) = NamesOf(v) /\ w.ver = iver
    BY <2>1, <2>2, <1>9, VerGood, Zenon
  <2>5. ivdir' \in List /\ ivdir' # NoVdir
    BY <2>3, <2>4, Basics
  <2>. QED BY <2>1, <2>3, <2>4, <2>5
<1>11. rd' \in Calls /\ rd'.pc = "copy" /\ rd'.f = f
  BY <1>2, <1>3 DEF ReadVdir, Calls
<1>12. disk' = disk /\ seeks' = seeks /\ fails' = fails
  BY DEF ReadVdir, disk
<1>13. VType'
  BY <1>1, <1>6, <1>7, <1>9, <1>10, <1>11, <1>12 DEF VType, disk
<1>14. ListsInv'
  BY <1>1, <1>2, <1>3, <1>4, <1>7, <1>8, <1>10, <1>11 DEF ListsInv, Idle
<1>15. WalkInv'
  <2>1. Walk(y)
    BY <1>1, <1>4, <1>7 DEF WalkInv, Walk, Count
  <2>. QED BY <2>1, <1>1, <1>8 DEF WalkInv
<1>16. DirInv'
  BY <1>1, <1>12 DEF DirInv, disk
<1>17. ASSUME Steady' PROVE PassInv'
  <2>1. PassInv
    BY <1>1, <1>12, <1>17 DEF Steady
  <2>2. Visible' = Visible /\ iver' = iver
    BY <1>12, SameDisk DEF disk
  <2>3. Complete(rd.v, Visible)
    BY <2>1, <1>1, <1>2, MergeDone DEF PassInv
  <2>4. Complete(ivdir', Visible)
    BY <2>3, <1>10 DEF Complete
  <2>5. x.cache = NoVdir /\ x.want = Visible
    BY <2>1, <1>2, <1>3, <1>4 DEF PassInv
  <2>6. \A g \in Files : FilePass(g)'
    BY <2>1, <2>5, <1>2, <1>7, <1>8, <1>11 DEF PassInv, FilePass
  <2>. QED BY <2>2, <2>4, <2>5, <2>6, <1>7, <1>8, <1>10, <1>11 DEF PassInv, Complete
<1>. QED BY <1>13, <1>14, <1>15, <1>16, <1>17 DEF VdirInv

LEMMA ReadFailInv ==
    ASSUME VdirInv, NEW b \in Br, ReadFail(b)
    PROVE  VdirInv'
<1>1. VType /\ ListsInv /\ WalkInv /\ DirInv
  BY DEF VdirInv
<1>2. rd.pc = "read" /\ rd \in Calls /\ rd.f \in Files
  BY <1>1, IdleIs DEF ReadFail, Idle
<1>3. PICK f \in Files : f = rd.f
  BY <1>2
<1>4. PICK x \in FileRec : x = file[f]
  BY <1>1 DEF VType
<1>5. PICK E, S : E = x.hend \cup {c \in mounted : c < b} /\ S = {e \in HEntries({b}) : e \notin rd.todo}
  OBVIOUS
<1>6. E \in SUBSET Br /\ S \in SUBSET HEntry
  BY <1>1, <1>4, <1>5 DEF VType, FileRec, HEntries
<1>7. PICK y : y = [[x EXCEPT !.hend = E] EXCEPT !.hseen = S]
  OBVIOUS
<1>8. file' = [file EXCEPT ![f] = y]
  BY <1>1, <1>3, <1>4, <1>5, <1>7 DEF ReadFail, VType
<1>9. /\ y \in FileRec /\ y.cache = x.cache /\ y.pos = x.pos /\ y.from = x.from /\ y.got = x.got
      /\ y.eof = x.eof /\ y.open = x.open
  BY <1>4, <1>6, <1>7 DEF FileRec
<1>10. file'[f] = y /\ \A g \in Files : g # f => file'[g] = file[g]
  BY <1>1, <1>8 DEF VType
<1>11. Good(rd.v) /\ rd.v.ver = 0 /\ rd.v \in List /\ rd.v # NoVdir /\ iver \in Nat
  BY <1>1, <1>2, Basics DEF ListsInv, VType
<1>12. rd' = NoCall /\ rd'.pc = "idle"
  BY Basics DEF ReadFail
<1>13. disk' = disk /\ seeks' = seeks /\ fails' = fails + 1 /\ (ivdir' = IF ivdir = NoVdir THEN NoVdir ELSE rd.v)
  BY DEF ReadFail, disk
<1>14. VType'
  BY <1>1, <1>8, <1>9, <1>11, <1>12, <1>13, Basics DEF VType, disk
<1>15. ListsInv'
  BY <1>1, <1>4, <1>9, <1>10, <1>11, <1>12, <1>13 DEF ListsInv, Idle
<1>16. WalkInv'
  <2>1. Walk(y)
    BY <1>1, <1>4, <1>9 DEF WalkInv, Walk, Count
  <2>. QED BY <2>1, <1>1, <1>10 DEF WalkInv
<1>17. DirInv'
  BY <1>1, <1>13 DEF DirInv, disk
<1>18. ~Steady'
  BY <1>1, <1>13 DEF Steady, VType
<1>. QED BY <1>14, <1>15, <1>16, <1>17, <1>18 DEF VdirInv

-----------------------------------------------------------------------------
(* au_fill_de. *)

LEMMA MinTwo ==
    ASSUME NEW a \in Int, NEW c \in Int
    PROVE  Min({a, c}) = IF a <= c THEN a ELSE c
<1>1. \E m \in {a, c} : \A y \in {a, c} : m =< y
  BY DEF Min
<1>2. Min({a, c}) \in {a, c} /\ \A y \in {a, c} : Min({a, c}) =< y
  BY <1>1, Zenon DEF Min
<1>. QED BY <1>2

(* x may have a new copy: eof is that of the last call. *)
LEMMA FillWalk ==
    ASSUME NEW x \in FileRec, Good(x.cache), NEW n \in 1 .. 2,
           Count(x) <= Len(x.cache.ents), x.pos = PosOf(x.cache, Count(x)),
           x.got = SubSeq(NamesOf(x.cache), x.from + 1, Count(x)),
           NEW y, y = FillDe(x, n)
    PROVE  /\ y \in FileRec /\ Walk(y) /\ y.cache = x.cache /\ y.open = x.open /\ y.want = x.want
           /\ y.from = x.from /\ y.hend = x.hend /\ y.hseen = x.hseen
           /\ (Count(x) # 0 \/ Len(x.cache.ents) # 0) => y.pos # 0
<1>1. PICK v : v = x.cache
  OBVIOUS
<1>2. v \in List /\ Good(v) /\ v # NoVdir
  BY <1>1, Basics
<1>3. PICK l \in Nat : l = Len(v.ents)
  BY <1>2, NamesFacts
<1>4. x.from \in Nat /\ x.got \in Seq(AllNames) /\ Len(x.got) \in Nat /\ Count(x) \in Nat
  BY LenProperties DEF FileRec, Count
<1>5. PICK k \in 0 .. l : k = Count(x)
  BY <1>1, <1>3, <1>4
<1>6. EntsBefore(v, x.pos) = k
  BY <1>1, <1>2, <1>3, <1>5, SeekFinds
<1>7. PICK cnt \in Int : cnt = Min({n, l - k}) /\ cnt = IF n <= l - k THEN n ELSE l - k
  BY MinTwo
<1>8. cnt \in Nat /\ k + cnt \in 0 .. l /\ (k < l => cnt >= 1) /\ (cnt = 0 => k = l) /\ k \in Nat
  BY <1>7
<1>9. PICK p, g, e : /\ p = PosOf(v, k + cnt) /\ g = x.got \o SubSeq(NamesOf(v), k + 1, k + cnt)
                     /\ e = (cnt = 0)
  OBVIOUS
<1>10. y = [x EXCEPT !.pos = p, !.got = g, !.eof = e]
  BY <1>1, <1>3, <1>6, <1>7, <1>9 DEF FillDe
<1>11. p \in Nat /\ (p = 0 => k + cnt = 0)
  BY <1>2, <1>3, <1>8, <1>9, PosFacts
<1>12. NamesOf(v) \in Seq(AllNames) /\ Len(NamesOf(v)) = l
  BY <1>2, <1>3, NamesFacts
<1>13. g = SubSeq(NamesOf(v), x.from + 1, k + cnt)
  <2>1. x.from + 1 \in 1 .. Len(NamesOf(v)) + 1
    BY <1>4, <1>5, <1>12 DEF Count
  <2>2. k \in (x.from + 1) - 1 .. Len(NamesOf(v))
    BY <1>4, <1>5, <1>12 DEF Count
  <2>3. k + cnt \in k .. Len(NamesOf(v))
    BY <1>8, <1>12
  <2>4. PICK m \in Int : m = x.from + 1
    BY <1>4
  <2>5. SubSeq(NamesOf(v), m, k) \o SubSeq(NamesOf(v), k + 1, k + cnt) = SubSeq(NamesOf(v), m, k + cnt)
    BY <1>12, <2>1, <2>2, <2>3, <2>4, ConcatAdjacentSubSeq
  <2>. QED BY <2>4, <2>5, <1>1, <1>5, <1>9
<1>14. g \in Seq(AllNames) /\ Len(g) = k + cnt - x.from
  <2>1. \A i \in x.from + 1 .. k + cnt : NamesOf(v)[i] \in AllNames
    <3>1. \A i \in x.from + 1 .. k + cnt : i \in 1 .. Len(NamesOf(v))
      BY <1>4, <1>8, <1>12
    <3>. QED BY <3>1, <1>12, ElementOfSeq
  <2>2. x.from <= k
    BY <1>4, <1>5 DEF Count
  <2>3. PICK m \in Int, o \in Int : m = x.from + 1 /\ o = k + cnt
    BY <1>4, <1>8
  <2>4. /\ SubSeq(NamesOf(v), m, o) \in Seq(AllNames)
        /\ Len(SubSeq(NamesOf(v), m, o)) = IF m <= o THEN o - m + 1 ELSE 0
    BY <2>1, <2>3, SubSeqProperties
  <2>5. Len(g) = IF m <= o THEN o - m + 1 ELSE 0
    BY <1>13, <2>3, <2>4
  <2>6. m <= o + 1
    BY <2>2, <2>3, <1>4, <1>8
  <2>7. Len(g) = o - m + 1
    BY <2>5, <2>6
  <2>8. g \in Seq(AllNames)
    BY <2>3, <2>4, <1>13
  <2>9. o - m + 1 = k + cnt - x.from
    <3>1. PICK a \in Int, c \in Int : a = x.from /\ c = k + cnt
      BY <1>4, <1>8
    <3>2. m = a + 1 /\ o = c
      BY <3>1, <2>3
    <3>3. o - m + 1 = c - a
      BY <3>2
    <3>. QED BY <3>1, <3>3
  <2>. QED BY <2>7, <2>8, <2>9
<1>15. e \in BOOLEAN /\ (e => k = l)
  BY <1>8, <1>9
<1>16. y \in FileRec
  BY <1>10, <1>11, <1>14, <1>15 DEF FileRec
<1>17. /\ y.pos = p /\ y.got = g /\ y.eof = e /\ y.cache = x.cache /\ y.open = x.open /\ y.want = x.want
       /\ y.from = x.from /\ y.hend = x.hend /\ y.hseen = x.hseen
  BY <1>10 DEF FileRec
<1>18. Count(y) = k + cnt
  BY <1>4, <1>8, <1>14, <1>17 DEF Count
<1>19. Walk(y)
  <2>1. Count(y) <= l /\ (e => Count(y) = l)
    BY <1>7, <1>8, <1>15, <1>18
  <2>. QED BY <2>1, <1>1, <1>2, <1>3, <1>9, <1>13, <1>17, <1>18 DEF Walk
<1>20. Count(x) # 0 \/ Len(x.cache.ents) # 0 => y.pos # 0
  <2>1. SUFFICES ASSUME k # 0 \/ l # 0 PROVE k + cnt # 0
    BY <1>1, <1>3, <1>5, <1>11, <1>17
  <2>. QED BY <2>1, <1>8
<1>. QED BY <1>16, <1>17, <1>19, <1>20

LEMMA DotVisible == VType /\ DirInv => Dot \in Visible
<1>. SUFFICES ASSUME VType, DirInv PROVE Dot \in Visible
  OBVIOUS
<1>1. PICK b \in mounted : TRUE
  BY DEF VType
<1>2. \A c \in mounted : Dot \in ent[c] /\ wh[c] \subseteq Names
  BY DEF VType, DirInv
<1>3. Dot \notin Names /\ Dot \in AllNames
  BY SizeAssumption DEF AllNames
<1>. QED BY <1>1, <1>2, <1>3 DEF Visible

LEMMA CopyVdirInv ==
    ASSUME VdirInv, CopyVdir
    PROVE  VdirInv'
<1>1. VType /\ ListsInv /\ WalkInv /\ DirInv /\ (Steady => PassInv)
  BY DEF VdirInv
<1>2. rd.pc = "copy" /\ rd \in Calls /\ rd.f \in Files
  BY <1>1, IdleIs DEF CopyVdir, Idle
<1>3. PICK f \in Files, n \in 1 .. 2 : f = rd.f /\ n = rd.n
  BY <1>2 DEF Calls
<1>4. PICK x \in FileRec : x = file[f]
  BY <1>1 DEF VType
<1>5. ivdir # NoVdir /\ Good(ivdir) /\ ivdir \in List /\ iver \in Nat
  BY <1>1, <1>2, Basics DEF ListsInv, VType
<1>6. PICK y : y = IF NeedCopy(f) THEN [x EXCEPT !.cache = ivdir, !.ver = iver] ELSE x
  OBVIOUS
<1>7. /\ y \in FileRec /\ y.cache = (IF NeedCopy(f) THEN ivdir ELSE x.cache)
      /\ y.pos = x.pos /\ y.from = x.from /\ y.got = x.got /\ y.eof = x.eof /\ y.open = x.open
      /\ y.want = x.want /\ y.hend = x.hend /\ y.hseen = x.hseen
  <2>1. CASE NeedCopy(f)
    BY <2>1, <1>4, <1>5, <1>6 DEF FileRec
  <2>2. CASE ~NeedCopy(f)
    BY <2>2, <1>6
  <2>. QED BY <2>1, <2>2
<1>8. Walk(x) /\ (x.cache = NoVdir \/ Good(x.cache))
  BY <1>1, <1>4 DEF WalkInv, ListsInv
<1>9. Good(y.cache)
  BY <1>4, <1>5, <1>7, <1>8 DEF NeedCopy
<1>10. x.from \in Nat /\ Len(x.got) \in Nat /\ Count(x) \in Nat /\ Count(y) = Count(x) /\ x.got \in Seq(AllNames)
  BY <1>7, LenProperties DEF FileRec, Count
<1>11. ASSUME x.pos = 0 PROVE x.from = 0 /\ x.got = <<>> /\ Count(x) = 0
  <2>1. CASE x.cache = NoVdir
    BY <2>1, <1>8, EmptySeq DEF Walk, Count
  <2>2. CASE x.cache # NoVdir
    <3>1. Count(x) \in 0 .. Len(x.cache.ents) /\ x.pos = PosOf(x.cache, Count(x))
      BY <2>2, <1>8, <1>10, NamesFacts DEF Walk, Good
    <3>2. Count(x) = 0
      BY <3>1, <2>2, <1>8, <1>11, PosFacts
    <3>3. x.from = 0 /\ Len(x.got) = 0
      BY <3>2, <1>10 DEF Count
    <3>. QED BY <3>2, <3>3, <1>10, EmptySeq
  <2>. QED BY <2>1, <2>2
<1>12. /\ Count(y) <= Len(y.cache.ents) /\ y.pos = PosOf(y.cache, Count(y))
       /\ y.got = SubSeq(NamesOf(y.cache), y.from + 1, Count(y))
  <2>1. CASE NeedCopy(f)
    <3>1. x.pos = 0
      BY <2>1, <1>4, <1>8 DEF NeedCopy, Walk
    <3>2. Count(y) = 0 /\ y.from = 0 /\ y.got = <<>> /\ y.pos = 0 /\ y.cache = ivdir
      BY <3>1, <2>1, <1>7, <1>10, <1>11
    <3>3. PosOf(ivdir, 0) = 0 /\ Len(ivdir.ents) \in Nat
      BY <1>5, NamesFacts DEF Good
    <3>4. SubSeq(NamesOf(ivdir), 0 + 1, 0) = <<>>
      BY SubSeqEmpty
    <3>. QED BY <3>2, <3>3, <3>4
  <2>2. CASE ~NeedCopy(f)
    <3>1. x.cache # NoVdir
      BY <2>2, <1>4 DEF NeedCopy
    <3>. QED BY <3>1, <2>2, <1>6, <1>8 DEF Walk
  <2>. QED BY <2>1, <2>2
<1>13. PICK z : z = FillDe(y, n)
  OBVIOUS
<1>14. /\ z \in FileRec /\ Walk(z) /\ z.cache = y.cache /\ z.open = y.open /\ z.want = y.want
       /\ z.from = y.from /\ z.hend = y.hend /\ z.hseen = y.hseen
       /\ (Count(y) # 0 \/ Len(y.cache.ents) # 0) => z.pos # 0
  BY <1>7, <1>9, <1>12, <1>13, FillWalk
<1>15. file' = [file EXCEPT ![f] = z]
  BY <1>3, <1>4, <1>6, <1>13 DEF CopyVdir
<1>16. file'[f] = z /\ \A g \in Files : g # f => file'[g] = file[g]
  BY <1>1, <1>15 DEF VType
<1>17. rd' = NoCall /\ rd'.pc = "idle"
  BY Basics DEF CopyVdir
<1>18. disk' = disk /\ ivdir' = ivdir /\ seeks' = seeks /\ fails' = fails
  BY DEF CopyVdir, disk
<1>19. VType'
  BY <1>1, <1>14, <1>15, <1>17, <1>18 DEF VType, disk
<1>20. ListsInv'
  BY <1>1, <1>5, <1>9, <1>14, <1>16, <1>17, <1>18 DEF ListsInv, Idle
<1>21. WalkInv'
  BY <1>1, <1>14, <1>16 DEF WalkInv
<1>22. DirInv'
  BY <1>1, <1>18 DEF DirInv, disk
<1>23. ASSUME Steady' PROVE PassInv'
  <2>1. PassInv
    BY <1>1, <1>18, <1>23 DEF Steady
  <2>2. Visible' = Visible /\ iver' = iver
    BY <1>18, SameDisk DEF disk
  <2>3. \A g \in Files : g # f => FilePass(g)'
    BY <2>1, <1>3, <1>16, <1>17 DEF PassInv, FilePass
  <2>4. z.from = 0 /\ z.pos # 0 /\ Complete(z.cache, z.want)
    <3>1. CASE x.cache = NoVdir
      <4>1. x.want = Visible /\ Complete(ivdir, Visible)
        BY <3>1, <2>1, <1>2, <1>3, <1>4, <1>5 DEF PassInv
      <4>2. NeedCopy(f) /\ z.cache = ivdir /\ z.want = Visible
        BY <3>1, <4>1, <1>4, <1>7, <1>14 DEF NeedCopy
      <4>3. Dot \in Range(NamesOf(ivdir))
        BY <4>1, <1>1, DotVisible DEF Complete
      <4>4. Len(ivdir.ents) # 0
        <5>1. DOMAIN NamesOf(ivdir) = 1 .. Len(ivdir.ents) /\ Len(ivdir.ents) \in Nat
          BY <1>5, NamesFacts
        <5>2. DOMAIN NamesOf(ivdir) # {}
          BY <4>3 DEF Range
        <5>. QED BY <5>1, <5>2
      <4>5. z.from = 0
        BY <3>1, <1>7, <1>8, <1>14 DEF Walk
      <4>. QED BY <4>1, <4>2, <4>4, <4>5, <1>7, <1>14
    <3>2. CASE x.cache # NoVdir
      <4>1. x.from = 0 /\ x.pos # 0 /\ Complete(x.cache, x.want)
        BY <3>2, <2>1, <1>4 DEF PassInv, FilePass
      <4>2. ~NeedCopy(f)
        BY <3>2, <4>1, <1>4 DEF NeedCopy
      <4>3. Count(x) # 0
        BY <3>2, <4>1, <1>8 DEF Walk, Good
      <4>. QED BY <4>1, <4>2, <4>3, <1>7, <1>10, <1>14
    <3>. QED BY <3>1, <3>2
  <2>5. FilePass(f)'
    BY <2>4, <1>9, <1>14, <1>16, Basics DEF FilePass
  <2>. QED BY <2>1, <2>2, <2>3, <2>5, <1>17, <1>18 DEF PassInv
<1>. QED BY <1>19, <1>20, <1>21, <1>22, <1>23 DEF VdirInv

LEMMA CopyFailInv ==
    ASSUME VdirInv, CopyFail
    PROVE  VdirInv'
<1>1. VType /\ ListsInv /\ WalkInv /\ DirInv
  BY DEF VdirInv
<1>2. rd.pc = "copy" /\ rd \in Calls /\ rd.f \in Files
  BY <1>1, IdleIs DEF CopyFail, Idle
<1>3. PICK f \in Files : f = rd.f
  BY <1>2
<1>4. PICK x \in FileRec : x = file[f]
  BY <1>1 DEF VType
<1>5. PICK c : c = IF x.cache = NoVdir THEN NoVdir ELSE EmptyVdir
  OBVIOUS
<1>6. PICK y : y = [x EXCEPT !.cache = c]
  OBVIOUS
<1>7. file' = [file EXCEPT ![f] = y]
  BY <1>1, <1>3, <1>4, <1>5, <1>6 DEF CopyFail, VType
<1>8. EmptyVdir \in List /\ Good(EmptyVdir) /\ EmptyVdir # NoVdir /\ EmptyVdir.ents = <<>>
  BY EmptyGood, Basics DEF EmptyVdir
<1>9. c \in List \cup {NoVdir} /\ (c = NoVdir \/ Good(c)) /\ (c = NoVdir <=> x.cache = NoVdir)
  BY <1>5, <1>8
<1>10. /\ y \in FileRec /\ y.cache = c /\ y.pos = x.pos /\ y.from = x.from /\ y.got = x.got
       /\ y.eof = x.eof /\ y.open = x.open
  BY <1>4, <1>6, <1>9 DEF FileRec
<1>11. file'[f] = y /\ \A g \in Files : g # f => file'[g] = file[g]
  BY <1>1, <1>7 DEF VType
<1>12. rd' = NoCall /\ rd'.pc = "idle"
  BY Basics DEF CopyFail
<1>13. disk' = disk /\ seeks' = seeks /\ fails' = fails + 1 /\ ivdir' = ivdir
  BY DEF CopyFail, disk
<1>14. VType'
  BY <1>1, <1>7, <1>10, <1>12, <1>13 DEF VType, disk
<1>15. ListsInv'
  BY <1>1, <1>4, <1>9, <1>10, <1>11, <1>12, <1>13 DEF ListsInv, Idle
<1>16. WalkInv'
  <2>1. Walk(x) /\ (x.cache = NoVdir \/ Good(x.cache))
    BY <1>1, <1>4 DEF WalkInv, ListsInv
  <2>2. Walk(y)
    <3>1. CASE x.cache = NoVdir
      BY <3>1, <2>1, <1>9, <1>10 DEF Walk
    <3>2. CASE x.cache # NoVdir
      <4>1. x.pos = 0
        BY <3>2, <1>3, <1>4 DEF CopyFail, NeedCopy
      <4>2. x.from \in Nat /\ Len(x.got) \in Nat /\ Count(x) \in Nat /\ x.got \in Seq(AllNames)
        BY LenProperties DEF FileRec, Count
      <4>3. Count(x) \in 0 .. Len(x.cache.ents) /\ x.pos = PosOf(x.cache, Count(x))
        BY <3>2, <4>2, <2>1, NamesFacts DEF Walk, Good
      <4>4. Count(x) = 0
        BY <4>1, <4>3, <3>2, <2>1, PosFacts
      <4>5. x.from = 0 /\ x.got = <<>>
        BY <4>2, <4>4, EmptySeq DEF Count
      <4>6. Len(EmptyVdir.ents) = 0 /\ PosOf(EmptyVdir, 0) = 0
        BY <1>8, EmptySeq DEF Good
      <4>7. SubSeq(NamesOf(EmptyVdir), 0 + 1, 0) = <<>>
        BY SubSeqEmpty
      <4>8. Count(y) = 0 /\ y.cache = EmptyVdir
        BY <4>4, <3>2, <1>5, <1>10 DEF Count
      <4>. QED BY <4>1, <4>5, <4>6, <4>7, <4>8, <1>8, <1>10 DEF Walk
    <3>. QED BY <3>1, <3>2
  <2>. QED BY <2>2, <1>1, <1>11 DEF WalkInv
<1>17. DirInv'
  BY <1>1, <1>13 DEF DirInv, disk
<1>18. ~Steady'
  BY <1>1, <1>13 DEF Steady, VType
<1>. QED BY <1>14, <1>15, <1>16, <1>17, <1>18 DEF VdirInv

(* Changes of the directory: the inode's list is out of date. *)
LEMMA DirStep ==
    ASSUME VdirInv, Idle, ivdir' = ivdir, file' = file, rd' = rd, seeks' = seeks, fails' = fails,
           iver' = iver + 1, iver' \in 1 .. MaxVer,
           ent' \in [Br -> SUBSET AllNames], wh' \in [Br -> SUBSET Names],
           mounted' \in SUBSET Br, mounted' # {}, DirInv'
    PROVE  VdirInv'
<1>1. VType /\ ListsInv /\ WalkInv /\ (Steady => PassInv) /\ rd.pc = "idle"
  BY DEF VdirInv, Idle
<1>2. iver \in Nat /\ ivdir.ver \in Nat /\ ivdir.ver <= iver
  BY <1>1, Basics DEF VType, List
<1>3. VType'
  BY <1>1, <1>2 DEF VType
<1>4. ListsInv'
  BY <1>1 DEF ListsInv, Idle
<1>5. WalkInv'
  BY <1>1 DEF WalkInv
<1>6. ASSUME Steady' PROVE PassInv'
  <2>1. PassInv
    BY <1>1, <1>6 DEF Steady
  <2>2. \A f \in Files : FilePass(f)'
    BY <2>1 DEF PassInv, FilePass
  <2>3. ivdir'.ver # iver'
    BY <1>2
  <2>. QED BY <2>2, <2>3, <1>1 DEF PassInv
<1>. QED BY <1>3, <1>4, <1>5, <1>6 DEF VdirInv

LEMMA TopMounted == VType => Min(mounted) \in mounted /\ Min(mounted) \in Br
<1>. SUFFICES ASSUME VType PROVE Min(mounted) \in mounted /\ Min(mounted) \in Br
  OBVIOUS
<1>1. mounted \in SUBSET Nat /\ mounted # {} /\ mounted \subseteq Br
  BY Basics DEF VType
<1>2. \E m \in mounted : \A y \in mounted : m <= y
  BY <1>1, LeastNat
<1>3. Min(mounted) \in mounted
  BY <1>2, Zenon DEF Min
<1>. QED BY <1>1, <1>3

LEMMA CreateInv ==
    ASSUME VdirInv, NEW n \in Names, Create(n)
    PROVE  VdirInv'
<1>1. VType /\ DirInv
  BY DEF VdirInv
<1>2. PICK t \in Br : t = Min(mounted)
  BY <1>1, TopMounted
<1>3. ent' = [ent EXCEPT ![t] = ent[t] \cup {n}] /\ wh' = [wh EXCEPT ![t] = wh[t] \ {n}]
  BY <1>2 DEF Create
<1>4. ent' \in [Br -> SUBSET AllNames] /\ wh' \in [Br -> SUBSET Names]
  BY <1>1, <1>3 DEF VType, AllNames
<1>5. DirInv'
  BY <1>1, <1>3 DEF DirInv, VType
<1>6. /\ Idle /\ ivdir' = ivdir /\ file' = file /\ rd' = rd /\ seeks' = seeks /\ fails' = fails
      /\ iver' = iver + 1 /\ mounted' = mounted /\ iver < MaxVer
  BY DEF Create
<1>7. iver' \in 1 .. MaxVer /\ mounted' \in SUBSET Br /\ mounted' # {}
  BY <1>1, <1>6, VdirBoundAssumption DEF VType
<1>. QED BY <1>4, <1>5, <1>6, <1>7, DirStep

LEMMA UnlinkInv ==
    ASSUME VdirInv, NEW n \in Names, Unlink(n)
    PROVE  VdirInv'
<1>1. VType /\ DirInv
  BY DEF VdirInv
<1>2. PICK t \in Br : t = Min(mounted)
  BY <1>1, TopMounted
<1>3. ent' = [ent EXCEPT ![t] = ent[t] \ {n}] /\ (wh' = wh \/ wh' = [wh EXCEPT ![t] = wh[t] \cup {n}])
  BY <1>2 DEF Unlink
<1>4. ent' \in [Br -> SUBSET AllNames] /\ wh' \in [Br -> SUBSET Names]
  BY <1>1, <1>3 DEF VType
<1>5. DirInv'
  BY <1>1, <1>3, SizeAssumption DEF DirInv, VType
<1>6. /\ Idle /\ ivdir' = ivdir /\ file' = file /\ rd' = rd /\ seeks' = seeks /\ fails' = fails
      /\ iver' = iver + 1 /\ mounted' = mounted /\ iver < MaxVer
  BY DEF Unlink
<1>7. iver' \in 1 .. MaxVer /\ mounted' \in SUBSET Br /\ mounted' # {}
  BY <1>1, <1>6, VdirBoundAssumption DEF VType
<1>. QED BY <1>4, <1>5, <1>6, <1>7, DirStep

LEMMA AddBranchInv ==
    ASSUME VdirInv, AddBranch
    PROVE  VdirInv'
<1>1. VType /\ DirInv
  BY DEF VdirInv
<1>2. /\ Idle /\ ivdir' = ivdir /\ file' = file /\ rd' = rd /\ seeks' = seeks /\ fails' = fails
      /\ iver' = iver + 1 /\ mounted' = mounted \cup {0} /\ iver < MaxVer /\ ent' = ent /\ wh' = wh
  BY DEF AddBranch
<1>3. 0 \in Br
  BY VdirBoundAssumption DEF Br
<1>4. iver' \in 1 .. MaxVer /\ mounted' \in SUBSET Br /\ mounted' # {}
  BY <1>1, <1>2, <1>3, VdirBoundAssumption DEF VType
<1>5. DirInv' /\ ent' \in [Br -> SUBSET AllNames] /\ wh' \in [Br -> SUBSET Names]
  BY <1>1, <1>2 DEF DirInv, VType
<1>. QED BY <1>2, <1>4, <1>5, DirStep

LEMMA NextInv == VdirInv /\ [Next]_vars => VdirInv'
<1>. SUFFICES ASSUME VdirInv, [Next]_vars PROVE VdirInv'
  OBVIOUS
<1>1. CASE UNCHANGED vars
  <2>1. disk' = disk /\ ivdir' = ivdir /\ file' = file /\ rd' = rd /\ seeks' = seeks /\ fails' = fails
    BY <1>1 DEF vars, disk
  <2>2. VType' /\ ListsInv' /\ WalkInv' /\ DirInv'
    BY <2>1 DEF VdirInv, VType, ListsInv, WalkInv, DirInv, Idle, disk
  <2>3. Steady' => PassInv'
    BY <2>1, SameDisk, SameMerge DEF VdirInv, Steady, PassInv, FilePass, disk
  <2>. QED BY <2>2, <2>3 DEF VdirInv
<1>2. CASE Next
  <2>1. CASE \E f \in Files : \/ Open(f) \/ ReleaseDir(f)
                              \/ \E k \in 0 .. Len(file[f].cache.ents) : Lseek(f, k)
                              \/ \E n \in 1 .. 2, x \in BOOLEAN : Readdir(f, n, x)
    BY <2>1, OpenInv, ReleaseInv, LseekInv, ReaddirInv
  <2>2. CASE \E e \in HEntry : ReadEntry(e)
    BY <2>2, ReadEntryInv
  <2>3. CASE ReadVdir \/ CopyVdir \/ CopyFail
    BY <2>3, ReadVdirInv, CopyVdirInv, CopyFailInv
  <2>4. CASE \E b \in Br : ReadFail(b)
    BY <2>4, ReadFailInv
  <2>5. CASE \E n \in Names : Create(n) \/ Unlink(n)
    BY <2>5, CreateInv, UnlinkInv
  <2>6. CASE AddBranch
    BY <2>6, AddBranchInv
  <2>. QED BY <1>2, <2>1, <2>2, <2>3, <2>4, <2>5, <2>6 DEF Next
<1>. QED BY <1>1, <1>2

LEMMA InvAlways == Spec => []VdirInv
  BY InitInv, NextInv, PTL DEF Spec

LEMMA MaxRoom ==
    ASSUME NEW a \in Int
    PROVE  Max({0, a}) = IF a <= 0 THEN 0 ELSE a
<1>1. \E m \in {0, a} : \A y \in {0, a} : m >= y
  BY DEF Max
<1>2. Max({0, a}) \in {0, a} /\ \A y \in {0, a} : Max({0, a}) >= y
  BY <1>1, Zenon DEF Max
<1>. QED BY <1>2

LEMMA InvType == VdirInv => TypeOK
<1>. SUFFICES ASSUME VdirInv PROVE TypeOK
  OBVIOUS
<1>1. VType /\ ListsInv /\ WalkInv
  BY DEF VdirInv
<1>2. ASSUME NEW f \in Files PROVE file[f].pos \in 0 .. Max({0, file[f].cache.room})
  <2>1. PICK x \in FileRec : x = file[f]
    BY <1>1 DEF VType
  <2>2. Walk(x) /\ (x.cache = NoVdir \/ Good(x.cache))
    BY <2>1, <1>1 DEF WalkInv, ListsInv
  <2>3. CASE x.cache = NoVdir
    <3>1. x.pos = 0 /\ x.cache.room = -1
      BY <2>2, <2>3, Basics DEF Walk
    <3>2. Max({0, x.cache.room}) = 0
      BY <3>1, MaxRoom
    <3>. QED BY <3>1, <3>2, <2>1
  <2>4. CASE x.cache # NoVdir
    <3>1. Count(x) \in Nat
      BY LenProperties DEF FileRec, Count
    <3>2. Count(x) \in 0 .. Len(x.cache.ents) /\ x.pos = PosOf(x.cache, Count(x))
      BY <3>1, <2>2, <2>4, NamesFacts DEF Walk, Good
    <3>3. x.pos \in Nat /\ x.pos <= x.cache.room /\ x.cache.room \in Nat
      BY <3>2, <2>2, <2>4, PosFacts DEF Good, List
    <3>4. Max({0, x.cache.room}) = x.cache.room
      BY <3>3, MaxRoom
    <3>. QED BY <3>3, <3>4, <2>1
  <2>. QED BY <2>3, <2>4
<1>3. ~Idle => rd.f \in Files /\ file[rd.f].open
  BY <1>1, IdleIs DEF ListsInv
<1>. QED BY <1>1, <1>2, <1>3 DEF TypeOK, VType

LEMMA InvBlock == VdirInv => InBlock
<1>. SUFFICES ASSUME VdirInv, NEW i \in DOMAIN ivdir.ents
              PROVE  /\ ivdir.ents[i].pos + Size[ivdir.ents[i].name] <= BlkEnd(ivdir.ents[i].pos)
                     /\ i < Len(ivdir.ents) =>
                           ivdir.ents[i].pos + Size[ivdir.ents[i].name] <= ivdir.ents[i + 1].pos
  BY DEF InBlock
<1>1. ivdir = NoVdir \/ Good(ivdir)
  BY DEF VdirInv, ListsInv
<1>2. ivdir # NoVdir
  BY Basics
<1>3. Good(ivdir) /\ ivdir \in List
  BY <1>1, <1>2 DEF Good
<1>4. DOMAIN ivdir.ents = 1 .. Len(ivdir.ents) /\ Len(ivdir.ents) \in Nat
  BY <1>3, LenProperties DEF List
<1>5. i < Len(ivdir.ents) => i + 1 \in 1 .. Len(ivdir.ents) /\ i < i + 1
  BY <1>4
<1>. QED BY <1>3, <1>4, <1>5 DEF Good, EndOf

LEMMA InvListed == VdirInv => ListedInOrder
<1>. SUFFICES ASSUME VdirInv, NEW f \in Files, file[f].got # <<>>
              PROVE  file[f].got = SubSeq(NamesOf(file[f].cache), file[f].from + 1, file[f].from + Len(file[f].got))
  BY DEF ListedInOrder
<1>. QED BY DEF VdirInv, WalkInv, Walk, Count

LEMMA InvPass == VdirInv => FirstPassComplete
<1>. SUFFICES ASSUME VdirInv, Steady, NEW f \in Files, file[f].eof, file[f].from = 0
              PROVE  Range(file[f].got) = file[f].want /\ IsInjective(file[f].got)
  BY DEF FirstPassComplete, PassComplete, Steady
<1>1. PICK x \in FileRec : x = file[f]
  BY DEF VdirInv, VType
<1>2. Walk(x) /\ FilePass(f) /\ (x.cache = NoVdir \/ Good(x.cache))
  BY <1>1 DEF VdirInv, WalkInv, PassInv, ListsInv
<1>3. x.cache # NoVdir /\ Good(x.cache) /\ x.cache \in List
  BY <1>1, <1>2 DEF Walk, Good
<1>4. Complete(x.cache, x.want)
  BY <1>1, <1>2, <1>3 DEF FilePass
<1>5. NamesOf(x.cache) \in Seq(AllNames) /\ Len(NamesOf(x.cache)) = Len(x.cache.ents)
  BY <1>3, NamesFacts
<1>6. Count(x) = Len(NamesOf(x.cache)) /\ x.got = SubSeq(NamesOf(x.cache), x.from + 1, Count(x))
  BY <1>1, <1>2, <1>3, <1>5 DEF Walk
<1>7. PICK s \in Seq(AllNames) : s = NamesOf(x.cache)
  BY <1>5
<1>8. SubSeq(s, 1, Len(s)) = s
  BY SubSeqFull
<1>9. x.got = s
  <2>1. x.from + 1 = 1
    BY <1>1
  <2>. QED BY <2>1, <1>6, <1>7, <1>8
<1>. QED BY <1>1, <1>4, <1>7, <1>9 DEF Complete

-----------------------------------------------------------------------------
(* The theorems. *)

(* Type correctness of the readdir module: positions of open directories   *)
(* stay inside their copy of the list, and a call that is under way belongs *)
(* to an open file (aufs_readdir, au_fill_de).                             *)
THEOREM TypeCorrect == Spec => []TypeOK
  BY InvAlways, InvType, PTL

(* append_de and append_deblk never let an entry cross the end of a block   *)
(* nor overlap the next one, for any sizes of names and of blocks.          *)
THEOREM InBlockSafe == Spec => []InBlock
  BY InvAlways, InvBlock, PTL

(* However the calls are cut, interleaved with changes of the directory,    *)
(* with seeks and with failures, a process gets the entries of its copy in  *)
(* order, none skipped and none repeated (seek_vdir, au_fill_de).           *)
THEOREM ListedSafe == Spec => []ListedInOrder
  BY InvAlways, InvListed, PTL

(* A first pass over the directory returns exactly what a lookup would have *)
(* found when it started, each name once, for any branches and any order in *)
(* which the hidden directories return their entries (read_vdir, fillvdir,  *)
(* au_init_vdir).                                                          *)
THEOREM FirstPassSafe == Spec => []FirstPassComplete
  BY InvAlways, InvPass, PTL
=============================================================================
