------------------------- MODULE ReplyCheckpoint_proofs -------------------------
(***************************************************************************)
(* Proofs about ReplyCheckpoint, for any number of turns, words and        *)
(* incidents.                                                              *)
(***************************************************************************)
EXTENDS ReplyCheckpoint, FiniteSetTheorems, WellFoundedInduction, TLAPS

\* The places of drive_run where the reply is still at hand, and those after it.
Reading == {"streaming", "flushing", "pruning", "acking", "continued", "settling"}
Ending == {"stored", "marking", "releasing"}

Held == checkpoints # <<>>
Bodies == Seq(1 .. MaxWords)
RowType == [turn : Turns, body : Bodies, stamp : Stamps \cup {None}]
CheckpointType ==
  [turn : Turns, body : Bodies \ {<<>>}, stamp : Stamps \cup {None}, seq : 0 .. MaxWords]

\* The types, in groups.
DaemonTypes ==
  /\ run \in [Turns -> {"none", "live", "ended", "gone"}]
  /\ said \in [Turns -> 0 .. MaxWords] /\ acked \in [Turns -> 0 .. MaxWords]
  /\ \A t \in Turns : acked[t] <= said[t] /\ said[t] <= Words[t]
MemoryTypes ==
  /\ turn \in 0 .. LastTurn /\ at \in Points /\ latest \in 0 .. MaxWords
  /\ chunk \in Bodies /\ stamp \in Stamps \cup {None} /\ result \in {"ok", "stopped"}
StoreTypes ==
  /\ checkpoints \in Seq(CheckpointType) /\ rows \in Seq(RowType) /\ marked \in SUBSET Turns
  /\ onDisk \subseteq {<<>>} \cup {<<c>> : c \in CheckpointType}
  /\ Held => <<Latest>> \in onDisk
  /\ kept \in [rows : Nat, marked : SUBSET Turns]
  /\ kept.rows <= Len(rows) /\ kept.marked \subseteq marked

\* The checkpoints a boot might find if the process died now.
Seen == {c \in CheckpointType : <<c>> \in onDisk}
BootTypes ==
  /\ app \in {"down", "recovering", "recovered", "up"} /\ listed \in SUBSET Turns
  /\ incidents \in 0 .. MaxIncidents
HistoryTypes ==
  excused \subseteq Turns \X (1 .. MaxWords) /\ replayed \subseteq Turns \X (1 .. MaxWords)

\* Where drive_run is, and what is there then.
PointInv ==
  /\ at # "idle" => turn \in Turns /\ run[turn] # "none" /\ app = "up"
  /\ at \in Reading => latest <= said[turn]
  /\ at = "flushing" => chunk # <<>>
  /\ at = "continued" => chunk = <<>>
  /\ at \in {"pruning", "acking"} => Held /\ Latest.turn = turn /\ Latest.seq = latest
  /\ app = "recovered" => Held
  /\ \A c \in Seen : run[c.turn] # "none" /\ c.seq <= said[c.turn]

TypeInv == DaemonTypes /\ MemoryTypes /\ StoreTypes /\ BootTypes /\ HistoryTypes /\ PointInv

\* Every word of t up to n is in a row, in the body or was given up.
Covers(t, body, n) ==
  \A w \in 1 .. n : Word(t, w) \in InRows \cup WordsOf(t, body) \cup excused

\* The words a run may come to have said.
Due(t) == IF run[t] = "live" THEN Words[t] ELSE said[t]
Whole(t) == \A w \in 1 .. Due(t) : Word(t, w) \in Recoverable \cup excused

\* A checkpoint stands for the words up to its sequence.
LatestInv ==
  \A c \in Seen :
    /\ \A w \in ToSet(c.body) : w <= c.seq
    /\ Covers(c.turn, c.body, c.seq)
    /\ Len(c.body) <= Cap

\* So does what the driver has read, which is no less.
ReadInv ==
  at \in Reading =>
    /\ \A w \in ToSet(chunk) : w <= latest
    /\ Covers(turn, chunk, latest)
    /\ Held /\ Latest.turn = turn => Latest.seq <= latest

\* A turn that ends, or is marked, has all of its words somewhere.
TailInv ==
  /\ at = "settling" => Covers(turn, chunk, Due(turn))
  /\ at \in Ending => Whole(turn)
  /\ \A t \in marked : run[t] # "none" /\ Whole(t)

\* A checkpoint that is about to go is in the rows.
GoingInv ==
  /\ at = "stored" /\ Held /\ Latest.turn = turn => InCheckpoint \subseteq InRows \cup excused
  /\ app = "recovered" => InCheckpoint \subseteq InRows \cup excused

\* What the chunk has in common with the rows was replayed.
ChunkInv == at \in Reading => WordsOf(turn, chunk) \cap InRows \subseteq replayed

\* The chunk at hand as a row.
ChunkRow == [turn |-> turn, body |-> chunk, stamp |-> stamp]
\* The latest checkpoint as a row.
LatestRow == [turn |-> Latest.turn, body |-> Latest.body, stamp |-> Latest.stamp]
\* The chunk at hand as a checkpoint.
ChunkCheckpoint == [turn |-> turn, body |-> Clip(chunk), stamp |-> stamp, seq |-> latest]

\* A boot can tell a row that a checkpoint has become.
Tells(c, r) ==
  r.turn = c.turn =>
    \A w \in ToSet(c.body) \cap ToSet(r.body) :
      \/ Word(c.turn, w) \in replayed
      \/ r.stamp = None \/ c.stamp = None
      \/ r.stamp = c.stamp /\ IsPrefix(c.body, r.body)
TellInv == \A c \in Seen : \A i \in DOMAIN rows : Tells(c, rows[i])

\* It could tell the row the chunk at hand would be now, ...
StampInv == at \in Reading => \A c \in Seen : Tells(c, ChunkRow)
\* ... and the one the latest checkpoint would be.
PairInv == Held => \A c \in Seen : Tells(c, LatestRow)

\* Two rows have only words in common that were replayed.
OnceInv ==
  \A i, j \in DOMAIN rows : i # j =>
    WordsOf(rows[i].turn, rows[i].body) \cap WordsOf(rows[j].turn, rows[j].body) \subseteq replayed

IInv ==
  /\ TypeInv /\ LatestInv /\ ReadInv /\ TailInv /\ GoingInv /\ AckedIsKept
  /\ ChunkInv /\ StampInv /\ PairInv /\ TellInv /\ OnceInv

-----------------------------------------------------------------------------
\* Sequences of words.

\* One more word.
LEMMA AppendWord ==
  ASSUME NEW S, NEW s \in Seq(S), NEW x \in S
  PROVE  /\ Append(s, x) \in Seq(S) /\ Append(s, x) # <<>>
         /\ ToSet(Append(s, x)) = ToSet(s) \cup {x}
         /\ \A r \in Seq(S) : IsPrefix(r, s) => IsPrefix(r, Append(s, x))
<1>1. /\ Append(s, x) \in Seq(S) /\ Len(Append(s, x)) = Len(s) + 1 /\ Len(s) \in Nat
      /\ Append(s, x)[Len(s) + 1] = x
      /\ \A i \in 1 .. Len(s) : Append(s, x)[i] = s[i]
  OBVIOUS
<1>2. DOMAIN s = 1 .. Len(s) /\ DOMAIN Append(s, x) = 1 .. Len(s) + 1
  BY <1>1
<1>3. ToSet(Append(s, x)) = ToSet(s) \cup {x}
  BY <1>1, <1>2 DEF ToSet
<1>4. ASSUME NEW r \in Seq(S), IsPrefix(r, s) PROVE IsPrefix(r, Append(s, x))
  BY <1>1, <1>4 DEF IsPrefix
<1>5. QED
  BY <1>1, <1>3, <1>4

\* The head of a reply.
LEMMA ClipEffect ==
  ASSUME BoundsAssumption, NEW S, NEW s \in Seq(S), s # <<>>
  PROVE  /\ Clip(s) \in Seq(S) /\ Clip(s) # <<>> /\ IsPrefix(Clip(s), s)
         /\ ToSet(Clip(s)) \subseteq ToSet(s)
         /\ ToSet(s) \subseteq ToSet(Clip(s)) \cup ToSet(SubSeq(s, Cap + 1, Len(s)))
         /\ ToSet(SubSeq(s, Cap + 1, Len(s))) \subseteq ToSet(s)
<1>1. Cap \in Nat \ {0} /\ Len(s) \in Nat /\ DOMAIN s = 1 .. Len(s) /\ Len(s) > 0
  BY DEF BoundsAssumption
<1> DEFINE rest == SubSeq(s, Cap + 1, Len(s))
<1>2. CASE Len(s) > Cap
  <2> DEFINE h == SubSeq(s, 1, Cap)
  <2>1. /\ h \in Seq(S) /\ Len(h) = Cap /\ DOMAIN h = 1 .. Cap
        /\ \A i \in 1 .. Cap : h[i] = s[i]
    BY <1>1, <1>2
  <2>2. /\ rest \in Seq(S) /\ DOMAIN rest = 1 .. Len(s) - Cap
        /\ \A i \in 1 .. Len(s) - Cap : rest[i] = s[Cap + i]
    BY <1>1, <1>2
  <2>3. Clip(s) = h
    BY <1>2 DEF Clip
  <2>4. IsPrefix(h, s)
    BY <1>1, <1>2, <2>1 DEF IsPrefix
  <2>5. ToSet(h) \subseteq ToSet(s) /\ ToSet(rest) \subseteq ToSet(s)
    BY <1>1, <1>2, <2>1, <2>2 DEF ToSet
  <2> HIDE DEF h, rest
  <2>6. ASSUME NEW i \in 1 .. Len(s) PROVE s[i] \in ToSet(h) \cup ToSet(rest)
    <3>1. CASE i <= Cap
      <4>1. i \in DOMAIN h /\ s[i] = h[i]
        BY <1>1, <2>1, <3>1
      <4>2. QED
        BY <4>1 DEF ToSet
    <3>2. CASE i > Cap
      <4>1. i - Cap \in 1 .. Len(s) - Cap /\ s[i] = rest[i - Cap]
        BY <1>1, <2>2, <3>2
      <4>2. QED
        BY <2>2, <4>1 DEF ToSet
    <3>3. QED
      BY <1>1, <3>1, <3>2
  <2>7. ToSet(s) \subseteq ToSet(h) \cup ToSet(rest)
    BY <1>1, <2>6 DEF ToSet
  <2>8. h # <<>>
    BY <1>1, <2>1
  <2>9. QED
    BY <2>1, <2>3, <2>4, <2>5, <2>7, <2>8 DEF rest
<1>3. CASE ~(Len(s) > Cap)
  <2>1. Clip(s) = s
    BY <1>3 DEF Clip
  <2>2. rest = <<>> /\ ToSet(rest) = {}
    BY <1>1, <1>3 DEF ToSet
  <2>3. QED
    BY <1>1, <2>1, <2>2 DEF IsPrefix
<1>4. QED
  BY <1>2, <1>3

\* It is no longer than there is room.
LEMMA ClipLength ==
  ASSUME BoundsAssumption, NEW S, NEW s \in Seq(S)
  PROVE  Len(Clip(s)) <= Cap
<1>1. Cap \in Nat \ {0} /\ Len(s) \in Nat
  BY DEF BoundsAssumption
<1>2. CASE Len(s) > Cap
  BY <1>1, <1>2 DEF Clip
<1>3. CASE ~(Len(s) > Cap)
  BY <1>1, <1>3 DEF Clip
<1>4. QED
  BY <1>2, <1>3

\* One more row.
LEMMA RowsEffect ==
  ASSUME NEW r, rows' = Append(rows, r), NEW S, rows \in Seq(S), r \in S
  PROVE  /\ InRows' = InRows \cup WordsOf(r.turn, r.body)
         /\ rows' \in Seq(S) /\ DOMAIN rows' = DOMAIN rows \cup {Len(rows) + 1}
         /\ Len(rows) + 1 \notin DOMAIN rows /\ rows'[Len(rows) + 1] = r
         /\ \A i \in DOMAIN rows : rows'[i] = rows[i]
<1>1. /\ rows' \in Seq(S) /\ Len(rows') = Len(rows) + 1 /\ Len(rows) \in Nat
      /\ rows'[Len(rows) + 1] = r
      /\ \A i \in 1 .. Len(rows) : rows'[i] = rows[i]
  OBVIOUS
<1>2. DOMAIN rows = 1 .. Len(rows) /\ DOMAIN rows' = 1 .. Len(rows) + 1
  BY <1>1
<1>3. DOMAIN rows' = DOMAIN rows \cup {Len(rows) + 1} /\ Len(rows) + 1 \notin DOMAIN rows
  BY <1>1, <1>2
<1>4. InRows' = InRows \cup WordsOf(r.turn, r.body)
  BY <1>1, <1>2, <1>3 DEF InRows
<1>5. QED
  BY <1>1, <1>2, <1>3, <1>4

\* The first of the rows.
LEMMA CutEffect ==
  ASSUME NEW S, rows \in Seq(S), NEW n \in 0 .. Len(rows), rows' = SubSeq(rows, 1, n)
  PROVE  /\ rows' \in Seq(S) /\ Len(rows') = n /\ DOMAIN rows' \subseteq DOMAIN rows
         /\ \A i \in DOMAIN rows' : rows'[i] = rows[i]
         /\ InRows' \subseteq InRows
<1>1. /\ rows' \in Seq(S) /\ Len(rows') = n /\ DOMAIN rows = 1 .. Len(rows) /\ DOMAIN rows' = 1 .. n
      /\ \A i \in 1 .. n : rows'[i] = rows[i]
  OBVIOUS
<1>2. DOMAIN rows' \subseteq DOMAIN rows /\ \A i \in DOMAIN rows' : rows'[i] = rows[i]
  BY <1>1
<1>3. InRows' \subseteq InRows
  BY <1>2 DEF InRows
<1>4. QED
  BY <1>1, <1>2, <1>3

-----------------------------------------------------------------------------
\* The bound on the words.

\* A set of numbers that is not empty has a least one.
LEMMA LeastNumber ==
  ASSUME NEW S \in SUBSET Nat, S # {}
  PROVE  \E m \in S : \A n \in S : m <= n
<1> DEFINE R == {ss \in Nat \X Nat : ss[1] < ss[2]}
<1>1. IsWellFoundedOn(R, Nat)
  BY NatLessThanWellFounded, Zenon DEF OpToRel
<1>2. PICK m \in S : \A n \in S : ~ (<<n, m>> \in R)
  <2> HIDE DEF R
  <2>1. S \subseteq Nat
    OBVIOUS
  <2>2. QED
    BY <1>1, <2>1, WFMin, Zenon
<1>3. ASSUME NEW n \in S PROVE m <= n
  <2>1. n \in Nat /\ m \in Nat /\ <<n, m>> \notin R
    BY <1>2
  <2>2. ~(n < m)
    BY <2>1
  <2>3. QED
    BY <2>1, <2>2
<1>4. QED
  BY <1>3

\* The turns are finitely many, so one of them says the most.
LEMMA MaxWordsType ==
  ASSUME BoundsAssumption
  PROVE  MaxWords \in Nat /\ \A t \in Turns : Words[t] <= MaxWords
<1>1. LastTurn \in Nat \ {0} /\ Turns = 1 .. LastTurn /\ Words \in [Turns -> Nat \ {0}]
  BY DEF BoundsAssumption, Turns
<1> DEFINE Bounded(n) == \E b \in Nat : \A i \in 1 .. n : Words[i] <= b
           Unbounded == {n \in 0 .. LastTurn : ~Bounded(n)}
<1>2. Unbounded = {}
  <2>1. SUFFICES ASSUME Unbounded # {} PROVE FALSE
    OBVIOUS
  <2>2. PICK m \in Unbounded : \A n \in Unbounded : m <= n
    <3>1. Unbounded \in SUBSET Nat
      BY <1>1
    <3> HIDE DEF Unbounded
    <3>2. QED
      BY <2>1, <3>1, LeastNumber
  <2>3. m \in 0 .. LastTurn /\ ~Bounded(m)
    BY <2>2
  <2>4. m # 0
    <3>1. Bounded(0)
      <4>1. 0 \in Nat /\ \A i \in 1 .. 0 : Words[i] <= 0
        OBVIOUS
      <4>2. QED
        BY <4>1
    <3>2. QED
      BY <2>3, <3>1
  <2>5. m - 1 \in 0 .. LastTurn /\ ~(m <= m - 1)
    BY <1>1, <2>3, <2>4
  <2>6. PICK b \in Nat : \A i \in 1 .. (m - 1) : Words[i] <= b
    BY <2>2, <2>5
  <2>7. m \in Turns /\ Words[m] \in Nat
    BY <1>1, <2>3, <2>4
  <2>8. PICK c \in Nat : b <= c /\ Words[m] <= c
    <3>1. CASE b <= Words[m]
      <4>1. b <= Words[m] /\ Words[m] <= Words[m] /\ Words[m] \in Nat
        BY <2>7, <3>1
      <4>2. QED
        BY <4>1
    <3>2. CASE Words[m] <= b
      BY <3>2
    <3>3. QED
      BY <2>7, <3>1, <3>2
  <2>9. \A i \in 1 .. m : Words[i] <= c
    <3>1. SUFFICES ASSUME NEW i \in 1 .. m PROVE Words[i] <= c
      OBVIOUS
    <3>2. i \in Turns /\ Words[i] \in Nat
      BY <1>1, <2>7
    <3>3. CASE i = m
      BY <2>8, <3>3
    <3>4. CASE i # m
      BY <1>1, <2>3, <2>6, <2>8, <3>2, <3>4
    <3>5. QED
      BY <3>3, <3>4
  <2>10. QED
    BY <2>3, <2>9
<1> DEFINE Above == {c \in Nat : \A i \in Turns : Words[i] <= c}
<1>3. Above # {}
  <2>1. Bounded(LastTurn)
    <3>1. LastTurn \in 0 .. LastTurn
      BY <1>1
    <3> HIDE DEF Bounded
    <3>2. QED
      BY <1>2, <3>1
  <2>2. PICK b \in Nat : \A i \in 1 .. LastTurn : Words[i] <= b
    BY <2>1
  <2>3. b \in Above
    BY <1>1, <2>2
  <2>4. QED
    BY <2>3
<1>4. PICK m \in Above : \A n \in Above : m <= n
  BY <1>3, LeastNumber
<1>5. m \in Nat /\ \A i \in Turns : Words[i] <= m /\ Words[i] \in Nat \ {0}
  BY <1>1, <1>4
<1>6. PICK t \in Turns : Words[t] = m
  <2>1. SUFFICES ASSUME \A t \in Turns : Words[t] # m PROVE FALSE
    OBVIOUS
  <2>2. 1 \in Turns
    BY <1>1
  <2>3. m - 1 \in Nat /\ \A i \in Turns : Words[i] <= m - 1
    BY <1>5, <2>1, <2>2
  <2>4. m - 1 \in Above /\ ~(m <= m - 1)
    BY <1>5, <2>3
  <2>5. QED
    BY <1>4, <2>4
<1>7. Range(Words) = {Words[i] : i \in Turns}
  BY <1>1 DEF Range
<1> HIDE DEF Above, Unbounded, Bounded
<1>8. m \in Range(Words) /\ \A y \in Range(Words) : m >= y
  BY <1>5, <1>6, <1>7
<1>9. MaxWords \in Range(Words) /\ \A y \in Range(Words) : MaxWords >= y
  BY <1>8 DEF MaxWords, Max
<1>10. QED
  BY <1>5, <1>7, <1>9

-----------------------------------------------------------------------------
\* Rows and checkpoints.

\* The elements of a sequence are what it is a sequence of.
LEMMA ToSetType ==
  ASSUME NEW S, NEW s \in Seq(S)
  PROVE  ToSet(s) \subseteq S
<1>1. \A i \in DOMAIN s : s[i] \in S
  OBVIOUS
<1>2. QED
  BY <1>1 DEF ToSet

\* The words of a body are words of its turn.
LEMMA WordsOfType ==
  ASSUME BoundsAssumption, NEW t \in Turns, NEW body \in Bodies
  PROVE  WordsOf(t, body) \subseteq Turns \X (1 .. MaxWords)
<1>1. ToSet(body) \subseteq 1 .. MaxWords
  BY ToSetType DEF Bodies
<1>2. QED
  BY <1>1 DEF WordsOf, Word

\* The latest checkpoint is one, and a boot would recover its words.
LEMMA LatestType ==
  ASSUME StoreTypes, Held
  PROVE  /\ Latest \in CheckpointType /\ Len(checkpoints) \in DOMAIN checkpoints
         /\ Latest.turn \in Turns /\ Latest.body \in Bodies /\ Latest.body # <<>>
         /\ Latest.seq \in Nat /\ Latest.stamp \in Stamps \cup {None}
         /\ InCheckpoint = WordsOf(Latest.turn, Latest.body) /\ Latest \in Seen
<1>1. checkpoints \in Seq(CheckpointType) /\ Len(checkpoints) \in 1 .. Len(checkpoints)
  BY DEF StoreTypes, Held
<1>2. Latest \in CheckpointType /\ Len(checkpoints) \in DOMAIN checkpoints
  BY <1>1 DEF Latest
<1>3. InCheckpoint = WordsOf(Latest.turn, Latest.body)
  BY DEF InCheckpoint, Held
<1>4. MaxWords \in Nat
  BY BoundsAssumption, MaxWordsType
<1>5. QED
  BY <1>2, <1>3, <1>4 DEF CheckpointType, StoreTypes, Seen

\* What may be on disk is a checkpoint of those that were seen, or none.
LEMMA SeenType ==
  ASSUME StoreTypes
  PROVE  /\ \A c \in Seen : /\ c.turn \in Turns /\ c.body \in Bodies /\ c.body # <<>> /\ c.seq \in Nat
                            /\ c.stamp \in Stamps \cup {None}
         /\ \A s \in onDisk : s = <<>> \/ \E c \in Seen : s = <<c>>
         /\ \A c \in Seen : WordsOf(c.turn, c.body) \subseteq InEarlier
         /\ InEarlier \subseteq Turns \X (1 .. MaxWords)
<1>1. MaxWords \in Nat
  BY BoundsAssumption, MaxWordsType
<1>2. ASSUME NEW c \in Seen
      PROVE  /\ c.turn \in Turns /\ c.body \in Bodies /\ c.body # <<>> /\ c.seq \in Nat
             /\ c.stamp \in Stamps \cup {None}
  BY <1>1 DEF Seen, CheckpointType
<1>3. ASSUME NEW s \in onDisk, s # <<>> PROVE \E c \in Seen : s = <<c>>
  BY <1>3 DEF StoreTypes, Seen
<1>4. ASSUME NEW c \in Seen PROVE WordsOf(c.turn, c.body) \subseteq InEarlier
  <2>1. <<c>> \in onDisk \ {<<>>} /\ <<c>>[1] = c
    BY DEF Seen
  <2>2. QED
    BY <2>1 DEF InEarlier
<1>5. ASSUME NEW s \in onDisk \ {<<>>} PROVE WordsOf(s[1].turn, s[1].body) \subseteq Turns \X (1 .. MaxWords)
  <2>1. PICK c \in Seen : s = <<c>>
    BY <1>3
  <2>2. s[1] = c
    BY <2>1
  <2>3. QED
    BY <1>2, <2>2, BoundsAssumption, WordsOfType
<1>6. InEarlier \subseteq Turns \X (1 .. MaxWords)
  BY <1>5 DEF InEarlier
<1>7. QED
  BY <1>2, <1>3, <1>4, <1>6

\* One more checkpoint.
LEMMA CheckpointEffect ==
  ASSUME StoreTypes, NEW c \in CheckpointType, PutCheckpoints(Append(checkpoints, c))
  PROVE  /\ checkpoints' \in Seq(CheckpointType) /\ Held' /\ Latest' = c
         /\ InCheckpoint' = WordsOf(c.turn, c.body) /\ onDisk' = onDisk \cup {<<c>>}
<1> DEFINE new == Append(checkpoints, c)
<1>1. /\ checkpoints \in Seq(CheckpointType) /\ checkpoints' = new
      /\ new \in Seq(CheckpointType) /\ new # <<>> /\ new[Len(new)] = c
  BY DEF StoreTypes, PutCheckpoints
<1>2. onDisk' = onDisk \cup {IF new = <<>> THEN <<>> ELSE <<new[Len(new)]>>}
  BY DEF PutCheckpoints
<1> HIDE DEF new
<1>3. Held' /\ Latest' = c
  BY <1>1 DEF Held, Latest
<1>4. onDisk' = onDisk \cup {<<c>>}
  BY <1>1, <1>2
<1>5. QED
  BY <1>1, <1>3, <1>4 DEF InCheckpoint, Held

\* The older ones go, ...
LEMMA PruneEffect ==
  ASSUME StoreTypes, Held, PutCheckpoints(<<Latest>>)
  PROVE  /\ checkpoints' \in Seq(CheckpointType) /\ Held' /\ Latest' = Latest
         /\ InCheckpoint' = InCheckpoint /\ onDisk' = onDisk
<1> DEFINE c == Latest
           new == <<c>>
<1>1. c \in CheckpointType /\ <<c>> \in onDisk
  BY LatestType DEF StoreTypes
<1>2. /\ checkpoints' = new /\ new # <<>> /\ new[Len(new)] = c
      /\ onDisk' = onDisk \cup {IF new = <<>> THEN <<>> ELSE <<new[Len(new)]>>}
  BY DEF PutCheckpoints
<1> HIDE DEF c
<1>3. new \in Seq(CheckpointType)
  BY <1>1
<1> HIDE DEF new
<1>4. checkpoints' \in Seq(CheckpointType) /\ Held' /\ Latest' = c
  BY <1>2, <1>3 DEF Held, Latest
<1>5. onDisk' = onDisk
  BY <1>1, <1>2 DEF new
<1>6. QED
  BY <1>4, <1>5 DEF InCheckpoint, Held, c

\* ... or all of them, and one of another turn is given up with them.
Cleared(t) ==
  /\ PutCheckpoints(<<>>)
  /\ excused' = excused \cup
       (IF checkpoints # <<>> /\ Latest.turn # t THEN InCheckpoint \ InRows ELSE {})
\* What that leaves.
LEMMA ClearEffect ==
  ASSUME NEW t, Cleared(t)
  PROVE  /\ checkpoints' \in Seq(CheckpointType) /\ ~Held' /\ InCheckpoint' = {}
         /\ onDisk' = onDisk \cup {<<>>}
         /\ Held /\ Latest.turn # t => InCheckpoint \subseteq InRows \cup excused'
BY DEF Cleared, PutCheckpoints, Held, InCheckpoint

-----------------------------------------------------------------------------
\* The types.

\* The steps that change the daemon's runs.
DaemonSteps ==
  \/ \E t \in Turns : Say(t) \/ End(t) \/ SyncRelease(t)
  \/ DaemonDies \/ StartTurn \/ Acknowledge \/ Finish \/ AcknowledgeAll
\* What a step is otherwise.
LEMMA DaemonCases == [Next]_vars => DaemonSteps \/ UNCHANGED daemon
BY DEF Next, vars, daemon, DaemonSteps, SyncAdopt, Receive, WriteCheckpoint, PruneOlder,
  AcceptInjection, ClearContinued, StoreTerminal, ClearTerminal, MarkComplete, Crash, Boot,
  RecoverCheckpoint, DropRecovered

\* The words of a turn, bounded.
LEMMA WordsType ==
  /\ MaxWords \in Nat /\ LastTurn \in Nat /\ MaxIncidents \in Nat
  /\ \A t \in Turns : Words[t] \in Nat /\ Words[t] <= MaxWords
<1>1. LastTurn \in Nat /\ MaxIncidents \in Nat /\ \A t \in Turns : Words[t] \in Nat
  BY BoundsAssumption DEF BoundsAssumption, Turns
<1>2. QED
  BY <1>1, BoundsAssumption, MaxWordsType

\* A run that began goes on or ends, and has no more to say than it had.
RunsGoOn ==
  \A s \in Turns : run[s] # "none" =>
    run'[s] # "none" /\ said[s] <= said'[s] /\ Due(s)' <= Due(s)

\* A journal that is let go of.
LEMMA ReleaseEffect ==
  ASSUME DaemonTypes, NEW t \in Turns, ReleaseJournal(t), UNCHANGED said
  PROVE  DaemonTypes' /\ RunsGoOn
<1>1. /\ run' \in [Turns -> {"none", "live", "ended", "gone"}]
      /\ acked' \in [Turns -> 0 .. MaxWords]
      /\ \A s \in Turns : acked'[s] <= said'[s] /\ said'[s] <= Words[s]
  BY DEF DaemonTypes, ReleaseJournal
<1>2. \A s \in Turns : run'[s] = run[s] \/ (run[s] = "ended" /\ run'[s] = "gone")
  BY DEF DaemonTypes, ReleaseJournal
<1>3. \A s \in Turns : said[s] \in Nat /\ Words[s] \in Nat
  BY WordsType DEF DaemonTypes
<1>4. QED
  BY <1>1, <1>2, <1>3 DEF DaemonTypes, Due, RunsGoOn

\* A run that ends at the daemon has said what it had to say.
LEMMA EndEffect ==
  ASSUME DaemonTypes, UNCHANGED <<said, acked>>,
         run' \in [Turns -> {"none", "live", "ended", "gone"}],
         \A s \in Turns : run'[s] = run[s] \/ (run[s] # "none" /\ run'[s] \in {"ended", "gone"})
  PROVE  DaemonTypes' /\ RunsGoOn
<1>1. \A s \in Turns : said[s] \in Nat /\ Words[s] \in Nat /\ said[s] <= Words[s]
  BY WordsType DEF DaemonTypes
<1>2. QED
  BY <1>1 DEF DaemonTypes, Due, RunsGoOn

\* The types of the daemon's runs.
LEMMA DaemonStep ==
  ASSUME TypeInv, [Next]_vars
  PROVE  DaemonTypes' /\ RunsGoOn
<1>1. DaemonTypes /\ MemoryTypes /\ PointInv
  BY DEF TypeInv
<1>2. \A t \in Turns : said[t] \in Nat /\ Words[t] \in Nat /\ Words[t] <= MaxWords /\ MaxWords \in Nat
  BY <1>1, WordsType DEF DaemonTypes
<1>3. CASE UNCHANGED daemon
  BY <1>1, <1>2, <1>3 DEF daemon, DaemonTypes, Due, RunsGoOn
<1>4. ASSUME NEW t \in Turns, Say(t) PROVE DaemonTypes' /\ RunsGoOn
  <2>1. /\ run' = run /\ acked' = acked /\ run[t] = "live" /\ said[t] < Words[t]
        /\ said' = [said EXCEPT ![t] = @ + 1]
    BY <1>4 DEF Say
  <2>2. said' \in [Turns -> 0 .. MaxWords] /\ said'[t] <= Words[t]
        /\ \A s \in Turns : said[s] <= said'[s] /\ (s # t => said'[s] = said[s])
    BY <1>1, <1>2, <2>1 DEF DaemonTypes
  <2>3. \A s \in Turns : acked'[s] <= said'[s] /\ said'[s] <= Words[s]
    BY <1>1, <1>2, <2>1, <2>2 DEF DaemonTypes
  <2>4. QED
    BY <1>1, <1>2, <2>1, <2>2, <2>3 DEF DaemonTypes, Due, RunsGoOn
<1>5. ASSUME NEW t \in Turns, End(t) PROVE DaemonTypes' /\ RunsGoOn
  <2>1. run' \in [Turns -> {"none", "live", "ended", "gone"}] /\ UNCHANGED <<said, acked>>
        /\ \A s \in Turns : run'[s] = run[s] \/ (run[s] # "none" /\ run'[s] \in {"ended", "gone"})
    BY <1>1, <1>5 DEF End, DaemonTypes
  <2>2. QED
    BY <1>1, <2>1, EndEffect
<1>6. ASSUME NEW t \in Turns, SyncRelease(t) PROVE DaemonTypes' /\ RunsGoOn
  BY <1>1, <1>6, ReleaseEffect DEF SyncRelease
<1>7. CASE DaemonDies
  <2>1. run' \in [Turns -> {"none", "live", "ended", "gone"}] /\ UNCHANGED <<said, acked>>
        /\ \A s \in Turns : run'[s] = run[s] \/ (run[s] # "none" /\ run'[s] \in {"ended", "gone"})
    BY <1>1, <1>7 DEF DaemonDies, DaemonTypes
  <2>2. QED
    BY <1>1, <2>1, EndEffect
<1>8. CASE StartTurn
  <2>1. PICK t \in Turns : run[t] = "none" /\ run' = [run EXCEPT ![t] = "live"]
                           /\ UNCHANGED <<said, acked>>
    BY <1>8 DEF StartTurn
  <2>2. QED
    BY <1>1, <1>2, <2>1 DEF DaemonTypes, Due, RunsGoOn
<1>9. CASE Acknowledge
  <2>1. /\ turn \in Turns /\ latest \in 0 .. MaxWords /\ latest <= said[turn]
        /\ UNCHANGED <<run, said>>
        /\ acked' = acked \/ acked' = [acked EXCEPT ![turn] = IF latest > @ THEN latest ELSE @]
    BY <1>1, <1>9 DEF Acknowledge, AcknowledgeFrom, AckThrough, PointInv, MemoryTypes, Reading
  <2>2. acked' \in [Turns -> 0 .. MaxWords] /\ \A s \in Turns : acked'[s] <= said[s]
    BY <1>1, <1>2, <2>1 DEF DaemonTypes
  <2>3. QED
    BY <1>1, <1>2, <2>1, <2>2 DEF DaemonTypes, Due, RunsGoOn
<1>10. CASE Finish
  <2>1. turn \in Turns /\ UNCHANGED <<said, acked>>
        /\ (run' = run \/ run' = [run EXCEPT ![turn] = IF @ = "live" THEN "ended" ELSE @])
    BY <1>1, <1>10 DEF Finish, PointInv
  <2>2. run' \in [Turns -> {"none", "live", "ended", "gone"}]
        /\ \A s \in Turns : run'[s] = run[s] \/ (run[s] # "none" /\ run'[s] \in {"ended", "gone"})
    BY <1>1, <2>1 DEF DaemonTypes
  <2>3. QED
    BY <1>1, <2>1, <2>2, EndEffect
<1>11. CASE AcknowledgeAll
  <2>1. turn \in Turns /\ UNCHANGED said /\ (ReleaseJournal(turn) \/ UNCHANGED <<acked, run>>)
    BY <1>1, <1>11 DEF AcknowledgeAll, PointInv
  <2>2. CASE ReleaseJournal(turn)
    BY <1>1, <2>1, <2>2, ReleaseEffect
  <2>3. CASE UNCHANGED <<acked, run>>
    BY <1>1, <1>2, <2>1, <2>3 DEF DaemonTypes, Due, RunsGoOn
  <2>4. QED
    BY <2>1, <2>2, <2>3
<1>12. QED
  BY <1>3, <1>4, <1>5, <1>6, <1>7, <1>8, <1>9, <1>10, <1>11, DaemonCases DEF DaemonSteps

\* What drive_run remembers, moved on ...
LEMMA GoTypes ==
  ASSUME MemoryTypes, NEW p \in Points, Go(p)
  PROVE  MemoryTypes'
BY DEF MemoryTypes, Go

\* ... or dropped.
LEMMA PastTypes ==
  ASSUME MemoryTypes, NEW p \in Points, Past(p)
  PROVE  MemoryTypes'
<1>1. <<>> \in Bodies /\ 0 \in 0 .. LastTurn /\ 0 \in 0 .. MaxWords
  BY WordsType DEF Bodies
<1>2. QED
  BY <1>1 DEF MemoryTypes, Past

\* A driver that begins.
LEMMA EnterTypes ==
  ASSUME NEW t \in Turns, NEW b \in Bodies, NEW n \in 0 .. MaxWords,
         NEW s \in Stamps \cup {None}, Enter(t, b, n, s)
  PROVE  MemoryTypes'
<1>1. t \in 0 .. LastTurn
  BY WordsType DEF Turns
<1>2. QED
  BY <1>1 DEF MemoryTypes, Enter, Points

\* The steps that change what drive_run remembers.
MemorySteps ==
  \/ \E t \in Turns : SyncAdopt(t)
  \/ StartTurn \/ Receive \/ WriteCheckpoint \/ PruneOlder \/ Acknowledge
  \/ AcceptInjection \/ ClearContinued \/ Finish \/ StoreTerminal \/ ClearTerminal
  \/ MarkComplete \/ AcknowledgeAll \/ Crash
\* What a step is otherwise.
LEMMA MemoryCases == [Next]_vars => MemorySteps \/ UNCHANGED memory
BY DEF Next, vars, MemorySteps, Say, End, SyncRelease, DaemonDies, Boot, RecoverCheckpoint,
  DropRecovered

\* The types of what drive_run remembers.
LEMMA MemoryStep ==
  ASSUME TypeInv, [Next]_vars
  PROVE  MemoryTypes'
<1>1. DaemonTypes /\ MemoryTypes /\ StoreTypes /\ BootTypes /\ PointInv
  BY DEF TypeInv
<1>2. <<>> \in Bodies /\ 0 \in 0 .. MaxWords /\ {"streaming", "flushing", "pruning", "acking",
        "continued", "settling", "stored", "marking", "releasing", "idle"} \subseteq Points
  BY WordsType DEF Bodies, Points
<1>3. ASSUME NEW t \in Turns, SyncAdopt(t) PROVE MemoryTypes'
  <2>1. CASE Held /\ Latest.turn = t
    <3>1. Latest.body \in Bodies /\ Latest.seq \in 0 .. MaxWords /\ Latest.stamp \in Stamps \cup {None}
      BY <1>1, <2>1, LatestType DEF CheckpointType
    <3>2. Enter(t, Latest.body, Latest.seq, Latest.stamp)
      BY <1>3, <2>1 DEF SyncAdopt, Held
    <3>3. QED
      BY <3>1, <3>2, EnterTypes
  <2>2. CASE ~(Held /\ Latest.turn = t)
    <3>1. acked[t] \in 0 .. MaxWords /\ Enter(t, <<>>, acked[t], None)
      BY <1>1, <1>3, <2>2 DEF SyncAdopt, Held, DaemonTypes
    <3>2. QED
      BY <1>2, <3>1, EnterTypes
  <2>3. QED
    BY <2>1, <2>2
<1>4. CASE StartTurn
  BY <1>2, <1>4, EnterTypes DEF StartTurn
<1>5. CASE Receive
  <2>1. /\ turn \in Turns /\ said[turn] \in 0 .. MaxWords /\ latest + 1 <= said[turn]
        /\ turn' = turn /\ result' = result /\ latest' = latest + 1
        /\ chunk' = Append(chunk, latest + 1) /\ at' \in {"streaming", "flushing"}
        /\ stamp' = stamp \/ stamp' = <<turn, latest + 1, incidents>>
    BY <1>1, <1>5 DEF Receive, PointInv, DaemonTypes
  <2>2. latest + 1 \in 1 .. MaxWords
    BY <1>1, <2>1, WordsType DEF MemoryTypes
  <2>3. chunk' \in Bodies
    BY <1>1, <2>1, <2>2, AppendWord DEF Bodies, MemoryTypes
  <2>4. <<turn, latest + 1, incidents>> \in Stamps
    BY <1>1, <2>1, <2>2 DEF Stamps, BootTypes
  <2>5. at' \in Points
    BY <1>2, <2>1
  <2>6. latest' \in 0 .. MaxWords
    BY <2>1, <2>2, WordsType
  <2>7. QED
    BY <1>1, <2>1, <2>3, <2>4, <2>5, <2>6 DEF MemoryTypes
<1>6. CASE WriteCheckpoint
  BY <1>1, <1>2, <1>6, GoTypes DEF WriteCheckpoint
<1>7. CASE PruneOlder
  BY <1>1, <1>2, <1>7, GoTypes DEF PruneOlder
<1>8. CASE Acknowledge
  BY <1>1, <1>2, <1>8, GoTypes DEF Acknowledge
<1>9. CASE AcceptInjection
  BY <1>1, <1>2, <1>9 DEF AcceptInjection, MemoryTypes
<1>10. CASE ClearContinued
  BY <1>1, <1>2, <1>10, GoTypes DEF ClearContinued
<1>11. CASE Finish
  BY <1>1, <1>2, <1>11 DEF Finish, MemoryTypes
<1>12. CASE StoreTerminal
  BY <1>1, <1>2, <1>12, PastTypes DEF StoreTerminal, AfterFailedInsert
<1>13. CASE ClearTerminal
  BY <1>1, <1>2, <1>13, GoTypes DEF ClearTerminal
<1>14. CASE MarkComplete
  BY <1>1, <1>2, <1>14, GoTypes, PastTypes DEF MarkComplete, Leave
<1>15. CASE AcknowledgeAll
  BY <1>1, <1>2, <1>15, PastTypes DEF AcknowledgeAll, Leave
<1>16. CASE Crash
  BY <1>1, <1>2, <1>16, PastTypes DEF Crash, Leave
<1>17. CASE UNCHANGED memory
  BY <1>1, <1>17 DEF memory, MemoryTypes
<1>18. QED
  BY <1>3, <1>4, <1>5, <1>6, <1>7, <1>8, <1>9, <1>10, <1>11, <1>12, <1>13, <1>14, <1>15, <1>16,
    <1>17, MemoryCases DEF MemorySteps

\* The steps that change the store.
StoreSteps ==
  \/ WriteCheckpoint \/ PruneOlder \/ AcceptInjection \/ ClearContinued \/ StoreTerminal
  \/ ClearTerminal \/ MarkComplete \/ Crash \/ RecoverCheckpoint \/ DropRecovered
\* What a step is otherwise.
LEMMA StoreCases == [Next]_vars => StoreSteps \/ UNCHANGED store
BY DEF Next, vars, store, StoreSteps, Say, End, SyncRelease, SyncAdopt, DaemonDies, StartTurn,
  Receive, Acknowledge, Finish, AcknowledgeAll, Boot

\* They have the types of what they become.
LEMMA MadeTypes ==
  ASSUME TypeInv
  PROVE  /\ at # "idle" => ChunkRow \in RowType
         /\ at = "flushing" => ChunkCheckpoint \in CheckpointType
         /\ Held => LatestRow \in RowType
<1>1. MemoryTypes /\ StoreTypes /\ PointInv
  BY DEF TypeInv
<1>2. at # "idle" => ChunkRow \in RowType
  BY <1>1 DEF PointInv, MemoryTypes, ChunkRow, RowType
<1>3. ASSUME at = "flushing" PROVE ChunkCheckpoint \in CheckpointType
  <2>1. turn \in Turns /\ chunk # <<>> /\ chunk \in Bodies
    BY <1>1, <1>3 DEF PointInv, MemoryTypes
  <2>2. Clip(chunk) \in Bodies \ {<<>>}
    BY <2>1, BoundsAssumption, ClipEffect DEF Bodies
  <2>3. QED
    BY <1>1, <2>1, <2>2 DEF ChunkCheckpoint, CheckpointType, MemoryTypes
<1>4. Held => LatestRow \in RowType
  BY <1>1, LatestType DEF LatestRow, RowType
<1>5. QED
  BY <1>2, <1>3, <1>4

\* A crash cuts the rows off, ...
Cut == Crash /\ \E n \in 0 .. Len(rows) : rows' = SubSeq(rows, 1, n)
\* ... and otherwise they come about so.
RowsGrow ==
  \/ rows' = rows
  \/ at = "streaming" /\ at' = "continued" /\ chunk' = <<>> /\ rows' = Append(rows, ChunkRow)
  \/ at = "settling" /\ at' = "stored" /\ chunk # <<>> /\ rows' = Append(rows, ChunkRow)
  \/ /\ RecoverCheckpoint /\ Held /\ ~Durable(Latest) /\ rows' = Append(rows, LatestRow)
     /\ app = "recovering"
     /\ replayed' = replayed \cup (IF Unstamped(Latest) THEN InCheckpoint \cap InRows ELSE {})
\* A crash does.
LEMMA CrashIsCut ==
  ASSUME StoreTypes, Crash
  PROVE  Cut
<1>1. PICK n \in kept.rows .. Len(rows) : rows' = SubSeq(rows, 1, n)
  BY DEF Crash
<1>2. n \in 0 .. Len(rows)
  BY <1>1 DEF StoreTypes
<1>3. QED
  BY <1>1, <1>2 DEF Cut

\* Every step is one of these.
LEMMA RowsCases ==
  ASSUME StoreTypes, [Next]_vars
  PROVE  RowsGrow \/ Cut
<1>1. CASE AcceptInjection
  BY <1>1 DEF AcceptInjection, RowsGrow, ChunkRow
<1>2. CASE StoreTerminal
  BY <1>2 DEF StoreTerminal, RowsGrow, ChunkRow, Past
<1>3. CASE RecoverCheckpoint
  BY <1>3 DEF RecoverCheckpoint, RowsGrow, LatestRow, Held
<1>4. CASE UNCHANGED store
  BY <1>4 DEF store, tables, RowsGrow
<1>5. CASE WriteCheckpoint \/ PruneOlder \/ ClearContinued \/ ClearTerminal \/ MarkComplete
        \/ DropRecovered
  BY <1>5 DEF WriteCheckpoint, PruneOlder, ClearContinued, ClearTerminal, MarkComplete,
    DropRecovered, RowsGrow
<1>6. CASE Crash
  BY <1>6, CrashIsCut
<1>7. QED
  BY <1>1, <1>2, <1>3, <1>4, <1>5, <1>6, StoreCases DEF StoreSteps

\* How the checkpoints of a step come about, but for a crash.
CheckpointsMove ==
  \/ UNCHANGED <<checkpoints, onDisk>>
  \/ /\ at = "flushing" /\ at' = "pruning" /\ WriteCheckpoint
     /\ PutCheckpoints(Append(checkpoints, ChunkCheckpoint))
  \/ at = "pruning" /\ PutCheckpoints(<<Latest>>)
  \/ at \in {"continued", "stored"} /\ Cleared(turn)
  \/ app = "recovered" /\ Cleared(Latest.turn)
\* Every step is one of these.
LEMMA CheckpointsCases == [Next]_vars => CheckpointsMove \/ Crash
<1> SUFFICES ASSUME [Next]_vars PROVE CheckpointsMove \/ Crash
  OBVIOUS
<1>1. CASE WriteCheckpoint
  BY <1>1 DEF WriteCheckpoint, CheckpointsMove, ChunkCheckpoint, Go
<1>2. CASE PruneOlder
  BY <1>2 DEF PruneOlder, CheckpointsMove
<1>3. CASE ClearContinued \/ ClearTerminal \/ DropRecovered
  BY <1>3 DEF ClearContinued, ClearTerminal, DropRecovered, ClearCheckpoints, Cleared, CheckpointsMove
<1>4. CASE AcceptInjection \/ StoreTerminal \/ MarkComplete \/ RecoverCheckpoint
  BY <1>4 DEF AcceptInjection, StoreTerminal, MarkComplete, RecoverCheckpoint, CheckpointsMove, disk
<1>5. CASE UNCHANGED store
  BY <1>5 DEF store, tables, disk, CheckpointsMove
<1>6. QED
  BY <1>1, <1>2, <1>3, <1>4, <1>5, StoreCases DEF StoreSteps

\* A crash finds one of the checkpoints that were seen, or none.
LEMMA CrashEffect ==
  ASSUME StoreTypes, Crash
  PROVE  /\ checkpoints' \in Seq(CheckpointType)
         /\ onDisk' \subseteq {<<>>} \cup {<<c>> : c \in CheckpointType}
         /\ Held' => /\ Latest' \in Seen /\ Seen' = {Latest'} /\ <<Latest'>> \in onDisk'
                     /\ InCheckpoint' = WordsOf(Latest'.turn, Latest'.body)
         /\ ~Held' => Seen' = {} /\ InCheckpoint' = {}
<1>1. checkpoints' \in onDisk /\ onDisk' = {checkpoints'}
  BY DEF Crash
<1>2. CASE checkpoints' = <<>>
  BY <1>1, <1>2 DEF Seen, Held, InCheckpoint
<1>3. CASE checkpoints' # <<>>
  <2>1. PICK c \in Seen : checkpoints' = <<c>>
    BY <1>1, <1>3, SeenType
  <2>2. c \in CheckpointType
    BY DEF Seen
  <2>3. Held' /\ Latest' = c
    BY <2>1 DEF Held, Latest
  <2>4. Seen' = {c}
    BY <1>1, <2>1, <2>2 DEF Seen
  <2>5. QED
    BY <1>1, <2>1, <2>2, <2>3, <2>4 DEF InCheckpoint, Held
<1>4. QED
  BY <1>2, <1>3

\* The types of the store.
LEMMA StoreStep ==
  ASSUME TypeInv, [Next]_vars
  PROVE  StoreTypes'
<1>1. StoreTypes /\ MemoryTypes /\ PointInv
  BY DEF TypeInv
<1>2. /\ rows' \in Seq(RowType)
      /\ kept' \in [rows : Nat, marked : SUBSET Turns] /\ kept'.rows <= Len(rows')
  <2>1. CASE kept' = kept /\ rows' = rows
    BY <1>1, <2>1 DEF StoreTypes
  <2>2. ASSUME NEW r \in RowType, rows' = Append(rows, r), kept' = kept
        PROVE  /\ rows' \in Seq(RowType)
               /\ kept' \in [rows : Nat, marked : SUBSET Turns] /\ kept'.rows <= Len(rows')
    <3>1. rows' \in Seq(RowType) /\ Len(rows') = Len(rows) + 1 /\ Len(rows) \in Nat
      BY <1>1, <2>2 DEF StoreTypes
    <3>2. QED
      BY <1>1, <2>2, <3>1 DEF StoreTypes
  <2>3. CASE Cut
    <3>1. PICK n \in 0 .. Len(rows) : rows' = SubSeq(rows, 1, n)
      BY <2>3 DEF Cut
    <3>2. rows' \in Seq(RowType) /\ Len(rows') \in Nat
      BY <1>1, <3>1, CutEffect DEF StoreTypes
    <3>3. kept' = [rows |-> Len(rows'), marked |-> marked'] /\ marked' \in SUBSET marked
      BY <2>3 DEF Cut, Crash
    <3>4. QED
      BY <1>1, <3>2, <3>3 DEF StoreTypes
  <2>4. ~Crash => kept' = kept
    BY StoreCases DEF store, disk, StoreSteps, WriteCheckpoint, PruneOlder, AcceptInjection,
      ClearContinued, StoreTerminal, ClearTerminal, MarkComplete, RecoverCheckpoint, DropRecovered
  <2>5. CASE ~Crash
    BY <1>1, <2>1, <2>2, <2>4, <2>5, RowsCases, MadeTypes DEF RowsGrow, Cut
  <2>6. CASE Crash
    BY <1>1, <2>3, <2>6, CrashIsCut
  <2>7. QED
    BY <2>5, <2>6
<1>3. /\ checkpoints' \in Seq(CheckpointType)
      /\ onDisk' \subseteq {<<>>} \cup {<<c>> : c \in CheckpointType}
      /\ Held' => <<Latest'>> \in onDisk'
  <2>1. CASE UNCHANGED <<checkpoints, onDisk>>
    BY <1>1, <2>1 DEF StoreTypes, Held, Latest
  <2>2. CASE at = "flushing" /\ PutCheckpoints(Append(checkpoints, ChunkCheckpoint))
    <3>1. ChunkCheckpoint \in CheckpointType
      BY <2>2, MadeTypes
    <3>2. /\ checkpoints' \in Seq(CheckpointType) /\ Latest' = ChunkCheckpoint
          /\ onDisk' = onDisk \cup {<<ChunkCheckpoint>>}
      BY <1>1, <2>2, <3>1, CheckpointEffect
    <3>3. QED
      BY <1>1, <3>1, <3>2 DEF StoreTypes
  <2>3. CASE at = "pruning" /\ PutCheckpoints(<<Latest>>)
    BY <1>1, <2>3, PruneEffect DEF PointInv, StoreTypes
  <2>4. ASSUME NEW t, Cleared(t)
        PROVE  /\ checkpoints' \in Seq(CheckpointType) /\ ~Held'
               /\ onDisk' \subseteq {<<>>} \cup {<<c>> : c \in CheckpointType}
    BY <1>1, <2>4, ClearEffect DEF StoreTypes
  <2>5. CASE Crash
    BY <1>1, <2>5, CrashEffect
  <2>6. QED
    BY <2>1, <2>2, <2>3, <2>4, <2>5, CheckpointsCases DEF CheckpointsMove
<1>4. marked' \in SUBSET Turns /\ kept'.marked \subseteq marked'
  <2>1. CASE MarkComplete
    BY <1>1, <2>1 DEF MarkComplete, StoreTypes, PointInv, disk
  <2>2. CASE Crash
    BY <1>1, <2>2 DEF Crash, StoreTypes
  <2>3. CASE ~MarkComplete /\ ~Crash
    <3>1. marked' = marked /\ kept' = kept
      BY <2>3, StoreCases DEF store, tables, disk, StoreSteps, WriteCheckpoint, PruneOlder,
        AcceptInjection, ClearContinued, StoreTerminal, ClearTerminal, RecoverCheckpoint, DropRecovered
    <3>2. QED
      BY <1>1, <3>1 DEF StoreTypes
  <2>4. QED
    BY <2>1, <2>2, <2>3
<1>5. QED
  BY <1>2, <1>3, <1>4 DEF StoreTypes

\* The types of boot.
LEMMA BootStep ==
  ASSUME TypeInv, [Next]_vars
  PROVE  BootTypes'
<1>1. BootTypes /\ MaxIncidents \in Nat
  BY WordsType DEF TypeInv
<1>2. incidents' \in 0 .. MaxIncidents
  <2>1. Incident \/ incidents' = incidents
    BY DEF Next, vars, ClearCheckpoints, Say, End, SyncRelease, SyncAdopt, DaemonDies, StartTurn, Receive,
      WriteCheckpoint, PruneOlder, Acknowledge, AcceptInjection, ClearContinued, Finish,
      StoreTerminal, ClearTerminal, MarkComplete, AcknowledgeAll, Crash, Boot,
      RecoverCheckpoint, DropRecovered, Smooth
  <2>2. QED
    BY <1>1, <2>1 DEF BootTypes, Incident
<1>3. app' \in {"down", "recovering", "recovered", "up"} /\ listed' \in SUBSET Turns
  <2>1. CASE Crash \/ Boot \/ RecoverCheckpoint \/ DropRecovered
    BY <1>1, <2>1 DEF BootTypes, Crash, Boot, RecoverCheckpoint, DropRecovered, AfterFailedRecovery
  <2>2. CASE UNCHANGED boot
    BY <1>1, <2>2 DEF BootTypes, boot
  <2>3. QED
    BY <2>1, <2>2 DEF Next, vars, Say, End, SyncRelease, SyncAdopt, DaemonDies, StartTurn,
      Receive, WriteCheckpoint, PruneOlder, Acknowledge, AcceptInjection, ClearContinued, Finish,
      StoreTerminal, ClearTerminal, MarkComplete, AcknowledgeAll
<1>4. QED
  BY <1>2, <1>3 DEF BootTypes

\* The words from one to another are words of the turn.
LEMMA SpanType ==
  ASSUME NEW t \in Turns, NEW m \in Nat, NEW n \in Nat, n <= MaxWords
  PROVE  {Word(t, w) : w \in (m + 1) .. n} \subseteq Turns \X (1 .. MaxWords)
BY WordsType DEF Word

\* The words the daemon and the model count as given up are words of a turn, and
\* none is taken off the list.
LEMMA HistoryStep ==
  ASSUME TypeInv, [Next]_vars
  PROVE  HistoryTypes' /\ excused \subseteq excused' /\ replayed \subseteq replayed'
<1>1. /\ DaemonTypes /\ MemoryTypes /\ StoreTypes /\ BootTypes /\ HistoryTypes /\ PointInv
      /\ MemoryTypes' /\ StoreTypes'
  BY MemoryStep, StoreStep DEF TypeInv
<1> DEFINE all == Turns \X (1 .. MaxWords)
<1>2. \A t \in Turns : said[t] \in Nat /\ said[t] <= MaxWords /\ Words[t] \in Nat
                       /\ Words[t] <= MaxWords /\ acked[t] \in Nat
  BY <1>1, WordsType DEF DaemonTypes
<1>3. InCheckpoint \subseteq all
  <2>1. CASE Held
    BY <1>1, <2>1, LatestType, BoundsAssumption, WordsOfType
  <2>2. CASE ~Held
    BY <2>2 DEF InCheckpoint, Held
  <2>3. QED
    BY <2>1, <2>2
<1>4. at # "idle" => turn \in Turns /\ chunk \in Bodies /\ WordsOf(turn, chunk) \subseteq all
  BY <1>1, BoundsAssumption, WordsOfType DEF PointInv, MemoryTypes
<1> HIDE DEF all
<1>5. excused \subseteq excused' /\ excused' \subseteq all
  <2>1. CASE excused' = excused
    BY <1>1, <2>1 DEF HistoryTypes, all
  <2>2. CASE WriteCheckpoint /\ excused' # excused
    <3>1. /\ at = "flushing"
          /\ excused' = excused \cup WordsOf(turn, SubSeq(chunk, Cap + 1, Len(chunk))) \cup
               (IF checkpoints # <<>> /\ Latest.turn # turn THEN InCheckpoint ELSE {})
      BY <2>2 DEF WriteCheckpoint
    <3>2. chunk # <<>>
      BY <1>1, <3>1 DEF PointInv
    <3>3. WordsOf(turn, SubSeq(chunk, Cap + 1, Len(chunk))) \subseteq WordsOf(turn, chunk)
      BY <1>1, <3>2, BoundsAssumption, ClipEffect DEF MemoryTypes, Bodies, WordsOf
    <3>4. WordsOf(turn, SubSeq(chunk, Cap + 1, Len(chunk))) \subseteq all
      BY <1>4, <3>1, <3>3
    <3>5. excused \subseteq all
      BY <1>1 DEF HistoryTypes, all
    <3>6. QED
      BY <1>3, <3>1, <3>4, <3>5
  <2>3. ASSUME NEW t, ClearCheckpoints(t) PROVE excused \subseteq excused' /\ excused' \subseteq all
    BY <1>1, <1>3, <2>3 DEF ClearCheckpoints, HistoryTypes, all
  <2>4. CASE Finish /\ excused' # excused
    <3>1. /\ turn \in Turns /\ latest \in Nat
          /\ excused' = excused \cup {Word(turn, w) : w \in (latest + 1) .. Words[turn]}
      BY <1>1, <2>4, WordsType DEF Finish, PointInv, MemoryTypes
    <3>2. QED
      BY <1>1, <1>2, <3>1, SpanType DEF HistoryTypes, all
  <2>5. CASE StoreTerminal
    BY <1>1, <1>4, <2>5 DEF StoreTerminal, HistoryTypes, all
  <2>6. CASE RecoverCheckpoint
    BY <1>1, <1>3, <2>6 DEF RecoverCheckpoint, HistoryTypes, history, all
  <2>7. ASSUME NEW t \in Turns, SyncRelease(t) PROVE excused \subseteq excused' /\ excused' \subseteq all
    <3>1. excused' = excused \cup
            (IF t \in marked THEN {} ELSE {Word(t, w) : w \in (acked[t] + 1) .. said[t]})
      BY <2>7 DEF SyncRelease
    <3>2. {Word(t, w) : w \in (acked[t] + 1) .. said[t]} \subseteq all
      BY <1>2, SpanType DEF all
    <3>3. QED
      BY <1>1, <3>1, <3>2 DEF HistoryTypes, all
  <2>8. CASE Crash
    <3>1. InRows \subseteq all
      <4>1. ASSUME NEW i \in DOMAIN rows PROVE WordsOf(rows[i].turn, rows[i].body) \subseteq all
        <5>1. rows[i] \in RowType
          BY <1>1 DEF StoreTypes
        <5>2. rows[i].turn \in Turns /\ rows[i].body \in Bodies
          BY <5>1 DEF RowType
        <5>3. QED
          BY <5>2, BoundsAssumption, WordsOfType DEF all
      <4>2. QED
        BY <4>1 DEF InRows
    <3>2. excused' = excused \cup (Recoverable \ Recoverable')
      BY <2>8 DEF Crash
    <3>3. QED
      BY <1>1, <1>3, <3>1, <3>2 DEF Recoverable, HistoryTypes, all
  <2>9. QED
    BY <2>1, <2>2, <2>3, <2>4, <2>5, <2>6, <2>7, <2>8 DEF Next, vars, history, Say, End, SyncAdopt,
      DaemonDies, StartTurn, Receive, PruneOlder, Acknowledge, AcceptInjection, ClearContinued,
      ClearTerminal, MarkComplete, AcknowledgeAll, Boot, DropRecovered
<1>6. replayed \subseteq replayed' /\ replayed' \subseteq all
  <2>1. CASE replayed' = replayed
    BY <1>1, <2>1 DEF HistoryTypes, all
  <2>2. CASE Receive
    <3>1. /\ turn \in Turns /\ latest + 1 \in 1 .. MaxWords
          /\ replayed' = replayed \cup ({Word(turn, latest + 1)} \cap (InRows \cup InEarlier))
      BY <1>1, <1>2, <2>2, WordsType DEF Receive, PointInv, MemoryTypes
    <3>2. QED
      BY <1>1, <3>1 DEF HistoryTypes, Word, all
  <2>3. CASE RecoverCheckpoint
    BY <1>1, <1>3, <2>3 DEF RecoverCheckpoint, HistoryTypes, history, all
  <2>4. ASSUME NEW t \in Turns, SyncAdopt(t) PROVE replayed \subseteq replayed' /\ replayed' \subseteq all
    <3>1. replayed' = replayed \cup (WordsOf(t, chunk') \cap InRows)
      BY <2>4 DEF SyncAdopt
    <3>2. chunk' \in Bodies
      BY <1>1 DEF MemoryTypes
    <3>3. WordsOf(t, chunk') \subseteq all
      BY <3>2, BoundsAssumption, WordsOfType DEF all
    <3>4. QED
      BY <1>1, <3>1, <3>3 DEF HistoryTypes, all
  <2>5. QED
    BY <2>1, <2>2, <2>3, <2>4 DEF Next, vars, history, Say, End, SyncRelease, DaemonDies,
      StartTurn, WriteCheckpoint, PruneOlder, Acknowledge, AcceptInjection, ClearContinued, Finish,
      StoreTerminal, ClearTerminal, MarkComplete, AcknowledgeAll, Crash, Boot, DropRecovered
<1>7. QED
  BY <1>5, <1>6 DEF HistoryTypes, all

-----------------------------------------------------------------------------
\* How drive_run moves, and what it then holds.

\* It is where it was, or out of it, ...
Stays == UNCHANGED memory
Leaves == at' = "idle"
\* ... on its way with the reply at hand, ...
Carries ==
  /\ at \in Reading \ {"continued"} /\ at' \in Reading \ {"continued", "flushing"}
  /\ UNCHANGED <<turn, latest, chunk>> /\ stamp' \in {stamp, None}
  /\ at' = "pruning" => WriteCheckpoint /\ PutCheckpoints(Append(checkpoints, ChunkCheckpoint))
  /\ at' = "acking" => at = "pruning"
  /\ at' = "settling" => Finish
\* ... or just stored with a message's row, ...
Continues ==
  \/ AcceptInjection /\ at' = "continued" /\ rows' = Append(rows, ChunkRow)
     /\ at = "streaming" /\ chunk' = <<>> /\ UNCHANGED <<turn, latest>>
  \/ ClearContinued /\ at = "continued" /\ at' = "streaming"
     /\ UNCHANGED <<turn, latest, chunk, stamp>>
\* ... or past it.
Closes ==
  /\ at' \in Ending /\ turn' = turn
  /\ \/ at = "settling" /\ StoreTerminal
     \/ at = "stored" /\ at' = "marking"
     \/ at = "marking" /\ at' = "releasing"

\* Every step is one of these.
LEMMA Moves ==
  [Next]_vars =>
    \/ Stays \/ Leaves \/ Carries \/ Continues \/ Closes
    \/ StartTurn \/ Receive \/ \E t \in Turns : SyncAdopt(t)
<1> SUFFICES ASSUME [Next]_vars
    PROVE  \/ Stays \/ Leaves \/ Carries \/ Continues \/ Closes
           \/ StartTurn \/ Receive \/ \E t \in Turns : SyncAdopt(t)
  OBVIOUS
<1>1. CASE UNCHANGED memory
  BY <1>1 DEF Stays
<1>2. CASE WriteCheckpoint
  BY <1>2 DEF WriteCheckpoint, Carries, Reading, Go, ChunkCheckpoint
<1>3. CASE PruneOlder \/ Acknowledge
  BY <1>3 DEF PruneOlder, Acknowledge, AcknowledgeFrom, Carries, Reading, Go
<1>4. CASE AcceptInjection
  BY <1>4 DEF AcceptInjection, Carries, Continues, Reading, ChunkRow
<1>5. CASE ClearContinued
  BY <1>5 DEF ClearContinued, Continues, Go
<1>6. CASE Finish
  BY <1>6 DEF Finish, Carries, Reading
<1>7. CASE StoreTerminal
  BY <1>7 DEF StoreTerminal, Closes, Leaves, Past, AfterFailedInsert, Ending
<1>8. CASE ClearTerminal
  BY <1>8 DEF ClearTerminal, Closes, Go, Ending
<1>9. CASE MarkComplete \/ AcknowledgeAll \/ Crash
  BY <1>9 DEF MarkComplete, AcknowledgeAll, Crash, Closes, Leaves, Leave, Past, Go, Ending
<1>10. QED
  BY <1>1, <1>2, <1>3, <1>4, <1>5, <1>6, <1>7, <1>8, <1>9, MemoryCases DEF MemorySteps

\* The latest checkpoint is the one there was, or the chunk at hand, ...
Writes ==
  /\ WriteCheckpoint /\ at = "flushing" /\ at' = "pruning" /\ UNCHANGED <<turn, chunk, latest, stamp>>
  /\ rows' = rows /\ Latest' = ChunkCheckpoint
  /\ onDisk' = onDisk \cup {<<ChunkCheckpoint>>} /\ ChunkCheckpoint \in CheckpointType
\* ... or one a crash brings back.
LEMMA LatestStep ==
  ASSUME TypeInv, [Next]_vars
  PROVE  /\ Held' => \/ Held /\ Latest' = Latest
                     \/ Writes
                     \/ Crash /\ Latest' \in Seen
         /\ \A c \in Seen' : c \in Seen \/ (Writes /\ c = ChunkCheckpoint)
<1>1. StoreTypes /\ PointInv
  BY DEF TypeInv
<1>2. CASE UNCHANGED <<checkpoints, onDisk>>
  BY <1>2 DEF Held, Latest, Seen
<1>3. CASE /\ at = "flushing" /\ at' = "pruning" /\ WriteCheckpoint
           /\ PutCheckpoints(Append(checkpoints, ChunkCheckpoint))
  <2>1. ChunkCheckpoint \in CheckpointType
    BY <1>3, MadeTypes
  <2>2. Latest' = ChunkCheckpoint /\ onDisk' = onDisk \cup {<<ChunkCheckpoint>>}
    BY <1>1, <1>3, <2>1, CheckpointEffect
  <2>3. Writes
    BY <1>3, <2>1, <2>2 DEF Writes, WriteCheckpoint, Go
  <2>4. ASSUME NEW c \in Seen' PROVE c \in Seen \/ c = ChunkCheckpoint
    <3>1. c \in CheckpointType /\ <<c>> \in onDisk'
      BY DEF Seen
    <3>2. <<c>> \in onDisk \/ <<c>> = <<ChunkCheckpoint>>
      BY <2>2, <3>1
    <3>3. QED
      BY <3>1, <3>2 DEF Seen
  <2>5. QED
    BY <2>3, <2>4
<1>4. CASE at = "pruning" /\ PutCheckpoints(<<Latest>>)
  BY <1>1, <1>4, PruneEffect DEF PointInv, Seen
<1>5. ASSUME NEW t, Cleared(t) PROVE ~Held' /\ Seen' = Seen
  <2>1. ~Held' /\ onDisk' = onDisk \cup {<<>>}
    BY <1>5, ClearEffect
  <2>2. \A c : <<c>> # <<>>
    OBVIOUS
  <2>3. QED
    BY <2>1, <2>2 DEF Seen
<1>6. CASE Crash
  BY <1>1, <1>6, CrashEffect
<1>7. QED
  BY <1>2, <1>3, <1>4, <1>5, <1>6, CheckpointsCases DEF CheckpointsMove

\* Where a driver is, its turn has begun and the application runs.
LEMMA DrivenStep ==
  ASSUME TypeInv, [Next]_vars, at' # "idle"
  PROVE  turn' \in Turns /\ run'[turn'] # "none" /\ app' = "up"
<1>1. PointInv /\ DaemonTypes /\ MemoryTypes /\ StoreTypes /\ RunsGoOn
  BY DaemonStep DEF TypeInv
<1>2. app = "up" => app' = "up"
  BY DEF Next, vars, boot, Say, End, SyncRelease, SyncAdopt, DaemonDies, StartTurn, Receive,
    WriteCheckpoint, PruneOlder, Acknowledge, AcceptInjection, ClearContinued, Finish,
    StoreTerminal, ClearTerminal, MarkComplete, AcknowledgeAll, Crash, Boot, RecoverCheckpoint,
    DropRecovered, Leave, Past
<1>3. ASSUME at # "idle", turn' = turn PROVE turn' \in Turns /\ run'[turn'] # "none" /\ app' = "up"
  BY <1>1, <1>2, <1>3 DEF PointInv, RunsGoOn
<1>4. CASE StartTurn
  <2>1. PICK t \in Turns : /\ app = "up" /\ run' = [run EXCEPT ![t] = "live"]
                           /\ Enter(t, <<>>, 0, None)
    BY <1>4 DEF StartTurn
  <2>2. QED
    BY <1>1, <1>2, <2>1 DEF Enter, DaemonTypes
<1>5. ASSUME NEW t \in Turns, SyncAdopt(t) PROVE turn' \in Turns /\ run'[turn'] # "none" /\ app' = "up"
  <2>1. turn' = t /\ app = "up" /\ run[t] = "live"
    BY <1>5 DEF SyncAdopt, Enter
  <2>2. QED
    BY <1>1, <1>2, <2>1 DEF RunsGoOn
<1>6. CASE Stays
  BY <1>3, <1>6 DEF Stays, memory
<1>7. CASE Carries
  BY <1>3, <1>7 DEF Carries, Reading
<1>8. CASE Continues
  BY <1>3, <1>8 DEF Continues
<1>9. CASE Closes
  BY <1>3, <1>9 DEF Closes
<1>10. CASE Receive
  BY <1>3, <1>10 DEF Receive
<1>11. QED
  BY <1>4, <1>5, <1>6, <1>7, <1>8, <1>9, <1>10, Moves DEF Leaves

\* The places of drive_run.
LEMMA PointStep ==
  ASSUME TypeInv, [Next]_vars
  PROVE  PointInv'
<1>1. PointInv /\ DaemonTypes /\ MemoryTypes /\ StoreTypes /\ RunsGoOn /\ DaemonTypes'
  BY DaemonStep DEF TypeInv
<1>2. at' # "idle" => turn' \in Turns /\ run'[turn'] # "none" /\ app' = "up"
  BY DrivenStep
<1>3. \A t \in Turns : said[t] \in Nat /\ said'[t] \in Nat /\ acked[t] <= said[t] /\ acked[t] \in Nat
  BY <1>1, WordsType DEF DaemonTypes
<1>4. latest \in Nat
  BY <1>1, WordsType DEF MemoryTypes
<1>5. \A c \in Seen' : run'[c.turn] # "none" /\ c.seq <= said'[c.turn]
  <2>1. ASSUME NEW c \in Seen PROVE run'[c.turn] # "none" /\ c.seq <= said'[c.turn]
    <3>1. c.turn \in Turns /\ c.seq \in Nat
      BY <1>1, SeenType
    <3>2. QED
      BY <1>1, <1>3, <3>1 DEF PointInv, RunsGoOn
  <2>2. ASSUME Writes PROVE run'[ChunkCheckpoint.turn] # "none" /\ ChunkCheckpoint.seq <= said'[ChunkCheckpoint.turn]
    <3>1. /\ turn \in Turns /\ run[turn] # "none" /\ latest <= said[turn]
          /\ ChunkCheckpoint.turn = turn /\ ChunkCheckpoint.seq = latest
      BY <1>1, <2>2 DEF Writes, PointInv, Reading, ChunkCheckpoint
    <3>2. QED
      BY <1>1, <1>3, <1>4, <3>1 DEF RunsGoOn
  <2>3. QED
    BY <2>1, <2>2, LatestStep
<1>6. at' \in Reading => latest' <= said'[turn']
  <2>1. SUFFICES ASSUME at' \in Reading PROVE latest' <= said'[turn']
    OBVIOUS
  <2>2. ASSUME at \in Reading, UNCHANGED <<turn, latest>> PROVE latest' <= said'[turn']
    <3>1. turn \in Turns /\ run[turn] # "none" /\ latest <= said[turn]
      BY <1>1, <2>2 DEF PointInv, Reading
    <3>2. QED
      BY <1>1, <1>3, <1>4, <2>2, <3>1 DEF RunsGoOn
  <2>3. CASE StartTurn
    BY <1>2, <1>3, <2>1, <2>3 DEF StartTurn, Enter, Reading
  <2>4. ASSUME NEW t \in Turns, SyncAdopt(t) PROVE latest' <= said'[turn']
    <3>1. said' = said
      BY <2>4 DEF SyncAdopt, daemon
    <3>2. CASE Held /\ Latest.turn = t
      BY <1>1, <2>4, <3>1, <3>2, LatestType DEF SyncAdopt, Enter, Held, PointInv
    <3>3. CASE ~(Held /\ Latest.turn = t)
      BY <1>3, <2>4, <3>1, <3>3 DEF SyncAdopt, Enter, Held
    <3>4. QED
      BY <3>2, <3>3
  <2>5. CASE Receive
    BY <2>5 DEF Receive, daemon
  <2>6. CASE Stays
    BY <2>1, <2>2, <2>6 DEF Stays, memory
  <2>7. CASE Carries
    BY <2>2, <2>7 DEF Carries
  <2>8. CASE Continues
    BY <2>2, <2>8 DEF Continues, Reading
  <2>9. CASE Closes \/ Leaves
    BY <2>1, <2>9 DEF Closes, Leaves, Ending, Reading
  <2>10. QED
    BY <2>3, <2>4, <2>5, <2>6, <2>7, <2>8, <2>9, Moves
<1>7. at' = "flushing" => chunk' # <<>>
  <2>1. SUFFICES ASSUME at' = "flushing" PROVE chunk' # <<>>
    OBVIOUS
  <2>2. CASE Receive
    <3>1. /\ chunk' = Append(chunk, latest + 1) /\ chunk \in Seq(Nat) /\ latest + 1 \in Nat
      BY <1>1, <1>4, <2>2, WordsType DEF Receive, MemoryTypes, Bodies
    <3>2. QED
      BY <3>1, AppendWord
  <2>3. CASE Stays
    BY <1>1, <2>1, <2>3 DEF Stays, memory, PointInv
  <2>4. QED
    BY <2>1, <2>2, <2>3, Moves DEF Carries, Continues, Closes, Leaves, Ending, StartTurn, SyncAdopt,
      Enter
<1>8. at' = "continued" => chunk' = <<>>
  <2>1. CASE Stays
    BY <1>1, <2>1 DEF Stays, memory, PointInv
  <2>2. QED
    BY <2>1, Moves DEF Carries, Continues, Closes, Leaves, Ending, StartTurn, SyncAdopt, Enter, Receive
<1>9. at' \in {"pruning", "acking"} => Held' /\ Latest'.turn = turn' /\ Latest'.seq = latest'
  <2>1. SUFFICES ASSUME at' \in {"pruning", "acking"}
        PROVE  Held' /\ Latest'.turn = turn' /\ Latest'.seq = latest'
    OBVIOUS
  <2>2. CASE Stays
    <3>1. at \in {"pruning", "acking"} /\ at' = at /\ UNCHANGED <<turn, latest>>
      BY <2>1, <2>2 DEF Stays, memory
    <3>2. checkpoints' = checkpoints \/ PutCheckpoints(<<Latest>>)
      BY <1>1, <3>1, CheckpointsCases DEF CheckpointsMove, PointInv, Crash, Leave, Past
    <3>3. Held' /\ Latest' = Latest
      <4>1. CASE checkpoints' = checkpoints
        BY <1>1, <3>1, <4>1 DEF PointInv, Held, Latest
      <4>2. CASE PutCheckpoints(<<Latest>>)
        BY <1>1, <3>1, <4>2, PruneEffect DEF PointInv
      <4>3. QED
        BY <3>2, <4>1, <4>2
    <3>4. QED
      BY <1>1, <3>1, <3>3 DEF PointInv
  <2>3. CASE Carries
    <3>1. CASE at' = "pruning"
      <4>1. at = "flushing" /\ PutCheckpoints(Append(checkpoints, ChunkCheckpoint))
            /\ UNCHANGED <<turn, latest>>
        BY <2>3, <3>1 DEF Carries, WriteCheckpoint
      <4>2. Held' /\ Latest' = ChunkCheckpoint
        BY <1>1, <4>1, MadeTypes, CheckpointEffect
      <4>3. QED
        BY <4>1, <4>2 DEF ChunkCheckpoint
    <3>2. CASE at' = "acking"
      <4>1. at = "pruning" /\ UNCHANGED <<turn, latest>>
        BY <2>3, <3>2 DEF Carries
      <4>2. checkpoints' = checkpoints \/ PutCheckpoints(<<Latest>>)
        BY <1>1, <3>2, <4>1, CheckpointsCases DEF CheckpointsMove, PointInv, Crash, Leave, Past
      <4>3. Held' /\ Latest' = Latest
        <5>1. CASE checkpoints' = checkpoints
          BY <1>1, <4>1, <5>1 DEF PointInv, Held, Latest
        <5>2. CASE PutCheckpoints(<<Latest>>)
          BY <1>1, <4>1, <5>2, PruneEffect DEF PointInv
        <5>3. QED
          BY <4>2, <5>1, <5>2
      <4>4. QED
        BY <1>1, <4>1, <4>3 DEF PointInv
    <3>3. QED
      BY <2>1, <3>1, <3>2
  <2>4. QED
    BY <2>1, <2>2, <2>3, Moves DEF Continues, Closes, Leaves, Ending, StartTurn, SyncAdopt, Enter, Receive
<1>10. app' = "recovered" => Held'
  <2>1. SUFFICES ASSUME app' = "recovered" PROVE Held'
    OBVIOUS
  <2>2. CASE RecoverCheckpoint
    BY <2>1, <2>2 DEF RecoverCheckpoint, Held, AfterFailedRecovery
  <2>3. CASE ~RecoverCheckpoint
    <3>1. app = "recovered" /\ ~DropRecovered
      BY <2>1, <2>3 DEF Next, vars, boot, Say, End, SyncRelease, SyncAdopt, DaemonDies, StartTurn,
        Receive, WriteCheckpoint, PruneOlder, Acknowledge, AcceptInjection, ClearContinued, Finish,
        StoreTerminal, ClearTerminal, MarkComplete, AcknowledgeAll, Crash, Boot, DropRecovered
    <3>2. Held /\ at = "idle"
      BY <1>1, <3>1 DEF PointInv
    <3>3. checkpoints' = checkpoints
      BY <2>1, <2>3, <3>1, <3>2, StoreCases DEF store, tables, disk, Crash, StoreSteps, WriteCheckpoint, PruneOlder,
        AcceptInjection, ClearContinued, StoreTerminal, ClearTerminal, MarkComplete
    <3>4. QED
      BY <3>2, <3>3 DEF Held
  <2>4. QED
    BY <2>2, <2>3
<1>11. QED
  BY <1>2, <1>5, <1>6, <1>7, <1>8, <1>9, <1>10 DEF PointInv

\* The types, all of them.
LEMMA TypeStep ==
  ASSUME TypeInv, [Next]_vars
  PROVE  TypeInv'
BY DaemonStep, MemoryStep, StoreStep, BootStep, HistoryStep, PointStep DEF TypeInv

-----------------------------------------------------------------------------
\* Nothing that a boot could recover gets lost.

\* What is somewhere is there afterwards.
Grows ==
  /\ Crash \/ InRows \subseteq InRows'
  /\ excused \subseteq excused' /\ replayed \subseteq replayed'
  /\ Recoverable \subseteq Recoverable' \cup excused'

\* The latest checkpoint of a turn has no words the driver has not read.
LEMMA LatestIsRead ==
  ASSUME TypeInv, LatestInv, ReadInv, at \in Reading, Held, Latest.turn = turn
  PROVE  InCheckpoint \subseteq InRows \cup WordsOf(turn, chunk) \cup excused
<1>1. Latest.seq \in Nat /\ latest \in Nat /\ Latest.seq <= latest /\ Latest.body \in Bodies
      /\ Latest \in Seen /\ InCheckpoint = WordsOf(turn, Latest.body)
  BY LatestType, WordsType DEF TypeInv, ReadInv, MemoryTypes
<1>2. \A w \in ToSet(Latest.body) : w \in 1 .. latest
  <2>1. \A w \in ToSet(Latest.body) : w \in 1 .. MaxWords /\ w <= Latest.seq
    BY <1>1, ToSetType DEF Bodies, LatestInv
  <2>2. QED
    BY <1>1, <2>1, WordsType
<1>3. \A w \in ToSet(Latest.body) : Word(turn, w) \in InRows \cup WordsOf(turn, chunk) \cup excused
  BY <1>2 DEF ReadInv, Covers
<1>4. QED
  BY <1>1, <1>3 DEF WordsOf

\* A step keeps what a boot could recover.
LEMMA GrowStep ==
  ASSUME TypeInv, LatestInv, ReadInv, GoingInv, [Next]_vars
  PROVE  Grows
<1>1. /\ StoreTypes /\ HistoryTypes /\ MemoryTypes /\ PointInv
      /\ excused \subseteq excused' /\ replayed \subseteq replayed'
  BY HistoryStep DEF TypeInv
<1>2. CASE Crash
  BY <1>1, <1>2 DEF Crash, Grows
<1>3. ASSUME ~Crash PROVE InRows \subseteq InRows'
  <2>1. CASE rows' = rows
    BY <2>1 DEF InRows
  <2>2. ASSUME NEW r \in RowType, rows' = Append(rows, r) PROVE InRows \subseteq InRows'
    BY <1>1, <2>2, RowsEffect DEF StoreTypes
  <2>3. QED
    BY <1>1, <1>3, <2>1, <2>2, RowsCases, MadeTypes DEF RowsGrow, Cut
<1>4. ASSUME ~Crash PROVE InCheckpoint \subseteq Recoverable' \cup excused'
  <2>1. CASE ~Held
    BY <2>1 DEF Held, InCheckpoint
  <2>2. CASE checkpoints' = checkpoints
    BY <2>2 DEF InCheckpoint, Latest, Recoverable
  <2>3. CASE /\ Held /\ at = "flushing" /\ at' = "pruning" /\ WriteCheckpoint
             /\ PutCheckpoints(Append(checkpoints, ChunkCheckpoint))
    <3>1. /\ excused' = excused \cup WordsOf(turn, SubSeq(chunk, Cap + 1, Len(chunk))) \cup
               (IF checkpoints # <<>> /\ Latest.turn # turn THEN InCheckpoint ELSE {})
          /\ rows' = rows
      BY <2>3 DEF WriteCheckpoint, Go
    <3>2. InCheckpoint' = WordsOf(turn, Clip(chunk))
      BY <1>1, <2>3, MadeTypes, CheckpointEffect DEF ChunkCheckpoint
    <3>3. CASE Latest.turn # turn
      BY <2>3, <3>1, <3>3 DEF Held
    <3>4. CASE Latest.turn = turn
      <4>1. InCheckpoint \subseteq InRows \cup WordsOf(turn, chunk) \cup excused
        BY <2>3, <3>4, LatestIsRead DEF Reading
      <4>2. WordsOf(turn, chunk) \subseteq InCheckpoint' \cup excused'
        <5>1. ToSet(chunk) \subseteq ToSet(Clip(chunk)) \cup ToSet(SubSeq(chunk, Cap + 1, Len(chunk)))
          BY <1>1, <2>3, BoundsAssumption, ClipEffect DEF MemoryTypes, Bodies, PointInv
        <5>2. QED
          BY <3>1, <3>2, <5>1 DEF WordsOf
      <4>3. QED
        BY <1>1, <1>3, <1>4, <4>1, <4>2 DEF Recoverable
    <3>5. QED
      BY <3>3, <3>4
  <2>4. CASE Held /\ PutCheckpoints(<<Latest>>)
    BY <1>1, <2>4, PruneEffect DEF Recoverable
  <2>5. CASE Held /\ at \in {"continued", "stored"} /\ Cleared(turn)
    <3>1. Latest.turn # turn => InCheckpoint \subseteq InRows \cup excused'
      BY <2>5, ClearEffect
    <3>2. ASSUME Latest.turn = turn, at = "continued" PROVE InCheckpoint \subseteq InRows \cup excused
      <4>1. InCheckpoint \subseteq InRows \cup WordsOf(turn, chunk) \cup excused
        BY <2>5, <3>2, LatestIsRead DEF Reading
      <4>2. WordsOf(turn, chunk) = {}
        BY <1>1, <3>2 DEF PointInv, WordsOf, ToSet
      <4>3. QED
        BY <4>1, <4>2
    <3>3. Latest.turn = turn /\ at = "stored" => InCheckpoint \subseteq InRows \cup excused
      BY <2>5 DEF GoingInv
    <3>4. QED
      BY <1>1, <1>3, <1>4, <2>5, <3>1, <3>2, <3>3 DEF Recoverable
  <2>6. CASE app = "recovered"
    BY <1>1, <1>3, <1>4, <2>6 DEF GoingInv, Recoverable
  <2>7. QED
    BY <1>4, <2>1, <2>2, <2>3, <2>4, <2>5, <2>6, CheckpointsCases DEF CheckpointsMove
<1>5. QED
  BY <1>1, <1>2, <1>3, <1>4 DEF Grows, Recoverable

\* A crash is the end of the driver and of the application.
LEMMA CrashLeaves == Crash => at' = "idle" /\ app' = "down"
BY DEF Crash, Leave, Past

\* What is whole stays whole.
LEMMA WholeStays ==
  ASSUME Grows, RunsGoOn, DaemonTypes, DaemonTypes', NEW t \in Turns, run[t] # "none", Whole(t)
  PROVE  Whole(t)'
<1>1. Due(t) \in Nat /\ Due(t)' \in Nat /\ Due(t)' <= Due(t)
  BY WordsType DEF DaemonTypes, Due, RunsGoOn
<1>2. \A w \in 1 .. Due(t)' : Word(t, w) \in Recoverable \cup excused
  BY <1>1 DEF Whole
<1>3. QED
  BY <1>2 DEF Grows, Whole

\* A checkpoint stands for the words up to its sequence.
LEMMA LatestInvStep ==
  ASSUME TypeInv, LatestInv, ReadInv, Grows, [Next]_vars
  PROVE  LatestInv'
<1>1. SUFFICES ASSUME NEW c \in Seen'
      PROVE  /\ \A w \in ToSet(c.body) : w <= c.seq
             /\ \A w \in 1 .. c.seq :
                  Word(c.turn, w) \in InRows' \cup WordsOf(c.turn, c.body) \cup excused'
             /\ Len(c.body) <= Cap
  BY DEF LatestInv, Covers
<1>2. StoreTypes
  BY DEF TypeInv
<1>3. CASE c \in Seen
  <2>1. /\ \A w \in ToSet(c.body) : w <= c.seq
        /\ \A w \in 1 .. c.seq :
             Word(c.turn, w) \in InRows \cup WordsOf(c.turn, c.body) \cup excused
        /\ Len(c.body) <= Cap
    BY <1>3 DEF LatestInv, Covers
  <2>2. CASE ~Crash
    BY <2>1, <2>2 DEF Grows
  <2>3. CASE Crash
    <3>1. Held' /\ Seen' = {Latest'} /\ InCheckpoint' = WordsOf(Latest'.turn, Latest'.body)
      BY <1>1, <1>2, <2>3, CrashEffect
    <3>2. InCheckpoint' = WordsOf(c.turn, c.body)
      BY <1>1, <3>1
    <3>3. InRows \subseteq InRows' \cup WordsOf(c.turn, c.body) \cup excused'
      BY <3>2 DEF Grows, Recoverable
    <3>4. excused \subseteq excused'
      BY DEF Grows
    <3>5. QED
      BY <2>1, <3>3, <3>4
  <2>4. QED
    BY <2>2, <2>3
<1>4. CASE Writes /\ c = ChunkCheckpoint
  <2>1. /\ excused' = excused \cup WordsOf(turn, SubSeq(chunk, Cap + 1, Len(chunk))) \cup
             (IF checkpoints # <<>> /\ Latest.turn # turn THEN InCheckpoint ELSE {})
        /\ at = "flushing" /\ at' = "pruning"
        /\ c.turn = turn /\ c.body = Clip(chunk) /\ c.seq = latest
    BY <1>4 DEF Writes, WriteCheckpoint, Go, ChunkCheckpoint
  <2>2. chunk \in Bodies /\ chunk # <<>>
    BY <2>1 DEF TypeInv, MemoryTypes, PointInv
  <2>3. /\ ToSet(Clip(chunk)) \subseteq ToSet(chunk)
        /\ ToSet(chunk) \subseteq ToSet(Clip(chunk)) \cup ToSet(SubSeq(chunk, Cap + 1, Len(chunk)))
    BY <2>2, BoundsAssumption, ClipEffect DEF Bodies
  <2>4. /\ \A w \in ToSet(chunk) : w <= latest
        /\ \A w \in 1 .. latest : Word(turn, w) \in InRows \cup WordsOf(turn, chunk) \cup excused
    BY <2>1 DEF ReadInv, Reading, Covers
  <2>5. WordsOf(turn, chunk) \subseteq WordsOf(turn, Clip(chunk)) \cup excused'
    BY <2>1, <2>3 DEF WordsOf
  <2>6. Len(Clip(chunk)) <= Cap
    BY <2>2, BoundsAssumption, ClipLength DEF Bodies
  <2>7. InRows \subseteq InRows' /\ excused \subseteq excused'
    BY <2>1, CrashLeaves DEF Grows
  <2>8. QED
    BY <2>1, <2>3, <2>4, <2>5, <2>6, <2>7
<1>5. QED
  BY <1>1, <1>3, <1>4, LatestStep

\* So does what the driver has read.
LEMMA ReadInvStep ==
  ASSUME TypeInv, LatestInv, ReadInv, AckedIsKept, Grows, [Next]_vars
  PROVE  ReadInv'
<1>1. /\ DaemonTypes /\ MemoryTypes /\ StoreTypes /\ PointInv /\ PointInv'
      /\ latest \in Nat /\ chunk \in Seq(Nat)
  BY PointStep, WordsType DEF TypeInv, MemoryTypes, Bodies
<1> DEFINE Ahead == \A w \in ToSet(chunk') : w <= latest'
           Covered == \A w \in 1 .. latest' :
                        Word(turn', w) \in InRows' \cup WordsOf(turn', chunk') \cup excused'
           Behind == Held' /\ Latest'.turn = turn' => Latest'.seq <= latest'
<1>2. SUFFICES ASSUME at' \in Reading PROVE Ahead /\ Covered /\ Behind
  BY DEF ReadInv, Covers
<1>3. at \in Reading =>
        /\ \A w \in ToSet(chunk) : w <= latest
        /\ \A w \in 1 .. latest : Word(turn, w) \in InRows \cup WordsOf(turn, chunk) \cup excused
        /\ Held /\ Latest.turn = turn => Latest.seq <= latest
  BY DEF ReadInv, Covers
<1> ~Crash /\ InRows \subseteq InRows' /\ excused \subseteq excused'
  BY <1>2, CrashLeaves DEF Grows, Reading
<1>4. ASSUME at \in Reading, UNCHANGED <<turn, latest>> PROVE Behind
  <2>1. SUFFICES ASSUME Held', Latest'.turn = turn' PROVE Latest'.seq <= latest'
    OBVIOUS
  <2>2. CASE Held /\ Latest' = Latest
    BY <1>3, <1>4, <2>1, <2>2
  <2>3. CASE Writes
    BY <1>1, <2>3 DEF Writes, ChunkCheckpoint
  <2>4. QED
    BY <2>1, <2>2, <2>3, LatestStep
<1>5. ASSUME at \in Reading, UNCHANGED <<turn, latest, chunk>> PROVE Ahead /\ Covered /\ Behind
  BY <1>3, <1>4, <1>5 DEF Grows
<1>6. CASE Stays
  BY <1>2, <1>5, <1>6 DEF Stays, memory
<1>7. CASE Carries
  BY <1>5, <1>7 DEF Carries
<1>8. CASE Continues
  <2>1. CASE ClearContinued /\ at = "continued" /\ UNCHANGED <<turn, latest, chunk, stamp>>
    BY <1>5, <2>1 DEF Reading
  <2>2. CASE /\ AcceptInjection /\ at = "streaming" /\ rows' = Append(rows, ChunkRow)
             /\ chunk' = <<>> /\ UNCHANGED <<turn, latest>>
    <3>1. at \in Reading /\ at # "idle"
      BY <2>2 DEF Reading
    <3>2. WordsOf(turn, chunk) \subseteq InRows'
      BY <1>1, <2>2, <3>1, MadeTypes, RowsEffect DEF ChunkRow, StoreTypes
    <3>3. Ahead
      BY <2>2 DEF ToSet
    <3>4. QED
      BY <1>3, <1>4, <2>2, <3>1, <3>2, <3>3 DEF Grows
  <2>3. QED
    BY <1>8, <2>1, <2>2 DEF Continues
<1>9. CASE Receive
  <2>1. /\ at \in Reading /\ turn' = turn /\ latest' = latest + 1 /\ chunk' = Append(chunk, latest + 1)
        /\ UNCHANGED store
    BY <1>9 DEF Receive, Reading
  <2>2. ToSet(chunk') = ToSet(chunk) \cup {latest + 1}
    BY <1>1, <2>1, AppendWord
  <2>3. Ahead
    <3>1. ASSUME NEW w \in ToSet(chunk) PROVE w <= latest + 1
      <4>1. w \in Nat /\ w <= latest
        BY <1>1, <1>3, <2>1, ToSetType
      <4>2. QED
        BY <1>1, <4>1
    <3>2. QED
      BY <1>1, <2>1, <2>2, <3>1
  <2>4. Covered
    <3>1. WordsOf(turn, chunk') = WordsOf(turn, chunk) \cup {Word(turn, latest + 1)}
      BY <2>2 DEF WordsOf
    <3>2. \A w \in 1 .. latest' : w \in 1 .. latest \/ w = latest + 1
      BY <1>1, <2>1
    <3>3. QED
      BY <1>3, <2>1, <3>1, <3>2 DEF Grows
  <2>5. Behind
    <3>1. SUFFICES ASSUME Held', Latest'.turn = turn' PROVE Latest'.seq <= latest'
      OBVIOUS
    <3>2. Held /\ Latest' = Latest
      BY <2>1, <3>1 DEF store, tables, disk, Held, Latest
    <3>3. Latest.seq \in Nat /\ Latest.seq <= latest
      BY <1>1, <1>3, <2>1, <3>1, <3>2, LatestType
    <3>4. QED
      BY <1>1, <2>1, <3>2, <3>3
  <2>6. QED
    BY <2>3, <2>4, <2>5
<1>10. CASE StartTurn
  <2>1. /\ run[turn'] = "none" /\ chunk' = <<>> /\ latest' = 0 /\ checkpoints' = checkpoints
    BY <1>10 DEF StartTurn, Enter, store, tables, disk
  <2>2. Ahead /\ Covered
    BY <2>1 DEF ToSet
  <2>3. Behind
    <3>1. Held' => Held /\ Latest' = Latest
      BY <2>1 DEF Held, Latest
    <3>2. Held => run[Latest.turn] # "none"
      BY <1>1, LatestType DEF PointInv
    <3>3. QED
      BY <2>1, <3>1, <3>2
  <2>4. QED
    BY <2>2, <2>3
<1>11. ASSUME NEW t \in Turns, SyncAdopt(t) PROVE Ahead /\ Covered /\ Behind
  <2>1. turn' = t /\ UNCHANGED <<store, excused>> /\ Held' = Held /\ Latest' = Latest
        /\ InRows' = InRows
    BY <1>11 DEF SyncAdopt, Enter, store, tables, disk, Held, Latest, InRows
  <2>2. CASE Held /\ Latest.turn = t
    <3>1. chunk' = Latest.body /\ latest' = Latest.seq /\ Latest.seq \in Nat /\ Latest \in Seen
      BY <1>1, <1>11, <2>2, LatestType DEF SyncAdopt, Enter, Held
    <3>2. QED
      BY <2>1, <2>2, <3>1 DEF LatestInv, Covers
  <2>3. CASE ~(Held /\ Latest.turn = t)
    <3>1. chunk' = <<>> /\ latest' = acked[t]
      BY <1>11, <2>3 DEF SyncAdopt, Enter, Held
    <3>2. Ahead /\ Behind
      BY <2>1, <2>3, <3>1 DEF ToSet
    <3>3. ASSUME NEW w \in 1 .. acked[t] PROVE Word(t, w) \in InRows \cup excused
      <4>1. Word(t, w) \in InRows \cup InCheckpoint \cup excused
        BY <3>3 DEF AckedIsKept, Recoverable
      <4>2. Word(t, w) \notin InCheckpoint
        BY <2>3 DEF InCheckpoint, Held, WordsOf, Word
      <4>3. QED
        BY <4>1, <4>2
    <3>4. QED
      BY <2>1, <3>1, <3>2, <3>3
  <2>4. QED
    BY <2>2, <2>3
<1>12. CASE Closes \/ Leaves
  BY <1>2, <1>12 DEF Closes, Leaves, Ending, Reading
<1>13. QED
  BY <1>6, <1>7, <1>8, <1>9, <1>10, <1>11, <1>12, Moves

\* A turn that has ended, or is marked, has all of its words somewhere.
LEMMA TailInvStep ==
  ASSUME TypeInv, LatestInv, ReadInv, TailInv, Grows, [Next]_vars
  PROVE  TailInv'
<1>1. /\ DaemonTypes /\ MemoryTypes /\ StoreTypes /\ PointInv /\ RunsGoOn /\ DaemonTypes' /\ PointInv'
      /\ latest \in Nat
  BY DaemonStep, PointStep, WordsType DEF TypeInv, MemoryTypes
<1>2. \A t \in Turns : /\ said[t] \in Nat /\ Words[t] \in Nat /\ said[t] <= Words[t]
                       /\ Due(t) \in Nat /\ Due(t)' \in Nat /\ Due(t) <= Words[t]
  BY <1>1, WordsType DEF DaemonTypes, Due
<1>3. at' = "settling" =>
        \A w \in 1 .. Due(turn)' : Word(turn', w) \in InRows' \cup WordsOf(turn', chunk') \cup excused'
  <2>1. SUFFICES ASSUME at' = "settling"
        PROVE  \A w \in 1 .. Due(turn)' : Word(turn', w) \in InRows' \cup WordsOf(turn', chunk') \cup excused'
    OBVIOUS
  <2> InRows \subseteq InRows' /\ excused \subseteq excused'
    BY <2>1, CrashLeaves DEF Grows
  <2>2. CASE Stays
    <3>1. at = "settling" /\ UNCHANGED <<turn, chunk>> /\ turn \in Turns /\ run[turn] # "none"
      BY <1>1, <2>1, <2>2 DEF Stays, memory, PointInv
    <3>2. Due(turn)' \in Nat /\ Due(turn) \in Nat /\ Due(turn)' <= Due(turn)
      BY <1>1, <1>2, <3>1 DEF RunsGoOn, Due
    <3>3. \A w \in 1 .. Due(turn) : Word(turn, w) \in InRows \cup WordsOf(turn, chunk) \cup excused
      BY <3>1 DEF TailInv, Covers
    <3>4. QED
      BY <3>1, <3>2, <3>3 DEF Grows
  <2>3. CASE Finish
    <3>1. /\ UNCHANGED <<turn, chunk, said>> /\ turn \in Turns
          /\ \A w \in 1 .. latest : Word(turn, w) \in InRows \cup WordsOf(turn, chunk) \cup excused
      BY <1>1, <2>3 DEF Finish, PointInv, ReadInv, Reading, Covers
    <3>2. Due(turn)' \in Nat /\ Due(turn)' = IF run'[turn] = "live" THEN Words[turn] ELSE said[turn]
      BY <1>2, <3>1 DEF Due
    <3>3. CASE run[turn] = "ended" /\ latest >= said[turn] /\ run' = run
      BY <1>1, <1>2, <3>1, <3>2, <3>3 DEF Grows
    <3>4. CASE excused' = excused \cup {Word(turn, w) : w \in (latest + 1) .. Words[turn]}
      <4>1. Due(turn)' <= Words[turn]
        BY <1>2, <3>1, <3>2
      <4>2. \A w \in 1 .. Due(turn)' : w \in 1 .. latest \/ w \in (latest + 1) .. Words[turn]
        BY <1>1, <1>2, <3>1, <3>2, <4>1
      <4>3. \A w \in (latest + 1) .. Words[turn] : Word(turn, w) \in excused'
        BY <3>4
      <4>4. QED
        BY <3>1, <4>2, <4>3 DEF Grows
    <3>5. QED
      BY <2>3, <3>3, <3>4 DEF Finish
  <2>4. QED
    BY <2>1, <2>2, <2>3, Moves DEF Leaves, Carries, Continues, Closes, Ending, StartTurn, SyncAdopt,
      Receive, Enter
<1> DEFINE WholeThen(t) == \A w \in 1 .. Due(t)' : Word(t, w) \in Recoverable' \cup excused'
<1>4. ASSUME NEW t \in Turns, run[t] # "none", Whole(t) PROVE WholeThen(t)
  BY <1>1, <1>4, WholeStays DEF Whole
<1>5. at' \in Ending => Whole(turn)'
  <2>1. SUFFICES ASSUME at' \in Ending PROVE Whole(turn)'
    OBVIOUS
  <2>2. ASSUME at \in Ending, turn' = turn PROVE Whole(turn)'
    <3>1. turn \in Turns /\ run[turn] # "none" /\ Whole(turn)
      BY <1>1, <2>2 DEF PointInv, Ending, TailInv
    <3>2. PICK t \in Turns : t = turn
      BY <3>1
    <3>3. WholeThen(t)
      BY <1>4, <3>1, <3>2
    <3>4. QED
      BY <2>2, <3>2, <3>3 DEF Whole, Due
  <2>3. CASE at = "settling" /\ StoreTerminal /\ turn' = turn
    <3>1. /\ turn \in Turns /\ run[turn] # "none" /\ chunk \in Bodies
          /\ \A w \in 1 .. Due(turn) : Word(turn, w) \in InRows \cup WordsOf(turn, chunk) \cup excused
      BY <1>1, <2>3 DEF PointInv, TailInv, Covers, MemoryTypes
    <3>2. WordsOf(turn, chunk) \subseteq InRows' \cup InCheckpoint \cup excused'
      <4>1. CASE chunk = <<>>
        BY <4>1 DEF WordsOf, ToSet
      <4>2. CASE chunk # <<>> /\ at' = "stored"
        <5>1. rows' = Append(rows, ChunkRow)
          BY <2>3, <4>2 DEF StoreTerminal, Past, ChunkRow, AfterFailedInsert
        <5>2. QED
          BY <1>1, <2>3, <5>1, MadeTypes, RowsEffect DEF ChunkRow, StoreTypes
      <4>3. CASE at' # "stored"
        BY <2>1, <2>3, <4>3 DEF StoreTerminal, Past, AfterFailedInsert, Ending
      <4>4. QED
        BY <4>1, <4>2, <4>3
    <3>3. \A w \in 1 .. Due(turn) : Word(turn, w) \in Recoverable' \cup excused'
      BY <3>1, <3>2 DEF Grows, Recoverable
    <3>4. Due(turn)' \in Nat /\ Due(turn) \in Nat /\ Due(turn)' <= Due(turn)
      BY <1>1, <1>2, <2>3, <3>1 DEF RunsGoOn, Due
    <3>5. QED
      BY <2>3, <3>3, <3>4 DEF Whole
  <2>4. CASE Stays
    BY <2>1, <2>2, <2>4 DEF Stays, memory
  <2>5. CASE Closes
    BY <2>2, <2>3, <2>5 DEF Closes, Ending
  <2>6. QED
    BY <2>1, <2>4, <2>5, Moves DEF Leaves, Carries, Continues, Ending, Reading, StartTurn, SyncAdopt,
      Receive, Enter
<1>6. \A t \in marked' : run'[t] # "none" /\ WholeThen(t)
  <2>1. SUFFICES ASSUME NEW t \in marked' PROVE run'[t] # "none" /\ WholeThen(t)
    OBVIOUS
  <2>2. CASE t \in marked
    <3>1. t \in Turns /\ run[t] # "none" /\ Whole(t)
      BY <1>1, <2>2 DEF TailInv, StoreTypes
    <3>2. QED
      BY <1>1, <1>4, <3>1 DEF RunsGoOn
  <2>3. CASE t \notin marked
    <3>1. MarkComplete
      BY <2>1, <2>3, StoreCases DEF store, tables, disk, Crash, StoreSteps, WriteCheckpoint, PruneOlder, AcceptInjection,
        ClearContinued, StoreTerminal, ClearTerminal, RecoverCheckpoint, DropRecovered
    <3>2. t = turn /\ at = "marking"
      BY <2>1, <2>3, <3>1 DEF MarkComplete
    <3>3. t \in Turns /\ run[t] # "none" /\ Whole(t)
      BY <1>1, <3>2 DEF TailInv, PointInv, Ending
    <3>4. QED
      BY <1>1, <1>4, <3>3 DEF RunsGoOn
  <2>4. QED
    BY <2>2, <2>3
<1>7. QED
  BY <1>3, <1>5, <1>6 DEF TailInv, Covers, Whole

\* A checkpoint that is about to go is in the rows.
LEMMA GoingInvStep ==
  ASSUME TypeInv, LatestInv, ReadInv, GoingInv, Grows, [Next]_vars
  PROVE  GoingInv'
<1>1. MemoryTypes /\ StoreTypes /\ PointInv /\ PointInv'
  BY PointStep DEF TypeInv
<1>2. ~Crash => checkpoints' = checkpoints \/ ~Held' \/ at \in {"flushing", "pruning"}
  BY CheckpointsCases, ClearEffect DEF CheckpointsMove
<1>3. ASSUME checkpoints' = checkpoints PROVE InCheckpoint' = InCheckpoint /\ Held' = Held /\ Latest' = Latest
  BY <1>3 DEF InCheckpoint, Held, Latest
<1>4. ASSUME ~Held' PROVE InCheckpoint' = {}
  BY <1>4 DEF InCheckpoint, Held
<1>5. at' = "stored" /\ Held' /\ Latest'.turn = turn' => InCheckpoint' \subseteq InRows' \cup excused'
  <2>1. SUFFICES ASSUME at' = "stored", Held', Latest'.turn = turn'
        PROVE  InCheckpoint' \subseteq InRows' \cup excused'
    OBVIOUS
  <2> ~Crash /\ InRows \subseteq InRows' /\ excused \subseteq excused'
    BY <2>1, CrashLeaves DEF Grows
  <2>2. CASE Stays
    BY <1>2, <1>3, <2>1, <2>2 DEF Stays, memory, GoingInv, Grows
  <2>3. CASE Closes
    <3>1. at = "settling" /\ StoreTerminal /\ turn' = turn
      BY <2>1, <2>3 DEF Closes
    <3>2. InCheckpoint \subseteq InRows \cup WordsOf(turn, chunk) \cup excused
      BY <1>2, <1>3, <2>1, <3>1, LatestIsRead DEF Reading
    <3>3. WordsOf(turn, chunk) \subseteq InRows'
      <4>1. CASE chunk = <<>>
        BY <4>1 DEF WordsOf, ToSet
      <4>2. CASE chunk # <<>>
        <5>1. rows' = Append(rows, ChunkRow)
          BY <2>1, <3>1, <4>2 DEF StoreTerminal, Past, ChunkRow, AfterFailedInsert
        <5>2. QED
          BY <1>1, <3>1, <5>1, MadeTypes, RowsEffect DEF ChunkRow, StoreTypes
      <4>3. QED
        BY <4>1, <4>2
    <3>4. QED
      BY <1>2, <1>3, <2>1, <3>1, <3>2, <3>3 DEF Grows
  <2>4. QED
    BY <2>1, <2>2, <2>3, Moves DEF Leaves, Carries, Continues, Reading, StartTurn, SyncAdopt, Receive, Enter
<1>6. app' = "recovered" => InCheckpoint' \subseteq InRows' \cup excused'
  <2>1. SUFFICES ASSUME app' = "recovered" PROVE InCheckpoint' \subseteq InRows' \cup excused'
    OBVIOUS
  <2> ~Crash /\ InRows \subseteq InRows' /\ excused \subseteq excused'
    BY <2>1, CrashLeaves DEF Grows
  <2>2. CASE RecoverCheckpoint
    <3>1. checkpoints' = checkpoints /\ Held /\ Latest.turn \notin listed
      BY <2>1, <2>2 DEF RecoverCheckpoint, Held, AfterFailedRecovery
    <3>2. CASE excused' = excused \cup (InCheckpoint \ InRows)
      BY <1>3, <3>1, <3>2 DEF Grows
    <3>3. CASE rows' = Append(rows, LatestRow)
      <4>1. WordsOf(Latest.turn, Latest.body) \subseteq InRows'
        BY <1>1, <3>1, <3>3, MadeTypes, RowsEffect DEF LatestRow, StoreTypes
      <4>2. QED
        BY <1>1, <1>3, <3>1, <4>1, LatestType
    <3>4. QED
      BY <2>1, <2>2, <3>1, <3>2, <3>3 DEF RecoverCheckpoint, LatestRow, Held, AfterFailedRecovery
  <2>3. CASE ~RecoverCheckpoint
    <3>1. app = "recovered"
      BY <2>1, <2>3 DEF Next, vars, boot, Say, End, SyncRelease, SyncAdopt, DaemonDies, StartTurn,
        Receive, WriteCheckpoint, PruneOlder, Acknowledge, AcceptInjection, ClearContinued, Finish,
        StoreTerminal, ClearTerminal, MarkComplete, AcknowledgeAll, Crash, Boot, DropRecovered
    <3>2. at = "idle"
      BY <1>1, <3>1 DEF PointInv
    <3>3. QED
      BY <1>2, <1>3, <1>4, <3>1, <3>2 DEF GoingInv, Grows
  <2>4. QED
    BY <2>2, <2>3
<1>7. QED
  BY <1>5, <1>6 DEF GoingInv

\* What the daemon was allowed to forget is kept.
LEMMA AckedStep ==
  ASSUME TypeInv, LatestInv, TailInv, AckedIsKept, Grows, [Next]_vars
  PROVE  AckedIsKept'
<1>1. DaemonTypes /\ MemoryTypes /\ StoreTypes /\ PointInv
  BY DEF TypeInv
<1>2. \A t \in Turns : /\ said[t] \in Nat /\ Words[t] \in Nat /\ said[t] <= Words[t]
                       /\ acked[t] \in Nat /\ acked[t] <= said[t]
  BY <1>1, WordsType DEF DaemonTypes
<1>3. SUFFICES ASSUME NEW t \in Turns, NEW w \in 1 .. acked'[t]
      PROVE  Word(t, w) \in Recoverable' \cup excused'
  BY DEF AckedIsKept
<1>4. CASE w \in 1 .. acked[t]
  BY <1>4 DEF AckedIsKept, Grows
<1>5. ASSUME Whole(t), w <= Due(t) PROVE Word(t, w) \in Recoverable' \cup excused'
  <2>1. w \in 1 .. Due(t)
    BY <1>2, <1>3, <1>5 DEF Due
  <2>2. QED
    BY <1>5, <2>1 DEF Whole, Grows
<1>6. CASE acked'[t] = said[t] /\ Whole(t)
  <2>1. w <= Due(t)
    BY <1>2, <1>3, <1>6 DEF Due
  <2>2. QED
    BY <1>5, <1>6, <2>1
<1>7. CASE Acknowledge
  <2>1. at = "acking" /\ turn \in Turns /\ latest \in Nat /\ Held /\ Latest.turn = turn /\ Latest.seq = latest
    BY <1>1, <1>7, WordsType DEF Acknowledge, AcknowledgeFrom, PointInv, MemoryTypes
  <2>2. acked' = acked \/ acked' = [acked EXCEPT ![turn] = IF latest > @ THEN latest ELSE @]
    BY <1>7 DEF Acknowledge, AckThrough
  <2>3. w \in 1 .. acked[t] \/ (t = turn /\ w \in 1 .. latest)
    BY <1>1, <1>2, <1>3, <2>1, <2>2 DEF DaemonTypes
  <2>4. CASE t = turn /\ w \in 1 .. latest
    <3> Latest \in Seen
      BY <1>1, <2>1, LatestType
    <3>1. Word(t, w) \in InRows \cup WordsOf(Latest.turn, Latest.body) \cup excused
      BY <2>1, <2>4 DEF LatestInv, Covers
    <3>2. QED
      BY <1>1, <2>1, <3>1, LatestType DEF Grows, Recoverable
  <2>5. QED
    BY <1>4, <2>3, <2>4
<1>8. CASE AcknowledgeAll
  <2>1. turn \in Turns /\ Whole(turn)
    BY <1>1, <1>8 DEF AcknowledgeAll, PointInv, TailInv, Ending
  <2>2. acked' = acked \/ acked' = [acked EXCEPT ![turn] = said[turn]]
    BY <1>8 DEF AcknowledgeAll, ReleaseJournal
  <2>3. acked'[t] = acked[t] \/ (t = turn /\ acked'[t] = said[t])
    BY <1>1, <2>1, <2>2 DEF DaemonTypes
  <2>4. QED
    BY <1>3, <1>4, <1>6, <2>1, <2>3
<1>9. ASSUME NEW s \in Turns, SyncRelease(s) PROVE Word(t, w) \in Recoverable' \cup excused'
  <2>1. /\ acked' = [acked EXCEPT ![s] = said[s]]
        /\ excused' = excused \cup
             (IF s \in marked THEN {} ELSE {Word(s, v) : v \in (acked[s] + 1) .. said[s]})
    BY <1>9 DEF SyncRelease, ReleaseJournal
  <2>2. CASE s # t
    BY <1>1, <1>3, <1>4, <2>1, <2>2 DEF DaemonTypes
  <2>3. CASE s = t /\ s \in marked
    <3>1. acked'[t] = said[t] /\ Whole(t)
      BY <1>1, <2>1, <2>3 DEF DaemonTypes, TailInv
    <3>2. QED
      BY <1>6, <3>1
  <2>4. CASE s = t /\ s \notin marked
    <3>1. acked'[t] = said[t]
      BY <1>1, <2>1, <2>4 DEF DaemonTypes
    <3>2. w \in 1 .. acked[t] \/ w \in (acked[t] + 1) .. said[t]
      BY <1>2, <1>3, <3>1
    <3>3. QED
      BY <1>4, <2>1, <2>4, <3>2
  <2>5. QED
    BY <2>2, <2>3, <2>4
<1>10. CASE acked' = acked
  BY <1>3, <1>4, <1>10
<1>11. QED
  BY <1>7, <1>8, <1>9, <1>10, DaemonCases DEF DaemonSteps, daemon, Say, End, DaemonDies, StartTurn, Finish

-----------------------------------------------------------------------------
\* Nothing is stored twice by mistake.

\* What the chunk has in common with the rows was replayed.
LEMMA ChunkInvStep ==
  ASSUME TypeInv, ChunkInv, [Next]_vars
  PROVE  ChunkInv'
<1>1. /\ MemoryTypes /\ StoreTypes /\ PointInv /\ replayed \subseteq replayed'
      /\ latest \in Nat /\ chunk \in Seq(Nat)
  BY HistoryStep, WordsType DEF TypeInv, MemoryTypes, Bodies
<1>2. SUFFICES ASSUME at' \in Reading PROVE WordsOf(turn', chunk') \cap InRows' \subseteq replayed'
  BY DEF ChunkInv
<1>3. CASE chunk' = <<>>
  BY <1>3 DEF WordsOf, ToSet
<1>4. rows' = rows \/ chunk' = <<>>
  <2>1. ~Cut
    BY <1>2, CrashLeaves DEF Cut, Reading
  <2>2. QED
    BY <1>1, <1>2, <2>1, RowsCases DEF RowsGrow, Reading, PointInv, RecoverCheckpoint, memory
<1>5. ASSUME at \in Reading, UNCHANGED <<turn, chunk>>, rows' = rows
      PROVE  WordsOf(turn', chunk') \cap InRows' \subseteq replayed'
  BY <1>1, <1>5 DEF ChunkInv, InRows
<1>6. CASE Stays
  BY <1>2, <1>3, <1>4, <1>5, <1>6 DEF Stays, memory
<1>7. CASE Carries \/ Continues
  BY <1>3, <1>4, <1>5, <1>7 DEF Carries, Continues, Reading
<1>8. CASE Receive
  <2>1. /\ at \in Reading /\ turn' = turn /\ rows' = rows
        /\ chunk' = Append(chunk, latest + 1)
        /\ replayed' = replayed \cup ({Word(turn, latest + 1)} \cap (InRows \cup InEarlier))
    BY <1>8 DEF Receive, Reading, store, tables, disk
  <2>2. WordsOf(turn, chunk') = WordsOf(turn, chunk) \cup {Word(turn, latest + 1)}
    BY <1>1, <2>1, AppendWord DEF WordsOf
  <2>3. QED
    BY <2>1, <2>2 DEF ChunkInv, InRows
<1>9. CASE StartTurn
  BY <1>3, <1>9 DEF StartTurn, Enter
<1>10. ASSUME NEW t \in Turns, SyncAdopt(t) PROVE WordsOf(turn', chunk') \cap InRows' \subseteq replayed'
  BY <1>10 DEF SyncAdopt, Enter, store, tables, disk, InRows
<1>11. CASE Closes \/ Leaves
  BY <1>2, <1>11 DEF Closes, Leaves, Ending, Reading
<1>12. QED
  BY <1>6, <1>7, <1>8, <1>9, <1>10, <1>11, Moves

\* A row that begins with the checkpoint, under its time, is told.
LEMMA TellsNew ==
  ASSUME NEW c, NEW r, r.stamp = None \/ c.stamp = None \/ r.stamp = c.stamp,
         IsPrefix(c.body, r.body)
  PROVE  Tells(c, r)
BY DEF Tells

\* A boot could tell the row the chunk would be now.
LEMMA StampInvStep ==
  ASSUME TypeInv, LatestInv, ReadInv, StampInv, PairInv, [Next]_vars
  PROVE  StampInv'
<1>1. /\ MemoryTypes /\ StoreTypes /\ PointInv /\ replayed \subseteq replayed'
      /\ latest \in Nat /\ chunk \in Bodies /\ chunk \in Seq(Nat)
  BY HistoryStep, WordsType DEF TypeInv, MemoryTypes, Bodies
<1> DEFINE T(c, r) ==
             r.turn = c.turn =>
               \A w \in ToSet(c.body) \cap ToSet(r.body) :
                 \/ Word(c.turn, w) \in replayed'
                 \/ r.stamp = None \/ c.stamp = None
                 \/ r.stamp = c.stamp /\ IsPrefix(c.body, r.body)
           Next_row == [turn |-> turn', body |-> chunk', stamp |-> stamp']
<1>2. SUFFICES ASSUME at' \in Reading, NEW c \in Seen' PROVE T(c, Next_row)
  BY DEF StampInv, Tells, ChunkRow
<1>3. ASSUME NEW d, NEW r, Tells(d, r) PROVE T(d, r)
  BY <1>1, <1>3 DEF Tells
<1>4. CASE Writes /\ c = ChunkCheckpoint
  <2>1. chunk # <<>> /\ c.body = Clip(chunk) /\ c.stamp = stamp /\ UNCHANGED <<chunk, stamp>>
    BY <1>1, <1>4 DEF Writes, ChunkCheckpoint, PointInv
  <2>2. IsPrefix(Clip(chunk), chunk)
    BY <1>1, <2>1, BoundsAssumption, ClipEffect DEF Bodies
  <2>3. Tells(c, Next_row)
    BY <2>1, <2>2, TellsNew
  <2>4. QED
    BY <1>3, <2>3
<1>5. CASE c \in Seen
  <2>1. CASE chunk' = <<>>
    <3>1. ToSet(chunk') = {}
      BY <2>1 DEF ToSet
    <3>2. QED
      BY <3>1
  <2>2. ASSUME at \in Reading, UNCHANGED <<turn, chunk>>, stamp' \in {stamp, None} PROVE T(c, Next_row)
    <3>1. CASE stamp' = None
      BY <3>1
    <3>2. CASE stamp' = stamp
      <4>1. Next_row = ChunkRow /\ Tells(c, ChunkRow)
        BY <1>5, <2>2, <3>2 DEF StampInv, ChunkRow
      <4> HIDE DEF T, Next_row
      <4>2. QED
        BY <1>3, <4>1
    <3>3. QED
      BY <2>2, <3>1, <3>2
  <2>3. CASE Stays
    BY <1>2, <2>2, <2>3 DEF Stays, memory
  <2>4. CASE Carries
    BY <2>2, <2>4 DEF Carries
  <2>5. CASE Continues
    BY <1>1, <2>1, <2>5 DEF Continues, PointInv
  <2>6. CASE Receive
    <3>1. /\ at = "streaming" /\ turn' = turn /\ chunk' = Append(chunk, latest + 1)
          /\ stamp' = IF chunk = <<>> THEN <<turn, latest + 1, incidents>> ELSE stamp
          /\ replayed' = replayed \cup ({Word(turn, latest + 1)} \cap (InRows \cup InEarlier))
      BY <2>6 DEF Receive
    <3>2. Tells(c, ChunkRow)
      BY <1>5, <3>1 DEF StampInv, Reading
    <3>3. /\ c.body \in Seq(Nat) /\ WordsOf(c.turn, c.body) \subseteq InEarlier
      BY <1>1, <1>5, SeenType, WordsType DEF Bodies
    <3>4. ToSet(chunk') = ToSet(chunk) \cup {latest + 1}
      BY <1>1, <3>1, AppendWord
    <3>5. IsPrefix(c.body, chunk) => IsPrefix(c.body, chunk')
      BY <1>1, <3>1, <3>3, AppendWord
    <3>6. SUFFICES ASSUME turn = c.turn, NEW w \in ToSet(c.body) \cap ToSet(chunk')
          PROVE  \/ Word(c.turn, w) \in replayed'
                 \/ stamp' = None \/ c.stamp = None
                 \/ stamp' = c.stamp /\ IsPrefix(c.body, chunk')
      BY <3>1
    <3>7. CASE w = latest + 1
      <4>1. Word(c.turn, w) \in InEarlier
        BY <3>3, <3>6 DEF WordsOf
      <4>2. QED
        BY <3>1, <3>6, <3>7, <4>1
    <3>8. CASE w \in ToSet(chunk)
      <4>1. chunk # <<>>
        BY <3>8 DEF ToSet
      <4>2. stamp' = stamp
        BY <3>1, <4>1
      <4>3. \/ Word(c.turn, w) \in replayed
            \/ stamp = None \/ c.stamp = None
            \/ stamp = c.stamp /\ IsPrefix(c.body, chunk)
        BY <3>2, <3>6, <3>8 DEF Tells, ChunkRow
      <4>4. QED
        BY <1>1, <3>5, <4>2, <4>3
    <3>9. QED
      BY <3>4, <3>6, <3>7, <3>8
  <2>7. CASE StartTurn
    BY <2>1, <2>7 DEF StartTurn, Enter
  <2>8. ASSUME NEW t \in Turns, SyncAdopt(t) PROVE T(c, Next_row)
    <3>1. CASE Held /\ Latest.turn = t
      <4>1. turn' = Latest.turn /\ chunk' = Latest.body /\ stamp' = Latest.stamp
        BY <2>8, <3>1 DEF SyncAdopt, Enter, Held
      <4>2. Next_row = LatestRow /\ Tells(c, LatestRow)
        BY <1>5, <3>1, <4>1 DEF PairInv, LatestRow
      <4> HIDE DEF T, Next_row
      <4>3. QED
        BY <1>3, <4>2
    <3>2. CASE ~(Held /\ Latest.turn = t)
      BY <2>1, <2>8, <3>2 DEF SyncAdopt, Enter, Held
    <3>3. QED
      BY <3>1, <3>2
  <2>9. CASE Closes \/ Leaves
    BY <1>2, <2>9 DEF Closes, Leaves, Ending, Reading
  <2>10. QED
    BY <2>3, <2>4, <2>5, <2>6, <2>7, <2>8, <2>9, Moves
<1>6. QED
  BY <1>2, <1>4, <1>5, LatestStep

\* A short beginning of a reply is a beginning of the head that is kept of it.
LEMMA ClipKeepsPrefix ==
  ASSUME BoundsAssumption, NEW S, NEW s \in Seq(S), NEW r \in Seq(S), Len(r) <= Cap, IsPrefix(r, s)
  PROVE  IsPrefix(r, Clip(s))
<1>1. Cap \in Nat \ {0} /\ Len(s) \in Nat /\ Len(r) \in Nat
  BY DEF BoundsAssumption
<1>2. CASE Len(s) > Cap
  <2>1. /\ Clip(s) = SubSeq(s, 1, Cap) /\ Len(Clip(s)) = Cap
        /\ \A i \in 1 .. Cap : Clip(s)[i] = s[i]
    BY <1>1, <1>2 DEF Clip
  <2>2. QED
    BY <1>1, <1>2, <2>1 DEF IsPrefix
<1>3. CASE ~(Len(s) > Cap)
  BY <1>3 DEF Clip
<1>4. QED
  BY <1>2, <1>3

\* A boot could tell the row the latest checkpoint would be.
LEMMA PairInvStep ==
  ASSUME TypeInv, LatestInv, StampInv, PairInv, [Next]_vars
  PROVE  PairInv'
<1>1. MemoryTypes /\ StoreTypes /\ PointInv /\ replayed \subseteq replayed'
  BY HistoryStep DEF TypeInv
<1> DEFINE T(c, r) ==
             r.turn = c.turn =>
               \A w \in ToSet(c.body) \cap ToSet(r.body) :
                 \/ Word(c.turn, w) \in replayed'
                 \/ r.stamp = None \/ c.stamp = None
                 \/ r.stamp = c.stamp /\ IsPrefix(c.body, r.body)
           RowOf(d) == [turn |-> d.turn, body |-> d.body, stamp |-> d.stamp]
<1>2. SUFFICES ASSUME Held', NEW c \in Seen' PROVE T(c, RowOf(Latest'))
  BY DEF PairInv, Tells, LatestRow
<1>3. ASSUME NEW d, NEW r, Tells(d, r) PROVE T(d, r)
  BY <1>1, <1>3 DEF Tells
<1>4. ASSUME NEW d, d.body \in Bodies PROVE T(d, RowOf(d))
  BY <1>4 DEF IsPrefix, Bodies
<1>5. CASE Crash
  <2>1. c = Latest' /\ c \in Seen
    BY <1>1, <1>2, <1>5, CrashEffect
  <2>2. c.body \in Bodies
    BY <1>1, <2>1, SeenType
  <2> HIDE DEF T, RowOf
  <2>3. QED
    BY <1>4, <2>1, <2>2
<1>6. CASE Writes
  <2>1. /\ at = "flushing" /\ Latest' = ChunkCheckpoint /\ chunk \in Bodies /\ chunk # <<>>
        /\ ChunkCheckpoint \in CheckpointType
    BY <1>1, <1>6 DEF Writes, PointInv, MemoryTypes
  <2>2. CASE c = ChunkCheckpoint
    <3>1. c.body \in Bodies
      BY <2>1, <2>2 DEF CheckpointType
    <3> HIDE DEF T, RowOf
    <3>2. QED
      BY <1>4, <2>1, <2>2, <3>1
  <2>3. CASE c \in Seen
    <3>1. Tells(c, ChunkRow)
      BY <2>1, <2>3 DEF StampInv, Reading
    <3>2. ToSet(Clip(chunk)) \subseteq ToSet(chunk)
      BY <2>1, BoundsAssumption, ClipEffect DEF Bodies
    <3>3. IsPrefix(c.body, chunk) => IsPrefix(c.body, Clip(chunk))
      <4>1. c.body \in Bodies /\ Len(c.body) <= Cap
        BY <1>1, <2>3, SeenType DEF LatestInv
      <4>2. QED
        BY <2>1, <4>1, BoundsAssumption, ClipKeepsPrefix DEF Bodies
    <3>4. Tells(c, RowOf(ChunkCheckpoint))
      BY <3>1, <3>2, <3>3 DEF Tells, ChunkRow, ChunkCheckpoint
    <3> HIDE DEF T, RowOf
    <3>5. QED
      BY <1>3, <2>1, <3>4
  <2>4. QED
    BY <2>2, <2>3, LatestStep
<1>7. CASE Held /\ Latest' = Latest /\ ~Writes
  <2>1. c \in Seen
    BY <1>7, LatestStep
  <2>2. Tells(c, RowOf(Latest'))
    BY <1>7, <2>1 DEF PairInv, LatestRow
  <2> HIDE DEF T, RowOf
  <2>3. QED
    BY <1>3, <2>2
<1>8. QED
  BY <1>2, <1>5, <1>6, <1>7, LatestStep

\* A boot can tell a row that a checkpoint has become.
LEMMA TellInvStep ==
  ASSUME TypeInv, ChunkInv, StampInv, PairInv, TellInv, [Next]_vars
  PROVE  TellInv'
<1>1. MemoryTypes /\ StoreTypes /\ PointInv /\ replayed \subseteq replayed'
  BY HistoryStep DEF TypeInv
<1> DEFINE T(c, r) ==
             r.turn = c.turn =>
               \A w \in ToSet(c.body) \cap ToSet(r.body) :
                 \/ Word(c.turn, w) \in replayed'
                 \/ r.stamp = None \/ c.stamp = None
                 \/ r.stamp = c.stamp /\ IsPrefix(c.body, r.body)
<1>2. SUFFICES ASSUME NEW c \in Seen', NEW i \in DOMAIN rows' PROVE T(c, rows'[i])
  BY DEF TellInv, Tells
<1>3. ASSUME NEW d, NEW r, Tells(d, r) PROVE T(d, r)
  BY <1>1, <1>3 DEF Tells
<1>4. CASE c \in Seen
  <2>1. ASSUME i \in DOMAIN rows, rows'[i] = rows[i] PROVE T(c, rows'[i])
    <3>1. Tells(c, rows[i])
      BY <1>4, <2>1 DEF TellInv
    <3>2. T(c, rows[i])
      BY <1>3, <3>1
    <3> HIDE DEF T
    <3>3. QED
      BY <2>1, <3>2
  <2>2. ASSUME NEW r \in RowType, rows' = Append(rows, r), Tells(c, r)
        PROVE  T(c, rows'[i])
    <3>1. T(c, r)
      BY <1>3, <2>2
    <3>2. (i \in DOMAIN rows /\ rows'[i] = rows[i]) \/ rows'[i] = r
      BY <1>1, <1>2, <2>2, RowsEffect DEF StoreTypes
    <3> HIDE DEF T
    <3>3. QED
      BY <2>1, <3>1, <3>2
  <2>3. ASSUME at \in {"streaming", "settling"}, rows' = Append(rows, ChunkRow)
        PROVE  T(c, rows'[i])
    <3>1. ChunkRow \in RowType
      BY <2>3, MadeTypes
    <3>2. Tells(c, ChunkRow)
      BY <1>4, <2>3 DEF StampInv, Reading
    <3>3. QED
      BY <2>2, <2>3, <3>1, <3>2
  <2>4. CASE Held /\ rows' = Append(rows, LatestRow)
    <3>1. Tells(c, LatestRow)
      BY <1>4, <2>4 DEF PairInv
    <3>2. QED
      BY <2>2, <2>4, <3>1, MadeTypes
  <2>5. CASE rows' = rows
    BY <1>2, <2>1, <2>5
  <2>6. CASE Cut
    <3>1. i \in DOMAIN rows /\ rows'[i] = rows[i]
      BY <1>1, <1>2, <2>6, CutEffect DEF Cut, StoreTypes
    <3>2. QED
      BY <2>1, <3>1
  <2> HIDE DEF T
  <2>7. QED
    BY <1>1, <2>3, <2>4, <2>5, <2>6, RowsCases DEF RowsGrow
<1>5. CASE Writes /\ c = ChunkCheckpoint
  <2>1. /\ rows' = rows /\ at = "flushing" /\ chunk # <<>>
        /\ c.turn = turn /\ c.body = Clip(chunk)
    BY <1>1, <1>5 DEF Writes, ChunkCheckpoint, PointInv
  <2>2. ToSet(Clip(chunk)) \subseteq ToSet(chunk)
    BY <1>1, <2>1, BoundsAssumption, ClipEffect DEF MemoryTypes, Bodies
  <2>3. SUFFICES ASSUME rows[i].turn = turn,
                        NEW w \in ToSet(Clip(chunk)) \cap ToSet(rows[i].body)
        PROVE  Word(turn, w) \in replayed'
    BY <2>1
  <2>4. Word(turn, w) \in WordsOf(turn, chunk)
    BY <2>2 DEF WordsOf
  <2>5. Word(turn, w) \in InRows
    BY <1>2, <2>1, <2>3 DEF InRows, WordsOf
  <2>6. QED
    BY <1>1, <2>1, <2>4, <2>5 DEF ChunkInv, Reading
<1>6. QED
  BY <1>2, <1>4, <1>5, LatestStep

\* Two rows have only words in common that were replayed.
LEMMA OnceInvStep ==
  ASSUME TypeInv, ChunkInv, TellInv, OnceInv, [Next]_vars
  PROVE  OnceInv'
<1>1. MemoryTypes /\ StoreTypes /\ PointInv /\ replayed \subseteq replayed'
  BY HistoryStep DEF TypeInv
<1> DEFINE W(r) == WordsOf(r.turn, r.body)
<1>2. SUFFICES ASSUME NEW i \in DOMAIN rows', NEW j \in DOMAIN rows', i # j
      PROVE  W(rows'[i]) \cap W(rows'[j]) \subseteq replayed'
  BY DEF OnceInv
<1>3. CASE rows' = rows
  BY <1>1, <1>2, <1>3 DEF OnceInv
<1>4. ASSUME NEW r \in RowType, rows' = Append(rows, r),
             \A k \in DOMAIN rows : W(r) \cap W(rows[k]) \subseteq replayed'
      PROVE  W(rows'[i]) \cap W(rows'[j]) \subseteq replayed'
  <2>1. /\ (i \in DOMAIN rows /\ rows'[i] = rows[i]) \/ (i = Len(rows) + 1 /\ rows'[i] = r)
        /\ (j \in DOMAIN rows /\ rows'[j] = rows[j]) \/ (j = Len(rows) + 1 /\ rows'[j] = r)
    BY <1>1, <1>2, <1>4, RowsEffect DEF StoreTypes
  <2>2. CASE i \in DOMAIN rows /\ rows'[i] = rows[i] /\ j \in DOMAIN rows /\ rows'[j] = rows[j]
    BY <1>1, <1>2, <2>2 DEF OnceInv
  <2> HIDE DEF W
  <2>3. QED
    BY <1>2, <1>4, <2>1, <2>2
<1>5. ASSUME at \in {"streaming", "settling"}, rows' = Append(rows, ChunkRow)
      PROVE  W(rows'[i]) \cap W(rows'[j]) \subseteq replayed'
  <2>1. ChunkRow \in RowType /\ W(ChunkRow) = WordsOf(turn, chunk)
    BY <1>5, MadeTypes DEF ChunkRow
  <2>2. WordsOf(turn, chunk) \cap InRows \subseteq replayed
    BY <1>5 DEF ChunkInv, Reading
  <2>3. \A k \in DOMAIN rows : W(rows[k]) \subseteq InRows
    BY DEF InRows
  <2> HIDE DEF W
  <2>4. QED
    BY <1>1, <1>4, <1>5, <2>1, <2>2, <2>3
<1>6. ASSUME Held, ~Durable(Latest), rows' = Append(rows, LatestRow),
             replayed' = replayed \cup (IF Unstamped(Latest) THEN InCheckpoint \cap InRows ELSE {})
      PROVE  W(rows'[i]) \cap W(rows'[j]) \subseteq replayed'
  <2>1. /\ LatestRow \in RowType /\ W(LatestRow) = InCheckpoint
        /\ InCheckpoint = WordsOf(Latest.turn, Latest.body)
    BY <1>1, <1>6, MadeTypes, LatestType DEF LatestRow
  <2>2. ASSUME NEW k \in DOMAIN rows PROVE InCheckpoint \cap W(rows[k]) \subseteq replayed'
    <3>1. W(rows[k]) \subseteq InRows
      BY DEF InRows
    <3>2. CASE Unstamped(Latest)
      BY <1>6, <3>1, <3>2
    <3>3. CASE ~Unstamped(Latest)
      <4>1. SUFFICES ASSUME NEW x \in InCheckpoint \cap W(rows[k]) PROVE x \in replayed
        BY <1>1
      <4>2. PICK w \in ToSet(Latest.body) \cap ToSet(rows[k].body) :
              x = Word(Latest.turn, w) /\ rows[k].turn = Latest.turn
        BY <2>1, <4>1 DEF WordsOf, Word
      <4>3. Latest.stamp # None /\ rows[k].stamp # None
        BY <3>3, <4>2 DEF Unstamped
      <4>4. Tells(Latest, rows[k])
        BY <1>1, <1>6, LatestType DEF TellInv
      <4>5. \/ Word(Latest.turn, w) \in replayed
            \/ rows[k].stamp = Latest.stamp /\ IsPrefix(Latest.body, rows[k].body)
        BY <4>2, <4>3, <4>4 DEF Tells
      <4>6. ~(rows[k].stamp = Latest.stamp /\ IsPrefix(Latest.body, rows[k].body))
        BY <1>6, <4>2, <4>3 DEF Durable, SameText
      <4>7. QED
        BY <4>2, <4>5, <4>6
    <3>4. QED
      BY <3>2, <3>3
  <2> HIDE DEF W
  <2>3. QED
    BY <1>4, <1>6, <2>1, <2>2
<1>7. CASE Cut
  <2>1. /\ i \in DOMAIN rows /\ rows'[i] = rows[i]
        /\ j \in DOMAIN rows /\ rows'[j] = rows[j]
    BY <1>1, <1>2, <1>7, CutEffect DEF Cut, StoreTypes
  <2>2. QED
    BY <1>1, <1>2, <2>1 DEF OnceInv
<1> HIDE DEF W
<1>8. QED
  BY <1>1, <1>3, <1>5, <1>6, <1>7, RowsCases DEF RowsGrow

\* The lemmas above are about one step; together they are about all of them.
LEMMA InvInit == Init => IInv
<1> SUFFICES ASSUME Init PROVE IInv
  OBVIOUS
<1>1. /\ Words \in [Turns -> Nat \ {0}] /\ MaxWords \in Nat /\ LastTurn \in Nat
      /\ MaxIncidents \in Nat /\ Turns = 1 .. LastTurn
  BY BoundsAssumption, WordsType DEF BoundsAssumption, Turns
<1>2. TypeInv
  BY <1>1 DEF Init, TypeInv, DaemonTypes, MemoryTypes, StoreTypes, BootTypes, HistoryTypes, PointInv,
    Bodies, Points, Held, Reading, Seen
<1>3. at = "idle" /\ ~Held /\ marked = {} /\ app = "up" /\ rows = <<>> /\ Seen = {}
  BY DEF Init, Held, Seen
<1>4. /\ LatestInv /\ ReadInv /\ TailInv /\ GoingInv /\ ChunkInv /\ StampInv /\ PairInv
      /\ TellInv
  BY <1>3 DEF LatestInv, ReadInv, TailInv, GoingInv, ChunkInv, StampInv, PairInv, TellInv, Reading,
    Ending
<1>5. AckedIsKept
  BY DEF Init, AckedIsKept
<1>6. OnceInv
  BY <1>3 DEF OnceInv
<1>7. QED
  BY <1>2, <1>4, <1>5, <1>6 DEF IInv

\* One step.
LEMMA InvStep == IInv /\ [Next]_vars => IInv' /\ Grows
<1> SUFFICES ASSUME IInv, [Next]_vars PROVE IInv' /\ Grows
  OBVIOUS
<1>1. /\ TypeInv /\ LatestInv /\ ReadInv /\ TailInv /\ GoingInv /\ AckedIsKept
      /\ ChunkInv /\ StampInv /\ PairInv /\ TellInv /\ OnceInv
  BY DEF IInv
<1>2. Grows
  BY <1>1, GrowStep
<1>3. TypeInv' /\ LatestInv' /\ ReadInv' /\ TailInv' /\ GoingInv' /\ AckedIsKept'
  BY <1>1, <1>2, TypeStep, LatestInvStep, ReadInvStep, TailInvStep, GoingInvStep, AckedStep
<1>4. ChunkInv' /\ StampInv' /\ PairInv' /\ TellInv' /\ OnceInv'
  BY <1>1, ChunkInvStep, StampInvStep, PairInvStep, TellInvStep, OnceInvStep
<1>5. QED
  BY <1>2, <1>3, <1>4 DEF IInv

\* IInv holds of every behaviour.
LEMMA Invariance == Spec => []IInv
BY InvInit, InvStep, PTL DEF Spec

-----------------------------------------------------------------------------
\* A row or a checkpoint of the right type is a row or a checkpoint of TypeOK.
LEMMA TypesOfRows == TypeInv => TypeOK
<1> SUFFICES ASSUME TypeInv PROVE TypeOK
  OBVIOUS
<1>1. \A i \in DOMAIN checkpoints : IsCheckpoint(checkpoints[i])
  <2>1. ASSUME NEW i \in DOMAIN checkpoints PROVE checkpoints[i] \in CheckpointType
    BY DEF TypeInv, StoreTypes
  <2>2. QED
    BY <2>1 DEF CheckpointType, IsCheckpoint, Bodies
<1>2. \A i \in DOMAIN rows : IsRow(rows[i])
  <2>1. ASSUME NEW i \in DOMAIN rows PROVE rows[i] \in RowType
    BY DEF TypeInv, StoreTypes
  <2>2. QED
    BY <2>1 DEF RowType, IsRow, Bodies
<1>3. ASSUME NEW s \in onDisk, s # <<>> PROVE Len(s) = 1 /\ IsCheckpoint(s[1])
  <2>1. PICK c \in CheckpointType : s = <<c>>
    BY <1>3 DEF TypeInv, StoreTypes
  <2>2. Len(s) = 1 /\ s[1] = c
    BY <2>1
  <2>3. QED
    BY <2>1, <2>2 DEF CheckpointType, IsCheckpoint, Bodies
<1>4. kept.rows \in 0 .. Len(rows) /\ kept.marked \subseteq marked
  <2>1. Len(rows) \in Nat /\ kept.rows \in Nat /\ kept.rows <= Len(rows)
    BY DEF TypeInv, StoreTypes
  <2>2. QED
    BY <2>1 DEF TypeInv, StoreTypes
<1>5. QED
  BY <1>1, <1>2, <1>3, <1>4 DEF TypeOK, TypeInv, DaemonTypes, MemoryTypes, StoreTypes, BootTypes,
    HistoryTypes, PointInv, Bodies

\* Every variable keeps its type, a driver only runs while the application is up,
\* and the daemon forgets no more of a turn than was said.
THEOREM TypeCorrect == Spec => []TypeOK
<1>1. IInv => TypeOK
  BY TypesOfRows DEF IInv
<1>2. QED
  BY <1>1, Invariance, PTL

\* AckEvents is only sent for words that are in a row, or in the checkpoint a boot
\* recovers, or that were given up in one of the ways the module names; a crash may
\* drop the queued end of any table, and takes only words nothing else held.
THEOREM AckedIsKeptHolds == Spec => []AckedIsKept
<1>1. IInv => AckedIsKept
  BY DEF IInv
<1>2. QED
  BY <1>1, Invariance, PTL

\* However writes fail, no step of the process takes a word from the rows and the
\* checkpoint without its being given up: a row is inserted before its checkpoint is
\* deleted, and a checkpoint before the older one.
THEOREM RecoverableStaysHolds == Spec => RecoverableStays
<1>1. IInv /\ [Next]_vars =>
        [tables' # tables => Recoverable \subseteq Recoverable' \cup excused']_vars
  BY InvStep DEF Grows
<1>2. QED
  BY <1>1, Invariance, PTL DEF Spec, RecoverableStays

\* Two rows of the transcript never hold the same word of the same turn, but for
\* the words a driver or a boot was given a second time.
THEOREM TwiceOnlyIfReplayedHolds == Spec => []TwiceOnlyIfReplayed
<1>1. IInv => TwiceOnlyIfReplayed
  <2>1. SUFFICES ASSUME IInv, NEW t \in Turns, NEW w \in 1 .. MaxWords, Word(t, w) \notin replayed
        PROVE  ~(Copies(t, w) > 1)
    BY DEF TwiceOnlyIfReplayed
  <2> DEFINE S == {i \in DOMAIN rows : rows[i].turn = t /\ w \in ToSet(rows[i].body)}
  <2>2. \A i, j \in S : i = j
    <3>1. SUFFICES ASSUME NEW i \in S, NEW j \in S, i # j PROVE FALSE
      OBVIOUS
    <3>2. /\ Word(t, w) \in WordsOf(rows[i].turn, rows[i].body)
          /\ Word(t, w) \in WordsOf(rows[j].turn, rows[j].body)
      BY DEF WordsOf
    <3>3. QED
      BY <2>1, <3>1, <3>2 DEF IInv, OnceInv
  <2> HIDE DEF S
  <2>3. Cardinality(S) = 0 \/ Cardinality(S) = 1
    <3>1. CASE S = {}
      BY <3>1, FS_EmptySet
    <3>2. CASE S # {}
      <4>1. PICK x \in S : S = {x}
        BY <2>2, <3>2
      <4>2. QED
        BY <4>1, FS_Singleton
    <3>3. QED
      BY <3>1, <3>2
  <2>4. QED
    BY <2>3 DEF Copies, S
<1>2. QED
  BY <1>1, Invariance, PTL
=============================================================================
