------------------------- MODULE StoreMigration_proofs -------------------------
(***************************************************************************)
(* Proofs about StoreMigration, for any number of trees, incidents and     *)
(* restores: its types, that every directory a power loss may leave has    *)
(* the owner's rows, that a session without them has them beside it, and   *)
(* that no interruption leaves a conversion the next launch refuses.       *)
(*                                                                         *)
(* The invariant is about every survivor, not only about the directory the *)
(* processes see: what a tree is worth depends on how far its directory    *)
(* has come.  Up to the validated stage the rows are those of the v2 tree, *)
(* which nothing else may hold; after it they are those of the stage,      *)
(* which only then becomes the store; and what is built or extracted       *)
(* beside the store is never synced, so that nothing relies on it.         *)
(***************************************************************************)
EXTENDS StoreMigration, WellFoundedInduction, TLAPS

V2(T, t) == T[t].form = "v2"
Good(T, t) == T[t].data = "whole" /\ T[t].synced
Has(d, n) == d.at[n] # Absent
FromV2(T, d) == Has(d, "db") /\ V2(T, d.at["db"])
Refs(d) == d.kept \cup ({d.at[n] : n \in Names} \ {Absent})

\* Before the stage counts, and between that and the end of the conversion.
Early(d) == d.phase \in {"none", "exporting"}
Half(d) == d.phase \in {"validated", "source-preserved"}

OneName(d) ==
  \A n \in Names : Has(d, n) =>
    d.at[n] \notin d.kept /\ \A m \in Names \ {n} : d.at[m] # d.at[n]

\* The v2 source is under the live name or is the backup, and nowhere else.
Forms(T, d) ==
  /\ \A t \in d.kept : ~V2(T, t)
  /\ \A n \in {"stage", "next", "staging"} : Has(d, n) => ~V2(T, d.at[n])
  /\ Has(d, "backup") => V2(T, d.at["backup"])

Shape(T, d) ==
  /\ Early(d) => ~Has(d, "backup")
  /\ d.phase \in {"none", "complete"} => ~Has(d, "stage")
  /\ d.phase = "exporting" => FromV2(T, d)
  /\ d.phase = "complete" => ~FromV2(T, d)

\* A stage that counts is whole until it is the store.
Converted(T, d) ==
  /\ Has(d, "stage") =>
       /\ Good(T, d.at["stage"]) /\ (Has(d, "db") <=> ~Has(d, "backup"))
       /\ Has(d, "db") => V2(T, d.at["db"])
  /\ ~Has(d, "stage") =>
       /\ Has(d, "db") /\ Has(d, "backup")
       /\ Good(T, d.at["db"]) /\ ~V2(T, d.at["db"]) /\ T[d.at["db"]].sentinel

Own(T, d) ==
  /\ Half(d) => Converted(T, d)
  /\ ~Half(d) => \E t \in d.kept \cup {d.at["db"]} : t \in Trees /\ Good(T, t)

Sound(T, d) == OneName(d) /\ Forms(T, d) /\ Shape(T, d) /\ Own(T, d)

SourceGood(T, D) == Early(D) => \A t \in Trees : V2(T, t) => Good(T, t)
SourceStays(T, D, S) == Early(D) /\ FromV2(T, D) => \A d \in S : FromV2(T, d)
Fresh(T, D) == \A n \in {"next", "staging"} : Has(D, n) => ~T[D.at[n]].synced

\* D is the directory the processes see, S what a power loss may leave.
Store(T, D, S) ==
  /\ D \in S /\ (\A d \in S : d \in Directories) /\ T \in [Trees -> Contents]
  /\ \A d \in S : Sound(T, d) /\ (Early(d) <=> Early(D))
  /\ SourceGood(T, D) /\ SourceStays(T, D, S) /\ Fresh(T, D)

-----------------------------------------------------------------------------
\* What a tree may become.

\* What a directory relies on: the v2 tree while that is the store, and never it
\* once the stage counts.
Relied(T, d, t) ==
  /\ Good(T, t)
  /\ Early(d) /\ FromV2(T, d) => V2(T, t)
  /\ ~Early(d) => ~V2(T, t)

\* A directory stays sound when the trees in it keep their form and those it relies
\* on stay good.
LEMMA SoundStays ==
  ASSUME NEW T \in [Trees -> Contents], NEW U \in [Trees -> Contents],
         NEW d \in Directories, Sound(T, d), SourceGood(T, d),
         \A t \in Refs(d) : /\ V2(U, t) <=> V2(T, t)
                            /\ T[t].sentinel => U[t].sentinel
                            /\ Relied(T, d, t) => Good(U, t)
  PROVE  Sound(U, d) /\ (FromV2(U, d) <=> FromV2(T, d))
<1>1. /\ d.kept \subseteq Trees /\ d.kept \subseteq Refs(d)
      /\ \A n \in Names : d.at[n] \in Trees \cup {Absent}
      /\ \A n \in Names : Has(d, n) => d.at[n] \in Refs(d) /\ d.at[n] \in Trees
  BY DEF Directories, Refs, Has
<1>2. FromV2(U, d) <=> FromV2(T, d)
  BY <1>1 DEF FromV2, Names
<1>3. OneName(d)
  BY DEF Sound
<1>4. Forms(U, d)
  BY <1>1 DEF Sound, Forms, Names
<1>5. Shape(U, d)
  BY <1>2 DEF Sound, Shape
<1>6. ASSUME Half(d) PROVE Converted(U, d)
  <2>1. Converted(T, d) /\ Forms(T, d) /\ ~Early(d)
    BY <1>6 DEF Sound, Own, Half, Early
  <2>2. CASE Has(d, "stage")
    <3>1. Good(U, d.at["stage"])
      BY <1>1, <2>1, <2>2 DEF Converted, Forms, Relied, Names
    <3>2. Has(d, "db") => V2(U, d.at["db"])
      BY <1>1, <2>1, <2>2 DEF Converted, Names
    <3>3. QED
      BY <2>1, <2>2, <3>1, <3>2 DEF Converted
  <2>3. CASE ~Has(d, "stage")
    <3>1. Has(d, "db") /\ Has(d, "backup") /\ Good(T, d.at["db"]) /\ ~V2(T, d.at["db"])
          /\ T[d.at["db"]].sentinel
      BY <2>1, <2>3 DEF Converted
    <3>2. Good(U, d.at["db"]) /\ ~V2(U, d.at["db"]) /\ U[d.at["db"]].sentinel
      BY <1>1, <2>1, <3>1 DEF Relied, Names
    <3>3. QED
      BY <2>3, <3>1, <3>2 DEF Converted
  <2>4. QED
    BY <2>2, <2>3
<1>7. ASSUME ~Half(d)
      PROVE  \E t \in d.kept \cup {d.at["db"]} : t \in Trees /\ Good(U, t)
  <2>1. PICK t \in d.kept \cup {d.at["db"]} : t \in Trees /\ Good(T, t)
    BY <1>7 DEF Sound, Own
  <2>2. t \in Refs(d)
    BY <1>1, <2>1 DEF Has, Names, Trees, Absent
  <2>3. CASE Early(d) /\ FromV2(T, d)
    <3>1. d.at["db"] \in Refs(d) /\ d.at["db"] \in Trees /\ V2(T, d.at["db"])
      BY <1>1, <2>3 DEF FromV2, Names
    <3>2. Good(T, d.at["db"])
      BY <2>3, <3>1 DEF SourceGood
    <3>3. Relied(T, d, d.at["db"])
      BY <2>3, <3>1, <3>2 DEF Relied
    <3>4. QED
      BY <3>1, <3>3
  <2>4. CASE Early(d) /\ ~FromV2(T, d)
    BY <2>1, <2>2, <2>4 DEF Relied
  <2>5. CASE ~Early(d)
    <3>1. d.phase = "complete"
      BY <1>7, <2>5 DEF Half, Early, Directories, Phases
    <3>2. ~FromV2(T, d) /\ Forms(T, d)
      BY <3>1 DEF Sound, Shape
    <3>3. ~V2(T, t)
      BY <2>1, <3>2 DEF FromV2, Forms, Has, Trees, Absent
    <3>4. QED
      BY <2>1, <2>2, <2>5, <3>3 DEF Relied
  <2>6. QED
    BY <2>3, <2>4, <2>5
<1>8. QED
  BY <1>2, <1>3, <1>4, <1>5, <1>6, <1>7 DEF Sound, Own

\* One tree changes: one that nothing led to, that nothing relies on yet or any
\* more, or that is as good as it was.
Harmless(T, D, S, U, t) ==
  \/ (\A d \in S : t \notin Refs(d)) /\ ~V2(U, t)
  \/ /\ U[t].form = T[t].form /\ (T[t].sentinel => U[t].sentinel)
     /\ \/ ~T[t].synced
        \/ Early(D) /\ FromV2(T, D) /\ ~V2(T, t)
        \/ ~Early(D) /\ V2(T, t)
        \/ Good(U, t)

\* A harmless change leaves every survivor as sound as it was.
LEMMA TreeKeeps ==
  ASSUME NEW T, NEW D, NEW S, Store(T, D, S), NEW U \in [Trees -> Contents],
         NEW t \in Trees, \A u \in Trees \ {t} : U[u] = T[u],
         Harmless(T, D, S, U, t),
         \A n \in {"next", "staging"} : D.at[n] = t => U[t].synced = T[t].synced
  PROVE  Store(U, D, S) /\ (FromV2(U, D) <=> FromV2(T, D))
<1>1. /\ D \in S /\ D \in Directories /\ T \in [Trees -> Contents]
      /\ SourceGood(T, D) /\ SourceStays(T, D, S) /\ Fresh(T, D)
      /\ \A d \in S : d \in Directories /\ Sound(T, d) /\ (Early(d) <=> Early(D))
  BY DEF Store
<1>2. ASSUME NEW d \in S PROVE Sound(U, d) /\ (FromV2(U, d) <=> FromV2(T, d))
  <2>1. d \in Directories /\ Sound(T, d) /\ (Early(d) <=> Early(D)) /\ SourceGood(T, d)
    BY <1>1 DEF SourceGood
  <2>2. Early(D) /\ FromV2(T, D) => FromV2(T, d)
    BY <1>1 DEF SourceStays
  <2>3. Refs(d) \subseteq Trees
    BY <2>1 DEF Directories, Refs
  <2>4. ASSUME NEW u \in Refs(d)
        PROVE  /\ V2(U, u) <=> V2(T, u)
               /\ T[u].sentinel => U[u].sentinel
               /\ Relied(T, d, u) => Good(U, u)
    <3>1. CASE u # t
      BY <2>3, <3>1 DEF V2, Relied, Good
    <3>2. CASE u = t
      <4>1. U[t].form = T[t].form /\ (T[t].sentinel => U[t].sentinel)
        BY <3>2 DEF Harmless
      <4>2. Relied(T, d, t) => Good(U, t)
        BY <2>1, <2>2, <3>2 DEF Relied, Good, Harmless
      <4>3. QED
        BY <3>2, <4>1, <4>2 DEF V2
    <3>3. QED
      BY <3>1, <3>2
  <2>5. QED
    BY <1>1, <2>1, <2>4, SoundStays
<1>3. SourceGood(U, D)
  <2>1. SUFFICES ASSUME Early(D), NEW u \in Trees, V2(U, u) PROVE Good(U, u)
    BY DEF SourceGood
  <2>2. CASE u # t
    BY <1>1, <2>1, <2>2 DEF SourceGood, V2, Good
  <2>3. CASE u = t
    <3>1. V2(T, t) /\ Good(T, t)
      BY <1>1, <2>1, <2>3 DEF SourceGood, V2, Harmless
    <3>2. QED
      <4>1. \E d \in S : d = D
        BY <1>1
      <4>2. CASE ~T[t].synced
        BY <3>1, <4>2 DEF Good
      <4>3. QED
        BY <2>1, <2>3, <3>1, <4>2 DEF Harmless
  <2>4. QED
    BY <2>2, <2>3
<1>4. SourceStays(U, D, S)
  BY <1>1, <1>2 DEF SourceStays
<1>5. Fresh(U, D)
  <2>1. \A n \in {"next", "staging"} : Has(D, n) => D.at[n] \in Trees
    BY <1>1 DEF Directories, Names, Has
  <2>2. QED
    BY <1>1, <2>1 DEF Fresh
<1>6. QED
  BY <1>1, <1>2, <1>3, <1>4, <1>5 DEF Store

-----------------------------------------------------------------------------
\* What a directory may become.

\* A directory that may come after D as soon as it is on disk, and one that may
\* stand beside it before.
Lands(T, e) == e \in Directories /\ Sound(T, e) /\ Fresh(T, e)
Follows(T, D, e) ==
  Lands(T, e) /\ (Early(e) <=> Early(D)) /\ (Early(e) /\ FromV2(T, e) => FromV2(T, D))

\* An operation that is not synced: the directory it makes is one more survivor.
LEMMA StoreMoves ==
  ASSUME NEW T, NEW D, NEW S, Store(T, D, S), NEW e, Follows(T, D, e)
  PROVE  Store(T, e, S \cup {e})
BY DEF Store, Follows, Lands, SourceGood, SourceStays

\* One that is synced: nothing older can come back.
LEMMA StoreSyncs ==
  ASSUME NEW T, NEW D, NEW S, Store(T, D, S), NEW e, Lands(T, e),
         SourceGood(T, e)
  PROVE  Store(T, e, {e})
BY DEF Store, Lands, SourceStays

\* An operation that changed nothing, and what is known of the directory itself.
LEMMA StoreStays ==
  ASSUME NEW T, NEW D, NEW S, Store(T, D, S)
  PROVE  /\ D \in Directories /\ D \in S /\ S \cup {D} = S /\ Sound(T, D) /\ Fresh(T, D)
         /\ Follows(T, D, D) /\ SourceGood(T, D) /\ T \in [Trees -> Contents]
BY DEF Store, Follows, Lands

\* What may stand beside the directory may also replace it.
LEMMA FollowsLands ==
  ASSUME NEW T, NEW D, NEW e, Follows(T, D, e), SourceGood(T, D)
  PROVE  Lands(T, e) /\ SourceGood(T, e)
BY DEF Follows, SourceGood

\* One name gets another tree, or none.
LEMMA PutEffect ==
  ASSUME NEW D \in Directories, NEW n \in Names, NEW t \in Trees \cup {Absent}
  PROVE  LET e == [D EXCEPT !.at[n] = t] IN
         /\ e \in Directories /\ e.kept = D.kept /\ e.phase = D.phase /\ e.at[n] = t
         /\ \A m \in Names \ {n} : e.at[m] = D.at[m]
BY DEF Directories

\* A tree changes its name (CanRename: the new name was free).
LEMMA RenameEffect ==
  ASSUME NEW D \in Directories, NEW n \in Names, NEW m \in Names, n # m
  PROVE  LET e == [D EXCEPT !.at[m] = D.at[n], !.at[n] = Absent] IN
         /\ e \in Directories /\ e.kept = D.kept /\ e.phase = D.phase
         /\ e.at[m] = D.at[n] /\ e.at[n] = Absent
         /\ \A l \in Names \ {n, m} : e.at[l] = D.at[l]
BY DEF Directories

\* A tree goes under a stamped name.
LEMMA KeepEffect ==
  ASSUME NEW D \in Directories, NEW n \in Names, Has(D, n)
  PROVE  LET e == [D EXCEPT !.kept = @ \cup {D.at[n]}, !.at[n] = Absent] IN
         /\ e \in Directories /\ e.kept = D.kept \cup {D.at[n]} /\ e.phase = D.phase
         /\ e.at[n] = Absent /\ \A m \in Names \ {n} : e.at[m] = D.at[m]
BY DEF Directories, Has

\* A tree comes back from a stamped name to the live one.
LEMMA BackEffect ==
  ASSUME NEW D \in Directories, NEW t \in D.kept
  PROVE  LET e == [D EXCEPT !.at["db"] = t, !.kept = @ \ {t}] IN
         /\ e \in Directories /\ e.kept = D.kept \ {t} /\ e.phase = D.phase
         /\ e.at["db"] = t /\ \A m \in Names \ {"db"} : e.at[m] = D.at[m]
BY DEF Directories, Names

\* The marker of the conversion is rewritten.
LEMMA PhaseEffect ==
  ASSUME NEW D \in Directories, NEW p \in Phases
  PROVE  LET e == [D EXCEPT !.phase = p] IN
         e \in Directories /\ e.kept = D.kept /\ e.phase = p /\ e.at = D.at
BY DEF Directories

\* Outside a conversion.
Settled(T, D) == D.phase \in {"none", "complete"} /\ ~FromV2(T, D)

\* A name is removed: a stage before it counts, the backup once all is over, or what
\* is beside the store.
LEMMA UnlinkFollows ==
  ASSUME NEW T, NEW D \in Directories, Lands(T, D), NEW n \in Names \ {"db"},
         n = "stage" => Early(D), n = "backup" => D.phase = "complete",
         NEW e \in Directories, e.kept = D.kept, e.phase = D.phase, e.at[n] = Absent,
         \A m \in Names \ {n} : e.at[m] = D.at[m]
  PROVE  Follows(T, D, e)
<1>1. OneName(e)
  BY DEF Lands, Sound, OneName, Has
<1>2. Forms(T, e) /\ Shape(T, e) /\ (FromV2(T, e) <=> FromV2(T, D)) /\ Fresh(T, e)
  BY DEF Lands, Sound, Forms, Shape, FromV2, Has, Fresh, Early, Names
<1>3. Own(T, e)
  BY DEF Lands, Sound, Own, Converted, Half, Early, Has, Names
<1>4. QED
  BY <1>1, <1>2, <1>3 DEF Follows, Lands, Sound, Early

\* A tree is set aside: what is beside the store at any time, the live one only outside
\* a conversion.
LEMMA KeepFollows ==
  ASSUME NEW T, NEW D \in Directories, Lands(T, D), NEW n \in {"db", "next", "staging"},
         Has(D, n), n = "db" => Settled(T, D),
         NEW e \in Directories, e.kept = D.kept \cup {D.at[n]}, e.phase = D.phase,
         e.at[n] = Absent, \A m \in Names \ {n} : e.at[m] = D.at[m]
  PROVE  Follows(T, D, e) /\ (n = "db" => Settled(T, e))
<1>1. OneName(e)
  BY DEF Lands, Sound, OneName, Has, Names
<1>2. ~V2(T, D.at[n])
  BY DEF Lands, Sound, Forms, Settled, FromV2
<1>3. Forms(T, e)
  BY <1>2 DEF Lands, Sound, Forms, Has, Names
<1>4. (FromV2(T, e) => FromV2(T, D)) /\ (n # "db" => (FromV2(T, e) <=> FromV2(T, D)))
  BY DEF FromV2, Has, Names
<1>5. Shape(T, e) /\ Fresh(T, e)
  BY <1>4 DEF Lands, Sound, Shape, Settled, Has, Fresh, Early, Names
<1>6. Own(T, e)
  <2>1. CASE Half(D)
    <3>1. n # "db"
      BY <2>1 DEF Half, Settled
    <3>2. QED
      BY <2>1, <3>1 DEF Lands, Sound, Own, Converted, Half, Has, Names
  <2>2. CASE ~Half(D)
    <3>1. D.kept \cup {D.at["db"]} \subseteq e.kept \cup {e.at["db"]}
      BY DEF Names
    <3>2. QED
      BY <2>2, <3>1 DEF Lands, Sound, Own, Half
  <2>3. QED
    BY <2>1, <2>2
<1>7. QED
  BY <1>1, <1>3, <1>4, <1>5, <1>6 DEF Follows, Lands, Sound, Early, Settled

\* The tree that was set aside goes back to the live name.
LEMMA BackFollows ==
  ASSUME NEW T, NEW D \in Directories, Lands(T, D), Settled(T, D), ~Has(D, "db"),
         NEW t \in D.kept, NEW e \in Directories, e.kept = D.kept \ {t}, e.phase = D.phase,
         e.at["db"] = t, \A m \in Names \ {"db"} : e.at[m] = D.at[m]
  PROVE  Follows(T, D, e) /\ Settled(T, e)
<1>1. OneName(e)
  BY DEF Lands, Sound, OneName, Has, Names
<1>2. ~V2(T, t) /\ Forms(T, e) /\ ~FromV2(T, e)
  BY DEF Lands, Sound, Forms, Has, Names, FromV2
<1>3. Shape(T, e) /\ Fresh(T, e)
  BY <1>2 DEF Lands, Sound, Shape, Settled, Has, Fresh, Early, Names
<1>4. Own(T, e)
  <2>1. ~Half(e) /\ ~Half(D)
    BY DEF Settled, Half
  <2>2. PICK u \in D.kept \cup {D.at["db"]} : u \in Trees /\ Good(T, u)
    BY <2>1 DEF Lands, Sound, Own
  <2>3. u \in e.kept \cup {e.at["db"]}
    BY <2>2 DEF Has, Trees, Absent
  <2>4. QED
    BY <2>1, <2>2, <2>3 DEF Own
<1>5. QED
  BY <1>1, <1>2, <1>3, <1>4 DEF Follows, Lands, Sound, Early, Settled

\* What was built or extracted beside the store takes its name.
LEMMA PublishFollows ==
  ASSUME NEW T, NEW D \in Directories, Lands(T, D), Settled(T, D), ~Has(D, "db"),
         NEW n \in {"next", "staging"}, Has(D, n),
         NEW e \in Directories, e.kept = D.kept, e.phase = D.phase,
         e.at["db"] = D.at[n], e.at[n] = Absent,
         \A m \in Names \ {n, "db"} : e.at[m] = D.at[m]
  PROVE  Follows(T, D, e) /\ Settled(T, e)
<1>1. OneName(e)
  BY DEF Lands, Sound, OneName, Has, Names
<1>2. ~V2(T, D.at[n]) /\ Forms(T, e) /\ ~FromV2(T, e)
  BY DEF Lands, Sound, Forms, Has, Names, FromV2
<1>3. Shape(T, e) /\ Fresh(T, e)
  BY <1>2 DEF Lands, Sound, Shape, Settled, Has, Fresh, Early, Names
<1>4. Own(T, e)
  <2>1. ~Half(e) /\ ~Half(D)
    BY DEF Settled, Half
  <2>2. PICK u \in D.kept \cup {D.at["db"]} : u \in Trees /\ Good(T, u)
    BY <2>1 DEF Lands, Sound, Own
  <2>3. u \in e.kept \cup {e.at["db"]}
    BY <2>2 DEF Has, Trees, Absent
  <2>4. QED
    BY <2>1, <2>2, <2>3 DEF Own
<1>5. QED
  BY <1>1, <1>2, <1>3, <1>4 DEF Follows, Lands, Sound, Early, Settled

\* The phase moves on, or back to none when the stage is gone.
LEMMA PhaseFollows ==
  ASSUME NEW T, NEW D \in Directories, Lands(T, D), NEW e \in Directories,
         e.kept = D.kept, e.at = D.at,
         \/ D.phase = "none" /\ FromV2(T, D) /\ e.phase = "exporting"
         \/ Early(D) /\ ~Has(D, "stage") /\ e.phase = "none"
         \/ Half(D) /\ Half(e)
         \/ e.phase = D.phase
  PROVE  Follows(T, D, e)
<1>1. OneName(e) /\ Forms(T, e) /\ (FromV2(T, e) <=> FromV2(T, D)) /\ Fresh(T, e)
  BY DEF Lands, Sound, OneName, Forms, Has, FromV2, Fresh
<1>2. Shape(T, e) /\ (Early(e) <=> Early(D)) /\ (Half(e) <=> Half(D))
  BY <1>1 DEF Lands, Sound, Shape, Half, Early, Has
<1>3. Own(T, e)
  BY <1>2 DEF Lands, Sound, Own, Converted, Has
<1>4. QED
  BY <1>1, <1>2, <1>3 DEF Follows, Lands, Sound

\* The stage counts from here on. The v2 tree does not any more, so this directory may
\* not stand beside the earlier ones: only the sync takes it there.
LEMMA ValidatedLands ==
  ASSUME NEW T, NEW D \in Directories, Lands(T, D), D.phase = "exporting",
         Has(D, "stage"), Good(T, D.at["stage"]),
         NEW e \in Directories, e.kept = D.kept, e.at = D.at, e.phase = "validated"
  PROVE  Lands(T, e) /\ ~Early(e) /\ Half(e) /\ Has(e, "stage")
BY DEF Lands, Sound, OneName, Forms, Shape, Own, Converted, Half, Early, Has, FromV2, Fresh

\* The stage is the store, so the conversion may end.
LEMMA CompleteFollows ==
  ASSUME NEW T, NEW D \in Directories, Lands(T, D), Half(D), ~Has(D, "stage"),
         NEW e \in Directories, e.kept = D.kept, e.at = D.at, e.phase = "complete"
  PROVE  Follows(T, D, e)
<1>1. OneName(e) /\ Forms(T, e) /\ (FromV2(T, e) <=> FromV2(T, D)) /\ Fresh(T, e)
  BY DEF Lands, Sound, OneName, Forms, Has, FromV2, Fresh
<1>2. Has(D, "db") /\ Good(T, D.at["db"]) /\ ~V2(T, D.at["db"])
  BY DEF Lands, Sound, Own, Converted
<1>3. Shape(T, e) /\ ~Early(e) /\ ~Early(D) /\ ~Half(e)
  BY <1>1, <1>2 DEF Shape, Half, Early, Has, FromV2
<1>4. D.at["db"] \in Trees
  BY <1>2 DEF Has, Directories, Names
<1>5. Own(T, e)
  BY <1>2, <1>3, <1>4 DEF Own
<1>6. QED
  BY <1>1, <1>3, <1>5 DEF Follows, Lands, Sound

\* The v2 source is moved away, the stage takes its place, or it comes back.
LEMMA PreserveFollows ==
  ASSUME NEW T, NEW D \in Directories, Lands(T, D), Half(D), Has(D, "db"), ~Has(D, "backup"),
         NEW e \in Directories, e.kept = D.kept, e.phase = D.phase,
         e.at["backup"] = D.at["db"], e.at["db"] = Absent,
         \A m \in Names \ {"db", "backup"} : e.at[m] = D.at[m]
  PROVE  Follows(T, D, e) /\ Has(e, "stage") /\ ~Has(e, "db")
<1>1. Has(D, "stage") /\ V2(T, D.at["db"]) /\ Converted(T, D)
  BY DEF Lands, Sound, Own, Converted
<1>2. OneName(e)
  BY DEF Lands, Sound, OneName, Has, Names
<1>3. Forms(T, e)
  BY <1>1 DEF Lands, Sound, Forms, Has, Names
<1>4. Shape(T, e) /\ Fresh(T, e) /\ ~FromV2(T, e)
  BY DEF Lands, Shape, Has, FromV2, Half, Early, Fresh, Names
<1>5. Own(T, e)
  BY <1>1 DEF Own, Converted, Half, Has, Names
<1>6. QED
  BY <1>1, <1>2, <1>3, <1>4, <1>5 DEF Follows, Lands, Sound, Early, Has, Names

\* The stage takes the live name, with the sentinel in it.
LEMMA PromoteFollows ==
  ASSUME NEW T, NEW D \in Directories, Lands(T, D), Half(D), Has(D, "stage"), ~Has(D, "db"),
         T[D.at["stage"]].sentinel,
         NEW e \in Directories, e.kept = D.kept, e.phase = D.phase,
         e.at["db"] = D.at["stage"], e.at["stage"] = Absent,
         \A m \in Names \ {"db", "stage"} : e.at[m] = D.at[m]
  PROVE  Follows(T, D, e) /\ ~Has(e, "stage")
<1>1. Has(D, "backup") /\ Good(T, D.at["stage"]) /\ ~V2(T, D.at["stage"])
  BY DEF Lands, Sound, Own, Converted, Forms
<1>2. OneName(e)
  BY DEF Lands, Sound, OneName, Has, Names
<1>3. Forms(T, e)
  BY <1>1 DEF Lands, Sound, Forms, Has, Names
<1>4. Shape(T, e) /\ Fresh(T, e) /\ ~FromV2(T, e)
  BY <1>1 DEF Lands, Shape, Has, FromV2, Half, Early, Fresh, Names
<1>5. Own(T, e)
  BY <1>1 DEF Own, Converted, Half, Has, Names
<1>6. QED
  BY <1>1, <1>2, <1>3, <1>4, <1>5 DEF Follows, Lands, Sound, Early, Has, Names

\* The v2 source goes back to the live name while the stage is still there.
LEMMA RollbackFollows ==
  ASSUME NEW T, NEW D \in Directories, Lands(T, D), Half(D), Has(D, "stage"), ~Has(D, "db"),
         NEW e \in Directories, e.kept = D.kept, Half(e),
         e.at["db"] = D.at["backup"], e.at["backup"] = Absent,
         \A m \in Names \ {"db", "backup"} : e.at[m] = D.at[m]
  PROVE  Follows(T, D, e)
<1>1. Has(D, "backup") /\ V2(T, D.at["backup"]) /\ Good(T, D.at["stage"])
  BY DEF Lands, Sound, Own, Converted, Forms
<1>2. OneName(e)
  BY DEF Lands, Sound, OneName, Has, Names
<1>3. Forms(T, e)
  BY <1>1 DEF Lands, Sound, Forms, Has, Names
<1>4. Shape(T, e) /\ Fresh(T, e) /\ ~Early(e) /\ ~Early(D)
  BY <1>1 DEF Lands, Shape, Has, FromV2, Half, Early, Fresh, Names
<1>5. Own(T, e)
  BY <1>1 DEF Own, Converted, Half, Has, Names
<1>6. QED
  BY <1>1, <1>2, <1>3, <1>4, <1>5 DEF Follows, Lands, Sound

\* A new tree is made under a free name.
Made(T, U, S, t) ==
  /\ U \in [Trees -> Contents] /\ \A u \in Trees \ {t} : U[u] = T[u]
  /\ (\A d \in S : t \notin Refs(d)) /\ U[t].form = "now" /\ ~U[t].synced
\* e is D with the name n leading to t.
PutAt(D, e, n, t) ==
  /\ e \in Directories /\ e.kept = D.kept /\ e.phase = D.phase /\ e.at[n] = t
  /\ \A m \in Names \ {n} : e.at[m] = D.at[m]
\* The places the code makes a tree in, and when.
Room(D, n) ==
  /\ ~Has(D, n)
  /\ n = "db" => D.phase \in {"none", "complete"}
  /\ n = "stage" => D.phase = "exporting"

\* A tree that nothing led to can be made under any name the code makes one under.
LEMMA MadeKeeps ==
  ASSUME NEW T, NEW D, NEW S, Store(T, D, S), NEW U, NEW t \in Trees, Made(T, U, S, t),
         NEW n \in {"db", "stage", "next", "staging"}, Room(D, n),
         NEW e, PutAt(D, e, n, t)
  PROVE  /\ Store(U, e, S \cup {e})
         /\ n # "db" => (FromV2(U, e) <=> FromV2(T, D))
         /\ n = "db" => Settled(U, e)
<1> USE DEF Made, PutAt, Room
<1>1. D \in S /\ D \in Directories /\ T \in [Trees -> Contents] /\ t # Absent
  BY StoreStays DEF Trees, Absent
<1>2. t \notin D.kept /\ \A m \in Names : D.at[m] # t
  BY <1>1 DEF Refs
<1>3. ~V2(U, t)
  BY DEF V2
<1>4. Store(U, D, S) /\ (FromV2(U, D) <=> FromV2(T, D))
  <2>1. Harmless(T, D, S, U, t)
    BY <1>3 DEF Harmless
  <2>2. QED
    BY <1>2, <2>1, TreeKeeps DEF Names
<1>5. Lands(U, D) /\ Sound(U, D) /\ Fresh(U, D)
  BY <1>4, StoreStays DEF Lands
<1>6. OneName(e)
  BY <1>1, <1>2, <1>5 DEF Sound, OneName, Has, Names
<1>7. Forms(U, e)
  BY <1>3, <1>5 DEF Sound, Forms, Has, Names
<1>8. (FromV2(U, e) => FromV2(U, D)) /\ (n # "db" => (FromV2(U, e) <=> FromV2(U, D)))
      /\ (n = "db" => ~FromV2(U, e))
  BY <1>3 DEF FromV2, Has, Names
<1>9. Shape(U, e) /\ Fresh(U, e)
  BY <1>5, <1>8 DEF Sound, Shape, Early, Has, Fresh, Names
<1>10. Own(U, e)
  <2>1. CASE Half(D)
    BY <1>5, <2>1 DEF Sound, Own, Converted, Half, Has, Names
  <2>2. CASE ~Half(D)
    <3>1. PICK u \in D.kept \cup {D.at["db"]} : u \in Trees /\ Good(U, u)
      BY <1>5, <2>2 DEF Sound, Own
    <3>2. u \in e.kept \cup {e.at["db"]}
      BY <3>1 DEF Has, Trees, Absent, Names
    <3>3. QED
      BY <2>2, <3>1, <3>2 DEF Own, Half
  <2>3. QED
    BY <2>1, <2>2
<1>11. Follows(U, D, e)
  BY <1>6, <1>7, <1>8, <1>9, <1>10 DEF Follows, Lands, Sound, Early
<1>12. Store(U, e, S \cup {e})
  BY <1>4, <1>11, StoreMoves
<1>13. QED
  BY <1>4, <1>8, <1>12 DEF Settled

\* Power goes: what was being made is set aside, and what was not synced may be torn.
LEMMA PowerLossKeeps ==
  ASSUME NEW T, NEW D, NEW S, Store(T, D, S), NEW d \in S, NEW U \in [Trees -> Contents],
         \A t \in Trees : /\ U[t].form = T[t].form /\ U[t].sentinel = T[t].sentinel
                          /\ U[t].synced /\ (T[t].synced => U[t].data = T[t].data),
         NEW e \in Directories, e.phase = d.phase,
         e.kept = d.kept \cup ({d.at["next"], d.at["staging"]} \ {Absent}),
         e.at["next"] = Absent, e.at["staging"] = Absent,
         \A m \in Names \ {"next", "staging"} : e.at[m] = d.at[m]
  PROVE  Store(U, e, {e})
<1>1. d \in Directories /\ Sound(T, d) /\ SourceGood(T, d) /\ T \in [Trees -> Contents]
  BY DEF Store, SourceGood
<1>2. Refs(d) \subseteq Trees
  BY <1>1 DEF Directories, Refs
<1>3. \A t \in Trees : Good(T, t) => Good(U, t)
  BY DEF Good
<1>4. Sound(U, d) /\ (FromV2(U, d) <=> FromV2(T, d))
  BY <1>1, <1>2, <1>3, SoundStays DEF Relied, V2
<1>5. SourceGood(U, e)
  BY <1>1, <1>3 DEF SourceGood, V2, Early
<1>6. OneName(e)
  BY <1>4 DEF Sound, OneName, Has, Names
<1>7. Forms(U, e)
  BY <1>4 DEF Sound, Forms, Has, Names
<1>8. Shape(U, e)
  BY <1>4 DEF Sound, Shape, Has, FromV2, Early, Names
<1>9. Own(U, e)
  BY <1>4 DEF Sound, Own, Converted, Half, Has, Names
<1>10. Fresh(U, e)
  BY DEF Fresh, Has
<1>11. QED
  BY <1>5, <1>6, <1>7, <1>8, <1>9, <1>10 DEF Store, Sound, SourceStays

-----------------------------------------------------------------------------
\* The processes.

Pcs == {"off", "refused", "resume", "discard", "unphase", "finish", "preserved",
        "promote", "rollback", "complete", "reclaim", "settle", "peek", "export",
        "exporting", "import", "validate", "build", "set aside", "publish",
        "put back", "drop next", "open", "scratch"}

Kinds ==
  /\ pc \in Pcs /\ angel \in {"none", "extract", "set aside", "install", "put back", "drop"}
  /\ aside \in Trees \cup {Absent} /\ displaced \in Trees \cup {Absent}
  /\ incidents \in 0 .. MaxIncidents /\ restores \in 0 .. MaxRestores

\* What a launch that has come to p has found or made.
Reached(p, T, D) ==
  /\ p = "discard" => D.phase = "exporting"
  /\ p = "unphase" => D.phase = "exporting" /\ ~Has(D, "stage")
  /\ p = "finish" => Half(D)
  /\ p \in {"preserved", "promote", "rollback"} =>
       Half(D) /\ Has(D, "stage") /\ ~Has(D, "db")
  /\ p = "complete" => Half(D) /\ ~Has(D, "stage")
  /\ p \in {"reclaim", "settle"} => D.phase = "complete"
  /\ p \in {"peek", "scratch"} => D.phase \in {"none", "complete"}
  /\ p \in {"export", "exporting"} => D.phase = "none" /\ FromV2(T, D)
  /\ p = "import" => D.phase = "exporting"
  /\ p = "validate" =>
       D.phase = "exporting" /\ Has(D, "stage") /\ T[D.at["stage"]].data = "whole"
  /\ p \in {"build", "set aside", "publish", "put back", "drop next", "open"} => Settled(T, D)

\* What can be put back is among the kept trees.
AsideKept ==
  /\ pc \in {"publish", "put back"} => aside \in dir.kept
  /\ angel \in {"install", "put back"} => displaced \in dir.kept
  /\ pc \in {"publish", "put back"} /\ angel \in {"install", "put back"} => aside # displaced

\* The inductive invariant.
IInv ==
  /\ Store(tree, dir, survivors) /\ Kinds
  /\ Reached(pc, tree, dir) /\ (angel # "none" => Settled(tree, dir))
  /\ AsideKept

\* The store of an owner before the first launch.
LEMMA InitIInv == Init => IInv
<1> SUFFICES ASSUME Init PROVE IInv
  OBVIOUS
<1>1. 1 \in Trees
  BY BoundsAssumption DEF Trees
<1>2. PICK form \in {"v2", "old", "now"}, phase \in {"none", "complete"} :
        /\ form = "v2" => phase = "none"
        /\ dir = [at |-> [n \in Names |-> IF n = "db" THEN 1 ELSE Absent],
                  kept |-> {}, phase |-> phase]
        /\ tree = [t \in Trees |->
             [form |-> form, data |-> "whole", synced |-> TRUE, sentinel |-> FALSE]]
  BY DEF Init
<1>3. dir \in Directories /\ tree \in [Trees -> Contents]
  BY <1>1, <1>2 DEF Directories, Contents, Phases
<1>4. \A t \in Trees : Good(tree, t) /\ (V2(tree, t) <=> form = "v2")
  BY <1>2 DEF Good, V2
<1>5. Has(dir, "db") /\ \A n \in Names \ {"db"} : ~Has(dir, n)
  BY <1>2 DEF Has, Absent, Names
<1>6. dir.at["db"] = 1 /\ dir.kept = {} /\ dir.phase = phase
  BY <1>2 DEF Names
<1>7. OneName(dir) /\ Forms(tree, dir)
  BY <1>1, <1>5, <1>6 DEF OneName, Forms, Names, Has, Absent
<1>8. Shape(tree, dir) /\ Own(tree, dir)
  BY <1>1, <1>2, <1>4, <1>5, <1>6 DEF Shape, Own, Half, Names, FromV2
<1>9. Store(tree, dir, {dir})
  BY <1>3, <1>4, <1>5, <1>7, <1>8 DEF Store, Sound, SourceGood, SourceStays, Fresh, Names
<1>10. Kinds
  BY BoundsAssumption DEF Init, Kinds, Pcs
<1>11. QED
  BY <1>9, <1>10 DEF Init, IInv, Reached, AsideKept

\* A step of the app, as the invariant sees it.
LEMMA AppKeeps ==
  ASSUME IInv, OnlyApp, Store(tree', dir', survivors'), dir'.kept = dir.kept,
         Settled(tree, dir) => Settled(tree', dir'),
         incidents' \in 0 .. MaxIncidents, pc' \in Pcs \ {"publish", "put back"},
         aside' \in Trees \cup {Absent}, Reached(pc', tree', dir')
  PROVE  IInv'
<1>1. angel' = angel /\ displaced' = displaced /\ restores' = restores
  BY DEF OnlyApp, helper
<1>2. Kinds'
  BY <1>1 DEF IInv, Kinds
<1>3. AsideKept'
  BY <1>1 DEF IInv, AsideKept
<1>4. QED
  BY <1>1, <1>2, <1>3 DEF IInv

\* Incidents stay within their bound.
LEMMA IncidentsBounded ==
  ASSUME IInv, Incident \/ UNCHANGED incidents
  PROVE  incidents' \in 0 .. MaxIncidents
<1>1. incidents \in 0 .. MaxIncidents /\ MaxIncidents \in Nat
  BY BoundsAssumption DEF IInv, Kinds
<1>2. CASE incidents < MaxIncidents /\ incidents' = incidents + 1
  BY <1>1, <1>2
<1>3. CASE incidents' = incidents
  BY <1>1, <1>3
<1>4. QED
  BY <1>2, <1>3 DEF Incident

\* What the invariant says of the disk.
LEMMA InvStore ==
  ASSUME IInv
  PROVE  /\ Store(tree, dir, survivors) /\ aside \in Trees \cup {Absent}
         /\ dir \in Directories /\ dir \in survivors /\ survivors \cup {dir} = survivors
         /\ Lands(tree, dir) /\ Sound(tree, dir) /\ Follows(tree, dir, dir)
         /\ SourceGood(tree, dir) /\ tree \in [Trees -> Contents]
<1>1. Store(tree, dir, survivors) /\ aside \in Trees \cup {Absent}
  BY DEF IInv, Kinds
<1>2. QED
  BY <1>1, StoreStays DEF Lands

\* A step that succeeds, or an error of it.
LEMMA StepKeeps ==
  ASSUME IInv, NEW from, NEW e, NEW to \in Pcs \ {"publish", "put back"}, Step(from, e, to),
         Follows(tree, dir, e), e.kept = dir.kept, Settled(tree, dir) => Settled(tree, e),
         Reached(to, tree, e)
  PROVE  IInv'
<1>1. OnlyApp /\ tree' = tree /\ aside' = aside
  BY DEF Step, Goes
<1>2. incidents' \in 0 .. MaxIncidents
  BY IncidentsBounded DEF Step
<1>3. Store(tree, dir, survivors) /\ aside \in Trees \cup {Absent}
  BY DEF IInv, Kinds
<1>4. Lands(tree, e) /\ SourceGood(tree, e)
  BY <1>3, StoreStays, FollowsLands
<1>5. Store(tree, e, {e}) /\ Store(tree, e, survivors \cup {e})
  BY <1>3, <1>4, StoreSyncs, StoreMoves
<1>6. survivors \cup {dir} = survivors
  BY <1>3, StoreStays
<1>7. Reached("off", tree, e) /\ Reached("off", tree, dir)
  BY DEF Reached
<1>8. CASE Syncs(e) /\ Goes(to)
  BY <1>1, <1>2, <1>3, <1>5, <1>8, AppKeeps DEF Syncs, Goes
<1>9. CASE Changes(e) /\ Goes("off")
  BY <1>1, <1>2, <1>3, <1>5, <1>7, <1>9, AppKeeps DEF Changes, Goes, Pcs
<1>10. CASE Changes(dir) /\ Goes("off")
  BY <1>1, <1>2, <1>3, <1>6, <1>7, <1>10, AppKeeps DEF Changes, Goes, Pcs
<1>11. QED
  BY <1>8, <1>9, <1>10 DEF Step

\* A step that only looks and goes on.
LEMMA DecidesKeeps ==
  ASSUME IInv, NEW from, NEW to \in Pcs \ {"publish", "put back"}, Decides(from, to),
         Reached(to, tree, dir)
  PROVE  IInv'
<1>1. /\ OnlyApp /\ tree' = tree /\ dir' = dir /\ survivors' = survivors
      /\ aside' = aside /\ pc' = to /\ incidents' = incidents
  BY DEF Decides, Goes, disk
<1>2. Store(tree, dir, survivors) /\ incidents \in 0 .. MaxIncidents /\ aside \in Trees \cup {Absent}
  BY DEF IInv, Kinds
<1>3. QED
  BY <1>1, <1>2, AppKeeps

\* A removal, or one that stops halfway.
LEMMA RemovalKeeps ==
  ASSUME IInv, NEW from, NEW n \in {"stage", "backup"},
         NEW to \in Pcs \ {"publish", "put back"}, Removal(from, n, to),
         n = "stage" => Early(dir) /\ (Has(dir, "stage") => FromV2(tree, dir)),
         n = "backup" => dir.phase = "complete",
         Reached(to, tree, Unlinked(n))
  PROVE  IInv'
<1>1. OnlyApp /\ aside' = aside
  BY DEF Removal, Goes
<1>2. incidents' \in 0 .. MaxIncidents
  BY IncidentsBounded DEF Removal
<1>3. /\ Store(tree, dir, survivors) /\ aside \in Trees \cup {Absent}
      /\ dir \in Directories /\ Lands(tree, dir) /\ survivors \cup {dir} = survivors
      /\ Sound(tree, dir) /\ tree \in [Trees -> Contents]
  BY InvStore
<1> DEFINE e == Unlinked(n)
<1>4. /\ e \in Directories /\ e.kept = dir.kept /\ e.phase = dir.phase /\ e.at[n] = Absent
      /\ \A m \in Names \ {n} : e.at[m] = dir.at[m]
  <2>1. n \in Names /\ Absent \in Trees \cup {Absent}
    BY DEF Names
  <2>2. QED
    BY <1>3, <2>1, PutEffect, Zenon DEF Unlinked, Put
<1>5. CASE Changes(e) /\ Goes(to) /\ tree' = tree
  <2>1. Follows(tree, dir, e)
    BY <1>3, <1>4, UnlinkFollows DEF Names
  <2>2. Store(tree, e, survivors \cup {e})
    BY <1>3, <2>1, StoreMoves
  <2>3. Settled(tree, dir) => Settled(tree, e)
    BY <1>4 DEF Settled, FromV2, Has, Names
  <2> HIDE DEF e
  <2>4. Reached(to, tree, e)
    BY DEF e
  <2>5. QED
    BY <1>1, <1>2, <1>3, <1>4, <1>5, <2>2, <2>3, <2>4, AppKeeps DEF Changes, Goes
<1>6. CASE /\ There(n) /\ Goes("off") /\ Changes(dir)
           /\ tree' = [tree EXCEPT ![dir.at[n]].data = "torn"]
  <2> DEFINE t == dir.at[n]
  <2>1. t \in Trees /\ Has(dir, n)
    BY <1>3, <1>6 DEF There, Has, Directories, Names
  <2>2. /\ tree' \in [Trees -> Contents] /\ tree'[t].form = tree[t].form
        /\ tree'[t].sentinel = tree[t].sentinel /\ tree'[t].synced = tree[t].synced
        /\ \A u \in Trees \ {t} : tree'[u] = tree[u]
    BY <1>3, <1>6, <2>1 DEF Contents
  <2>3. \/ Early(dir) /\ FromV2(tree, dir) /\ ~V2(tree, t)
        \/ ~Early(dir) /\ V2(tree, t)
    <3>1. Forms(tree, dir)
      BY <1>3 DEF Sound
    <3>2. CASE n = "stage"
      BY <2>1, <3>1, <3>2 DEF Forms
    <3>3. CASE n = "backup"
      BY <2>1, <3>1, <3>3 DEF Forms, Early
    <3>4. QED
      BY <3>2, <3>3
  <2> HIDE DEF t
  <2>4. Store(tree', dir, survivors) /\ (FromV2(tree', dir) <=> FromV2(tree, dir))
    <3>1. Harmless(tree, dir, survivors, tree', t)
      BY <2>2, <2>3 DEF Harmless
    <3>2. QED
      BY <1>3, <2>1, <2>2, <3>1, TreeKeeps
  <2>5. Reached("off", tree', dir)
    BY DEF Reached
  <2>6. QED
    BY <1>1, <1>2, <1>3, <1>6, <2>4, <2>5, AppKeeps DEF Changes, Goes, Settled, Pcs
<1>7. QED
  BY <1>5, <1>6 DEF Removal

\* The steps of a resumed conversion.
LEMMA InvReached ==
  ASSUME IInv
  PROVE  Reached(pc, tree, dir) /\ (angel # "none" => Settled(tree, dir))
BY DEF IInv

\* A launch knows nothing yet.
LEMMA LaunchKeeps ==
  ASSUME IInv, Launch
  PROVE  IInv'
<1>1. /\ OnlyApp /\ tree' = tree /\ dir' = dir /\ survivors' = survivors
      /\ aside' = Absent /\ pc' = "resume" /\ incidents' = incidents
  BY DEF Launch, disk
<1>2. Store(tree, dir, survivors) /\ incidents \in 0 .. MaxIncidents
  BY DEF IInv, Kinds
<1>3. Reached("resume", tree, dir)
  BY DEF Reached
<1>4. QED
  BY <1>1, <1>2, <1>3, AppKeeps DEF Pcs

\* The phase leads to where it was left: no stage is discarded that counts.
LEMMA ResumeKeeps ==
  ASSUME IInv, Resume
  PROVE  IInv'
<1>1. dir \in Directories /\ Shape(tree, dir)
  BY InvStore DEF Sound
<1>2. PICK to \in Pcs : Decides("resume", to) /\
        to = CASE dir.phase = "none" ->
                    IF ~There("db") /\ There("backup") THEN "finish" ELSE "peek"
               [] dir.phase = "exporting" ->
                    IF There("db") /\ ~There("backup") THEN "discard" ELSE "refused"
               [] dir.phase \in {"validated", "source-preserved"} -> "finish"
               [] dir.phase = "complete" ->
                    IF There("db") /\ ~There("stage") THEN "reclaim" ELSE "refused"
  <2>1. dir.phase \in Phases
    BY <1>1 DEF Directories
  <2>2. QED
    BY <2>1 DEF Resume, Pcs, Phases
<1>3. Reached(to, tree, dir)
  <2>1. CASE dir.phase = "none"
    <3>1. to = "peek"
      BY <1>1, <1>2, <2>1 DEF Shape, Early, There, Has
    <3>2. QED
      BY <2>1, <3>1 DEF Reached
  <2>2. CASE dir.phase = "exporting"
    <3>1. to \in {"discard", "refused"}
      BY <1>2, <2>2
    <3>2. QED
      BY <2>2, <3>1 DEF Reached
  <2>3. CASE dir.phase \in {"validated", "source-preserved"}
    <3>1. to = "finish"
      BY <1>2, <2>3
    <3>2. QED
      BY <2>3, <3>1 DEF Reached, Half
  <2>4. CASE dir.phase = "complete"
    <3>1. to \in {"reclaim", "refused"}
      BY <1>2, <2>4
    <3>2. QED
      BY <2>4, <3>1 DEF Reached
  <2>5. QED
    BY <1>1, <2>1, <2>2, <2>3, <2>4 DEF Directories, Phases
<1>4. to \notin {"publish", "put back"}
  BY <1>1, <1>2 DEF Directories, Phases
<1>5. QED
  BY <1>2, <1>3, <1>4, DecidesKeeps

\* The stage that is discarded did not count.
LEMMA DiscardKeeps ==
  ASSUME IInv, Discard
  PROVE  IInv'
<1>1. dir \in Directories /\ Shape(tree, dir) /\ pc = "discard"
  BY InvStore DEF Sound, Discard, Removal
<1>2. dir.phase = "exporting" /\ FromV2(tree, dir) /\ Early(dir)
  BY <1>1, InvReached DEF Reached, Shape, Early
<1>3. Reached("unphase", tree, Unlinked("stage"))
  BY <1>1, <1>2 DEF Reached, Unlinked, Put, Has, Directories, Names
<1>4. QED
  BY <1>2, <1>3, RemovalKeeps DEF Discard, Pcs

\* The phase goes back to none only when the stage is gone.
LEMMA UnphaseKeeps ==
  ASSUME IInv, Unphase
  PROVE  IInv'
<1> DEFINE e == [dir EXCEPT !.phase = "none"]
<1>1. dir \in Directories /\ Lands(tree, dir) /\ pc = "unphase" /\ Step("unphase", e, "peek")
  BY InvStore DEF Unphase, Step
<1>2. e \in Directories /\ e.kept = dir.kept /\ e.phase = "none" /\ e.at = dir.at
  BY <1>1 DEF Directories, Phases
<1> HIDE DEF e
<1>3. Early(dir) /\ ~Has(dir, "stage") /\ ~Settled(tree, dir)
  BY <1>1, InvReached DEF Reached, Early, Settled
<1>4. Follows(tree, dir, e)
  BY <1>1, <1>2, <1>3, PhaseFollows
<1>5. Reached("peek", tree, e)
  BY <1>2 DEF Reached
<1>6. QED
  BY <1>1, <1>2, <1>3, <1>4, <1>5, StepKeeps DEF Pcs

\* The promotion goes on from the half it is in.
LEMMA FinishDecidesKeeps ==
  ASSUME IInv, FinishDecides
  PROVE  IInv'
<1>1. PICK to \in Pcs \ {"publish", "put back"} : Decides("finish", to) /\
        to = IF There("db") THEN IF ~There("stage") /\ Promoted THEN "complete" ELSE "refused"
             ELSE IF There("backup") THEN "preserved" ELSE "refused"
  BY DEF FinishDecides, Pcs
<1>2. Half(dir) /\ Converted(tree, dir)
  BY <1>1, InvReached, InvStore DEF Decides, Reached, Sound, Own
<1>3. Reached(to, tree, dir)
  <2>1. CASE to = "complete"
    BY <1>1, <1>2, <2>1 DEF Reached, There, Has
  <2>2. CASE to = "refused"
    BY <2>2 DEF Reached
  <2>3. CASE to = "preserved"
    BY <1>1, <1>2, <2>3 DEF Reached, There, Has, Converted
  <2>4. QED
    BY <1>1, <2>1, <2>2, <2>3
<1>4. QED
  BY <1>1, <1>3, DecidesKeeps

\* The v2 source becomes the backup while the stage counts.
LEMMA PreserveKeeps ==
  ASSUME IInv, Preserve
  PROVE  IInv'
<1> DEFINE e == Renamed("db", "backup")
<1>1. /\ dir \in Directories /\ Lands(tree, dir) /\ Step("finish", e, "preserved")
      /\ pc = "finish" /\ Has(dir, "db") /\ ~Has(dir, "backup")
  BY InvStore DEF Preserve, Step, There, Has
<1>2. /\ e \in Directories /\ e.kept = dir.kept /\ e.phase = dir.phase
      /\ e.at["backup"] = dir.at["db"] /\ e.at["db"] = Absent
      /\ \A l \in Names \ {"db", "backup"} : e.at[l] = dir.at[l]
  BY <1>1 DEF Renamed, Directories, Names
<1> HIDE DEF e
<1>3. Half(dir) /\ ~Settled(tree, dir)
  BY <1>1, InvReached DEF Reached, Half, Settled
<1>4. Follows(tree, dir, e) /\ Has(e, "stage") /\ ~Has(e, "db")
  BY <1>1, <1>2, <1>3, PreserveFollows
<1>5. Reached("preserved", tree, e)
  BY <1>2, <1>3, <1>4 DEF Reached, Half
<1>6. QED
  BY <1>1, <1>2, <1>3, <1>4, <1>5, StepKeeps DEF Pcs

\* The marker follows what was done.
LEMMA MarkPreservedKeeps ==
  ASSUME IInv, MarkPreserved
  PROVE  IInv'
<1> DEFINE e == [dir EXCEPT !.phase = "source-preserved"]
<1>1. dir \in Directories /\ Lands(tree, dir) /\ pc = "preserved"
  BY InvStore DEF MarkPreserved, Step
<1>2. Half(dir) /\ ~Settled(tree, dir) /\ Has(dir, "stage") /\ ~Has(dir, "db")
  BY <1>1, InvReached DEF Reached, Half, Settled
<1>3. Step("preserved", e, "promote")
  BY <1>2 DEF MarkPreserved, There, Has
<1>4. e \in Directories /\ e.kept = dir.kept /\ e.phase = "source-preserved" /\ e.at = dir.at
  BY <1>1 DEF Directories, Phases
<1> HIDE DEF e
<1>5. Half(e) /\ Follows(tree, dir, e)
  BY <1>1, <1>2, <1>4, PhaseFollows DEF Half
<1>6. Reached("promote", tree, e)
  BY <1>2, <1>4, <1>5 DEF Reached, Has, Half
<1>7. QED
  BY <1>2, <1>3, <1>4, <1>5, <1>6, StepKeeps DEF Pcs

\* The sentinel is written, and then the stage is renamed.
LEMMA PromoteKeeps ==
  ASSUME IInv, Promote
  PROVE  IInv'
<1> DEFINE e == Renamed("stage", "db")
<1>1. /\ Store(tree, dir, survivors) /\ dir \in Directories /\ Sound(tree, dir)
      /\ survivors \cup {dir} = survivors /\ tree \in [Trees -> Contents]
      /\ OnlyApp /\ aside' = aside /\ aside \in Trees \cup {Absent} /\ pc = "promote"
  BY InvStore DEF Promote, Goes
<1>2. Half(dir) /\ ~Settled(tree, dir) /\ Has(dir, "stage") /\ ~Has(dir, "db") /\ ~Early(dir)
  BY <1>1, InvReached DEF Reached, Half, Settled, Early
<1>3. incidents' \in 0 .. MaxIncidents
  BY IncidentsBounded DEF Promote
<1> DEFINE t == dir.at["stage"]
<1>4. t \in Trees /\ Good(tree, t) /\ OneName(dir)
  BY <1>1, <1>2 DEF Has, Directories, Names, Sound, Own, Converted
<1>5. /\ tree' \in [Trees -> Contents] /\ \A u \in Trees \ {t} : tree'[u] = tree[u]
      /\ tree'[t].form = tree[t].form /\ tree'[t].sentinel
      /\ tree'[t].data = tree[t].data /\ tree'[t].synced = tree[t].synced
  BY <1>1, <1>4 DEF Promote, Sentinel, Contents
<1>6. Store(tree', dir, survivors)
  <2> HIDE DEF t
  <2>1. Harmless(tree, dir, survivors, tree', t)
    BY <1>4, <1>5 DEF Harmless, Good
  <2>2. QED
    BY <1>1, <1>4, <1>5, <2>1, TreeKeeps
<1>7. Lands(tree', dir) /\ SourceGood(tree', dir)
  BY <1>6, StoreStays DEF Lands
<1>8. /\ e \in Directories /\ e.kept = dir.kept /\ e.phase = dir.phase
      /\ e.at["db"] = t /\ e.at["stage"] = Absent
      /\ \A l \in Names \ {"db", "stage"} : e.at[l] = dir.at[l]
  BY <1>1 DEF Renamed, Directories, Names
<1>9. Follows(tree', dir, e) /\ ~Has(e, "stage")
  BY <1>1, <1>2, <1>5, <1>7, <1>8, PromoteFollows
<1>10. Store(tree', e, {e}) /\ Store(tree', e, survivors \cup {e})
  BY <1>6, <1>7, <1>9, FollowsLands, StoreSyncs, StoreMoves
<1>11. Reached("complete", tree', e)
  BY <1>2, <1>8, <1>9 DEF Reached, Half
<1>12. Reached("off", tree', e) /\ Reached("off", tree', dir) /\ Reached("rollback", tree', dir)
  BY <1>2 DEF Reached
<1> HIDE DEF e, t
<1>13. CASE Syncs(e) /\ Goes("complete")
  BY <1>1, <1>2, <1>3, <1>8, <1>10, <1>11, <1>13, AppKeeps DEF Syncs, Goes, Pcs
<1>14. CASE Changes(e) /\ Goes("off")
  BY <1>1, <1>2, <1>3, <1>8, <1>10, <1>12, <1>14, AppKeeps DEF Changes, Goes, Pcs
<1>15. CASE Changes(dir) /\ Goes(IF There("db") THEN "off" ELSE "rollback")
  <2>1. pc' = "rollback" /\ dir' = dir /\ survivors' = survivors
    BY <1>1, <1>2, <1>15 DEF Goes, Changes, There, Has
  <2>2. QED
    BY <1>1, <1>2, <1>3, <1>6, <1>12, <2>1, AppKeeps DEF Pcs
<1>16. QED
  BY <1>13, <1>14, <1>15 DEF Promote, e

\* The launch ends before the promotion.
LEMMA UnmarkedKeeps ==
  ASSUME IInv, Unmarked
  PROVE  IInv'
<1>1. /\ OnlyApp /\ tree' = tree /\ dir' = dir /\ survivors' = survivors
      /\ aside' = aside /\ pc' = "off"
  BY DEF Unmarked, disk
<1>2. incidents' \in 0 .. MaxIncidents
  BY IncidentsBounded DEF Unmarked
<1>3. Reached("off", tree, dir)
  BY DEF Reached
<1>4. QED
  BY <1>1, <1>2, <1>3, InvStore, AppKeeps DEF Pcs

\* The promotion that failed is undone, or left half done.
LEMMA RollbackKeeps ==
  ASSUME IInv, Rollback
  PROVE  IInv'
<1> DEFINE e == Renamed("backup", "db")
           f == [e EXCEPT !.phase = "validated"]
<1>1. /\ Store(tree, dir, survivors) /\ dir \in Directories /\ Lands(tree, dir)
      /\ survivors \cup {dir} = survivors
      /\ OnlyApp /\ tree' = tree /\ aside' = aside /\ aside \in Trees \cup {Absent}
      /\ pc = "rollback" /\ pc' = "off"
  BY InvStore DEF Rollback, Goes
<1>2. Half(dir) /\ ~Settled(tree, dir) /\ Has(dir, "stage") /\ ~Has(dir, "db")
  BY <1>1, InvReached DEF Reached, Half, Settled
<1>3. incidents' \in 0 .. MaxIncidents
  BY IncidentsBounded DEF Rollback
<1>4. /\ e \in Directories /\ e.kept = dir.kept /\ e.phase = dir.phase
      /\ e.at["db"] = dir.at["backup"] /\ e.at["backup"] = Absent
      /\ \A l \in Names \ {"db", "backup"} : e.at[l] = dir.at[l]
  BY <1>1 DEF Renamed, Directories, Names
<1>5. f \in Directories /\ f.kept = e.kept /\ f.phase = "validated" /\ f.at = e.at
  BY <1>4 DEF Directories, Phases
<1> HIDE DEF e
<1>6. Follows(tree, dir, e)
  BY <1>1, <1>2, <1>4, RollbackFollows DEF Half
<1> DEFINE g == f
<1>7. Follows(tree, dir, g)
  <2>1. /\ g \in Directories /\ g.kept = dir.kept /\ Half(g)
        /\ g.at["db"] = dir.at["backup"] /\ g.at["backup"] = Absent
        /\ \A l \in Names \ {"db", "backup"} : g.at[l] = dir.at[l]
    BY <1>4, <1>5 DEF Half
  <2> HIDE DEF g
  <2>2. QED
    BY <1>1, <1>2, <2>1, RollbackFollows
<1> HIDE DEF g
<1>8. Store(tree, e, survivors \cup {e})
  BY <1>1, <1>6, StoreMoves
<1>9. Store(tree, g, {g})
  BY <1>1, <1>7, FollowsLands, StoreStays, StoreSyncs
<1>10. Reached("off", tree, e) /\ Reached("off", tree, g) /\ Reached("off", tree, dir)
  BY DEF Reached
<1>11. CASE Syncs(g)
  BY <1>1, <1>2, <1>3, <1>4, <1>5, <1>9, <1>10, <1>11, AppKeeps DEF Syncs, Pcs, g
<1>12. CASE Changes(e)
  BY <1>1, <1>2, <1>3, <1>4, <1>8, <1>10, <1>12, AppKeeps DEF Changes, Pcs
<1>13. CASE Changes(dir)
  BY <1>1, <1>2, <1>3, <1>10, <1>13, AppKeeps DEF Changes, Pcs
<1>14. QED
  BY <1>11, <1>12, <1>13 DEF Rollback, e, g

\* The end of a conversion is written down.
LEMMA MarkCompleteKeeps ==
  ASSUME IInv, MarkComplete
  PROVE  IInv'
<1> DEFINE e == [dir EXCEPT !.phase = "complete"]
<1>1. dir \in Directories /\ Lands(tree, dir) /\ pc = "complete" /\ Step("complete", e, "reclaim")
  BY InvStore DEF MarkComplete, Step
<1>2. e \in Directories /\ e.kept = dir.kept /\ e.phase = "complete" /\ e.at = dir.at
  BY <1>1 DEF Directories, Phases
<1> HIDE DEF e
<1>3. Half(dir) /\ ~Has(dir, "stage") /\ ~Settled(tree, dir)
  BY <1>1, InvReached DEF Reached, Half, Settled
<1>4. Follows(tree, dir, e)
  BY <1>1, <1>2, <1>3, CompleteFollows
<1>5. Reached("reclaim", tree, e)
  BY <1>2 DEF Reached
<1>6. QED
  BY <1>1, <1>2, <1>3, <1>4, <1>5, StepKeeps DEF Pcs

\* The backup goes once the conversion is over.
LEMMA ReclaimKeeps ==
  ASSUME IInv, Reclaim
  PROVE  IInv'
<1>1. pc = "reclaim" /\ dir.phase = "complete" /\ dir \in Directories
  BY InvReached, InvStore DEF Reclaim, Removal, Reached
<1>2. Reached("settle", tree, Unlinked("backup"))
  BY <1>1 DEF Reached, Unlinked, Put, Directories
<1>3. QED
  BY <1>1, <1>2, RemovalKeeps DEF Reclaim, Pcs

\* The removal of the backup is synced.
LEMMA SettleKeeps ==
  ASSUME IInv, Settle
  PROVE  IInv'
<1>1. pc = "settle" /\ dir.phase = "complete" /\ Step("settle", dir, "peek")
      /\ Follows(tree, dir, dir)
  BY InvReached, InvStore DEF Settle, Step, Reached
<1>2. Reached("peek", tree, dir)
  BY <1>1 DEF Reached
<1>3. QED
  BY <1>1, <1>2, StepKeeps DEF Pcs

-----------------------------------------------------------------------------
\* The steps that make a store.

\* A set of numbers that is not empty has a least one.
LEMMA LeastNumber ==
  ASSUME NEW S \in SUBSET Nat, S # {}
  PROVE  \E m \in S : \A n \in S : m <= n
<1> DEFINE R == {ss \in Nat \X Nat : ss[1] < ss[2]}
<1>1. IsWellFoundedOn(R, Nat)
  BY NatLessThanWellFounded, Zenon DEF OpToRel
<1>2. PICK m \in S : \A n \in S : ~ (<<n, m>> \in R)
  <2> HIDE DEF R
  <2>1. S \subseteq Nat
    OBVIOUS
  <2>2. QED
    BY <1>1, <2>1, WFMin, Zenon
<1>3. ASSUME NEW n \in S PROVE m <= n
  <2>1. n \in Nat /\ m \in Nat /\ <<n, m>> \notin R
    BY <1>2
  <2>2. ~(n < m)
    BY <2>1
  <2>3. QED
    BY <2>1, <2>2
<1>4. QED
  BY <1>3

\* The tree that is made is one that no survivor leads to.
LEMMA MakesEffect ==
  ASSUME IInv, NEW n \in {"db", "stage", "next", "staging"}, ~There(n),
         NEW data \in {"torn", "fresh"}, Makes(n, "now", data),
         n = "db" => dir.phase \in {"none", "complete"}, n = "stage" => dir.phase = "exporting"
  PROVE  /\ Store(tree', dir', survivors') /\ dir'.kept = dir.kept /\ dir'.phase = dir.phase
         /\ n # "db" => (FromV2(tree', dir') <=> FromV2(tree, dir))
         /\ n = "db" => Settled(tree', dir')
<1>1. /\ Store(tree, dir, survivors) /\ dir \in Directories /\ tree \in [Trees -> Contents]
      /\ \A d \in survivors : d \in Directories
  BY InvStore DEF Store
<1>2. PICK t \in Unused : tree' = [tree EXCEPT ![t] = NewTree("now", data)] /\ Changes(Put(n, t))
  <2>1. Unused \in SUBSET Nat /\ Unused # {}
    BY DEF Unused, Makes, Trees
  <2>2. \E t \in Unused : \A u \in Unused : t <= u
    BY <2>1, LeastNumber
  <2>3. QED
    BY <2>2 DEF Makes
<1>3. t \in Trees /\ \A d \in survivors : t \notin Refs(d)
  BY <1>2 DEF Unused, Refs
<1>4. /\ tree' \in [Trees -> Contents] /\ \A u \in Trees \ {t} : tree'[u] = tree[u]
      /\ tree'[t].form = "now" /\ ~tree'[t].synced
  <2>1. NewTree("now", data) \in Contents /\ NewTree("now", data).form = "now"
        /\ ~NewTree("now", data).synced
    BY DEF NewTree, Contents
  <2>2. QED
    BY <1>1, <1>2, <1>3, <2>1
<1> DEFINE e == Put(n, t)
<1>5. /\ e \in Directories /\ e.kept = dir.kept /\ e.phase = dir.phase /\ e.at[n] = t
      /\ \A m \in Names \ {n} : e.at[m] = dir.at[m]
  <2>1. n \in Names /\ t \in Trees \cup {Absent}
    BY <1>3 DEF Names
  <2>2. QED
    BY <1>1, <2>1, PutEffect, Zenon DEF Put
<1> HIDE DEF e
<1>6. ~Has(dir, n)
  BY DEF There, Has
<1>7. /\ Store(tree', e, survivors \cup {e})
      /\ n # "db" => (FromV2(tree', e) <=> FromV2(tree, dir))
      /\ n = "db" => Settled(tree', e)
  <2>1. Made(tree, tree', survivors, t)
    BY <1>3, <1>4 DEF Made
  <2>2. PutAt(dir, e, n, t)
    BY <1>5 DEF PutAt
  <2>3. Room(dir, n)
    BY <1>6 DEF Room
  <2>4. QED
    BY <1>1, <1>3, <2>1, <2>2, <2>3, MadeKeeps
<1>8. dir' = e /\ survivors' = survivors \cup {e}
  BY <1>2 DEF Changes, e
<1>9. QED
  BY <1>5, <1>7, <1>8

\* A first launch finds no tree under the live name and makes one.
LEMMA FirstLaunchKeeps ==
  ASSUME IInv, FirstLaunch
  PROVE  IInv'
<1>1. pc = "peek" /\ dir.phase \in {"none", "complete"}
  BY InvReached DEF FirstLaunch, Reached
<1>2. Store(tree', dir', survivors') /\ dir'.kept = dir.kept /\ Settled(tree', dir')
  BY <1>1, MakesEffect DEF FirstLaunch
<1>3. Reached("open", tree', dir')
  BY <1>2 DEF Reached
<1>4. QED
  BY <1>2, <1>3, InvStore, IncidentsBounded, AppKeeps DEF FirstLaunch, Goes, Pcs

\* The boot's look decides between a conversion, a rebuild and a session.
LEMMA PeekKeeps ==
  ASSUME IInv, Peek
  PROVE  IInv'
<1> DEFINE found == tree[dir.at["db"]]
<1>1. Shape(tree, dir) /\ There("db")
  BY InvStore DEF Sound, Peek
<1>2. CASE Decides("peek", "scratch")
  <2>1. Reached("scratch", tree, dir)
    BY <1>2, InvReached DEF Decides, Reached
  <2>2. QED
    BY <1>2, <2>1, DecidesKeeps DEF Pcs
<1>3. ASSUME NEW to \in {"refused", "export", "build", "open"}, Decides("peek", to),
             to = IF found.form = "v2" THEN (IF There("backup") THEN "refused" ELSE "export")
                  ELSE IF found.form = "old" \/ found.data = "torn" THEN "build" ELSE "open"
      PROVE  IInv'
  <2>1. dir.phase \in {"none", "complete"}
    BY <1>3, InvReached DEF Decides, Reached
  <2>2. CASE found.form = "v2"
    <3>1. FromV2(tree, dir) /\ to \in {"refused", "export"}
      BY <1>1, <1>3, <2>2 DEF FromV2, V2, There, Has
    <3>2. dir.phase = "none"
      BY <1>1, <2>1, <3>1 DEF Shape
    <3>3. Reached(to, tree, dir)
      BY <3>1, <3>2 DEF Reached
    <3>4. QED
      BY <1>3, <3>3, DecidesKeeps DEF Pcs
  <2>3. CASE found.form # "v2"
    <3>1. Settled(tree, dir) /\ to \in {"build", "open"}
      BY <1>3, <2>1, <2>3 DEF Settled, FromV2, V2
    <3>2. Reached(to, tree, dir)
      BY <3>1 DEF Reached
    <3>3. QED
      BY <1>3, <3>2, DecidesKeeps DEF Pcs
  <2>4. QED
    BY <2>2, <2>3
<1>4. QED
  BY <1>2, <1>3 DEF Peek

\* What an earlier export left goes before a new one.
LEMMA ExportKeeps ==
  ASSUME IInv, Export
  PROVE  IInv'
<1>1. dir \in Directories /\ pc = "export" /\ dir.phase = "none" /\ FromV2(tree, dir)
  BY InvStore, InvReached DEF Export, Removal, Reached
<1>2. Reached("exporting", tree, Unlinked("stage"))
  BY <1>1 DEF Reached, Unlinked, Put, Directories, Names, FromV2, Has
<1>3. QED
  BY <1>1, <1>2, RemovalKeeps DEF Export, Pcs, Early

\* The export is written down before the stage is made.
LEMMA MarkExportingKeeps ==
  ASSUME IInv, MarkExporting
  PROVE  IInv'
<1> DEFINE e == [dir EXCEPT !.phase = "exporting"]
<1>1. dir \in Directories /\ Lands(tree, dir) /\ pc = "exporting" /\ Step("exporting", e, "import")
  BY InvStore DEF MarkExporting, Step
<1>2. e \in Directories /\ e.kept = dir.kept /\ e.phase = "exporting" /\ e.at = dir.at
  BY <1>1 DEF Directories, Phases
<1> HIDE DEF e
<1>3. dir.phase = "none" /\ FromV2(tree, dir) /\ ~Settled(tree, dir)
  BY <1>1, InvReached DEF Reached, Settled
<1>4. Follows(tree, dir, e)
  BY <1>1, <1>2, <1>3, PhaseFollows
<1>5. Reached("import", tree, e)
  BY <1>2 DEF Reached
<1>6. QED
  BY <1>1, <1>2, <1>3, <1>4, <1>5, StepKeeps DEF Pcs

\* What is written into the stage during an export counts for nothing yet.
LEMMA ImportKeeps ==
  ASSUME IInv, Import
  PROVE  IInv'
<1>1. /\ Store(tree, dir, survivors) /\ dir \in Directories /\ tree \in [Trees -> Contents]
      /\ survivors \cup {dir} = survivors /\ aside \in Trees \cup {Absent}
      /\ Sound(tree, dir) /\ Lands(tree, dir) /\ SourceGood(tree, dir)
      /\ OnlyApp /\ pc = "import" /\ aside' = aside
  BY InvStore DEF Import, Goes
<1>2. dir.phase = "exporting" /\ FromV2(tree, dir) /\ Early(dir) /\ ~Settled(tree, dir)
  BY <1>1, InvReached DEF Reached, Sound, Shape, Early, Settled
<1>3. incidents' \in 0 .. MaxIncidents
  BY IncidentsBounded DEF Import
<1>4. CASE ~There("stage") /\ Makes("stage", "now", "torn") /\ Goes("import")
  <2>1. /\ Store(tree', dir', survivors') /\ dir'.kept = dir.kept /\ dir'.phase = dir.phase
    BY <1>2, <1>4, MakesEffect
  <2>2. Reached("import", tree', dir')
    BY <1>2, <2>1 DEF Reached
  <2>3. QED
    BY <1>1, <1>2, <1>3, <1>4, <2>1, <2>2, AppKeeps DEF Goes, Pcs
<1>5. CASE /\ There("stage") /\ Changes(dir) /\ Goes("validate")
           /\ tree' = [tree EXCEPT ![dir.at["stage"]].data = tree[dir.at["db"]].data]
  <2> DEFINE t == dir.at["stage"]
  <2>1. t \in Trees /\ Has(dir, "stage") /\ ~V2(tree, t)
    BY <1>1, <1>5 DEF There, Has, Directories, Names, Sound, Forms
  <2>2. tree[dir.at["db"]].data = "whole"
    BY <1>1, <1>2 DEF SourceGood, FromV2, Has, Directories, Names, Good
  <2>3. /\ tree' \in [Trees -> Contents] /\ tree'[t].form = tree[t].form
        /\ tree'[t].sentinel = tree[t].sentinel /\ tree'[t].synced = tree[t].synced
        /\ \A u \in Trees \ {t} : tree'[u] = tree[u]
    BY <1>1, <1>5, <2>1, <2>2 DEF Contents
  <2>4. tree'[dir.at["stage"]].data = "whole"
    BY <1>1, <1>5, <2>1, <2>2 DEF Contents
  <2> HIDE DEF t
  <2>5. Store(tree', dir, survivors)
    <3>1. Harmless(tree, dir, survivors, tree', t)
      BY <1>2, <2>1, <2>3 DEF Harmless
    <3>2. QED
      BY <1>1, <2>1, <2>3, <3>1, TreeKeeps
  <2>6. Reached("validate", tree', dir)
    BY <1>2, <2>1, <2>4 DEF Reached
  <2>7. QED
    BY <1>1, <1>2, <1>3, <1>5, <2>5, <2>6, AppKeeps DEF Goes, Changes, Pcs
<1>6. CASE /\ Goes("off") /\ UNCHANGED tree
           /\ Changes([Unlinked("stage") EXCEPT !.phase = "none"])
  <2> DEFINE e == Unlinked("stage")
             f == [e EXCEPT !.phase = "none"]
  <2>1. /\ e \in Directories /\ e.kept = dir.kept /\ e.phase = dir.phase
        /\ e.at["stage"] = Absent /\ \A m \in Names \ {"stage"} : e.at[m] = dir.at[m]
    BY <1>1 DEF Unlinked, Put, Directories, Names
  <2>2. f \in Directories /\ f.kept = e.kept /\ f.phase = "none" /\ f.at = e.at
    BY <2>1 DEF Directories, Phases
  <2>3. f = [Unlinked("stage") EXCEPT !.phase = "none"]
    OBVIOUS
  <2> HIDE DEF e, f
  <2>4. Follows(tree, dir, e) /\ Lands(tree, e)
    BY <1>1, <1>2, <2>1, UnlinkFollows DEF Names, Follows
  <2>5. Store(tree, e, survivors \cup {e})
    BY <1>1, <2>4, StoreMoves
  <2>6. Follows(tree, e, f)
    BY <1>2, <2>1, <2>2, <2>4, PhaseFollows DEF Has, Early
  <2>7. Follows(tree, dir, f)
    BY <2>4, <2>6 DEF Follows
  <2>8. Store(tree, f, survivors \cup {f})
    BY <1>1, <2>7, StoreMoves
  <2>9. Reached("off", tree, f)
    BY DEF Reached
  <2>10. dir' = f /\ survivors' = survivors \cup {f} /\ pc' = "off" /\ tree' = tree
    BY <1>6, <2>3 DEF Changes, Goes
  <2>11. QED
    BY <1>1, <1>2, <1>3, <2>1, <2>2, <2>8, <2>9, <2>10, AppKeeps DEF Pcs
<1>7. QED
  BY <1>4, <1>5, <1>6 DEF Import

\* The stage counts from here on, and it is whole and on disk.
LEMMA ValidateKeeps ==
  ASSUME IInv, Validate
  PROVE  IInv'
<1> DEFINE e == [dir EXCEPT !.phase = "validated"]
           t == dir.at["stage"]
<1>1. /\ Store(tree, dir, survivors) /\ dir \in Directories /\ tree \in [Trees -> Contents]
      /\ survivors \cup {dir} = survivors /\ aside \in Trees \cup {Absent}
      /\ Sound(tree, dir) /\ OnlyApp /\ pc = "validate" /\ aside' = aside
  BY InvStore DEF Validate, Goes
<1>2. /\ dir.phase = "exporting" /\ ~Settled(tree, dir)
      /\ Has(dir, "stage") /\ tree[t].data = "whole"
  BY <1>1, InvReached DEF Reached, Settled
<1>3. incidents' \in 0 .. MaxIncidents
  BY IncidentsBounded DEF Validate
<1>4. t \in Trees /\ OneName(dir)
  BY <1>1, <1>2 DEF Has, Directories, Names, Sound
<1>5. /\ tree' \in [Trees -> Contents] /\ \A u \in Trees \ {t} : tree'[u] = tree[u]
      /\ tree'[t].form = tree[t].form /\ tree'[t].sentinel = tree[t].sentinel
      /\ tree'[t].data = "whole" /\ tree'[t].synced
  BY <1>1, <1>2, <1>4 DEF Validate, StageSynced, Contents
<1>6. \A n \in {"next", "staging"} : dir.at[n] # t
  BY <1>2, <1>4 DEF OneName, Names, Has
<1>7. Store(tree', dir, survivors)
  <2> HIDE DEF t
  <2>1. Harmless(tree, dir, survivors, tree', t)
    BY <1>5 DEF Harmless, Good
  <2>2. QED
    BY <1>1, <1>4, <1>5, <1>6, <2>1, TreeKeeps
<1>8. Lands(tree', dir)
  BY <1>7, StoreStays DEF Lands
<1>9. e \in Directories /\ e.kept = dir.kept /\ e.phase = "validated" /\ e.at = dir.at
  BY <1>1 DEF Directories, Phases
<1>10. Lands(tree', e) /\ ~Early(e) /\ Half(e)
  <2>1. Good(tree', dir.at["stage"])
    BY <1>5 DEF Good
  <2> HIDE DEF e, t
  <2>2. QED
    BY <1>1, <1>2, <1>8, <1>9, <2>1, ValidatedLands
<1> HIDE DEF e, t
<1>11. Store(tree', e, {e})
  BY <1>7, <1>10, StoreSyncs DEF SourceGood
<1>12. Reached("finish", tree', e) /\ Reached("off", tree', dir)
  BY <1>10 DEF Reached
<1>13. CASE Syncs(e) /\ Goes("finish")
  BY <1>1, <1>2, <1>3, <1>9, <1>11, <1>12, <1>13, AppKeeps DEF Syncs, Goes, Pcs
<1>14. CASE Goes("off") /\ Changes(dir)
  BY <1>1, <1>2, <1>3, <1>7, <1>12, <1>14, AppKeeps DEF Changes, Goes, Pcs
<1>15. QED
  BY <1>13, <1>14 DEF Validate, e

-----------------------------------------------------------------------------
\* The rebuild beside the store.

\* What is beside the store may become anything.
LEMMA BesideEffect ==
  ASSUME IInv, NEW n \in {"next", "staging"}, There(n),
         NEW data \in {"whole", "torn", "salvaged", "fresh"},
         tree' = [tree EXCEPT ![dir.at[n]].data = data]
  PROVE  Store(tree', dir, survivors) /\ (Settled(tree, dir) <=> Settled(tree', dir))
<1> DEFINE t == dir.at[n]
<1>1. /\ Store(tree, dir, survivors) /\ dir \in Directories /\ tree \in [Trees -> Contents]
      /\ Fresh(tree, dir)
  BY InvStore DEF Lands
<1>2. t \in Trees /\ ~tree[t].synced
  BY <1>1 DEF There, Has, Directories, Names, Fresh
<1>3. /\ tree' \in [Trees -> Contents] /\ \A u \in Trees \ {t} : tree'[u] = tree[u]
      /\ tree'[t].form = tree[t].form /\ tree'[t].sentinel = tree[t].sentinel
      /\ tree'[t].synced = tree[t].synced
  BY <1>1, <1>2 DEF Contents
<1> HIDE DEF t
<1>4. Harmless(tree, dir, survivors, tree', t)
  BY <1>2, <1>3 DEF Harmless
<1>5. Store(tree', dir, survivors) /\ (FromV2(tree', dir) <=> FromV2(tree, dir))
  BY <1>1, <1>2, <1>3, <1>4, TreeKeeps
<1>6. QED
  BY <1>5 DEF Settled

\* A step of the app that may set something aside.
LEMMA AppAsideKeeps ==
  ASSUME IInv, OnlyApp, Store(tree', dir', survivors'),
         Settled(tree, dir) => Settled(tree', dir'),
         incidents' \in 0 .. MaxIncidents, pc' \in Pcs,
         aside' \in Trees \cup {Absent}, Reached(pc', tree', dir'), AsideKept'
  PROVE  IInv'
<1>1. angel' = angel /\ displaced' = displaced /\ restores' = restores
  BY DEF OnlyApp, helper
<1>2. Kinds'
  BY <1>1 DEF IInv, Kinds
<1>3. QED
  BY <1>1, <1>2 DEF IInv

\* The new store is built beside the live one, which it reads.
LEMMA BuildKeeps ==
  ASSUME IInv, Build
  PROVE  IInv'
<1>1. /\ Store(tree, dir, survivors) /\ survivors \cup {dir} = survivors
      /\ aside \in Trees \cup {Absent} /\ OnlyApp /\ pc = "build" /\ aside' = aside
  BY InvStore DEF Build, Goes
<1>2. Settled(tree, dir)
  BY <1>1, InvReached DEF Reached
<1>3. incidents' \in 0 .. MaxIncidents
  BY IncidentsBounded DEF Build
<1>4. CASE ~There("next") /\ Makes("next", "now", "torn") /\ Goes("build")
  <2>1. /\ Store(tree', dir', survivors') /\ dir'.kept = dir.kept /\ dir'.phase = dir.phase
        /\ (FromV2(tree', dir') <=> FromV2(tree, dir))
    BY <1>4, MakesEffect
  <2>2. Settled(tree', dir')
    BY <1>2, <2>1 DEF Settled
  <2>3. Reached("build", tree', dir')
    BY <2>2 DEF Reached
  <2>4. QED
    BY <1>1, <1>3, <1>4, <2>1, <2>2, <2>3, AppKeeps DEF Goes, Pcs
<1>5. ASSUME There("next"), Changes(dir), Goes("set aside"),
             NEW data \in {"whole", "salvaged"},
             tree' = [tree EXCEPT ![dir.at["next"]].data = data]
      PROVE  IInv'
  <2>1. Store(tree', dir, survivors) /\ Settled(tree', dir)
    BY <1>2, <1>5, BesideEffect
  <2>2. Reached("set aside", tree', dir)
    BY <2>1 DEF Reached
  <2>3. QED
    BY <1>1, <1>3, <1>5, <2>1, <2>2, AppKeeps DEF Goes, Changes, Pcs
<1>6. CASE Goes("drop next") /\ UNCHANGED disk
  <2>1. Reached("drop next", tree, dir)
    BY <1>2 DEF Reached
  <2>2. QED
    BY <1>1, <1>2, <1>3, <1>6, <2>1, AppKeeps DEF Goes, disk, Pcs
<1>7. QED
  <2>1. ASSUME NEW data \in {"salvaged"} \cup
                 (IF tree[dir.at["db"]].data = "whole" THEN {"whole"} ELSE {})
        PROVE  data \in {"whole", "salvaged"}
    OBVIOUS
  <2>2. QED
    BY <1>4, <1>5, <1>6, <2>1 DEF Build

\* The live store is set aside, and the app keeps its name.
LEMMA SetAsideKeeps ==
  ASSUME IInv, SetAside
  PROVE  IInv'
<1>1. /\ Store(tree, dir, survivors) /\ dir \in Directories /\ Lands(tree, dir)
      /\ OneName(dir) /\ OnlyApp /\ pc = "set aside" /\ tree' = tree
      /\ aside \in Trees \cup {Absent}
  BY InvStore DEF SetAside, Sound
<1>2. Settled(tree, dir)
  BY <1>1, InvReached DEF Reached
<1>3. incidents' \in 0 .. MaxIncidents
  BY IncidentsBounded DEF SetAside
<1>4. CASE There("db") /\ aside' = dir.at["db"] /\ Changes(KeptAs("db")) /\ pc' = "publish"
  <2> DEFINE e == KeptAs("db")
  <2>1. Has(dir, "db") /\ dir.at["db"] \in Trees /\ dir.at["db"] \notin dir.kept
    BY <1>1, <1>4 DEF There, Has, Directories, Names, OneName
  <2>2. /\ e \in Directories /\ e.kept = dir.kept \cup {dir.at["db"]} /\ e.phase = dir.phase
        /\ e.at["db"] = Absent /\ \A m \in Names \ {"db"} : e.at[m] = dir.at[m]
    BY <1>1, <2>1 DEF KeptAs, Directories, Names
  <2> HIDE DEF e
  <2>3. Follows(tree, dir, e) /\ Settled(tree, e)
    BY <1>1, <1>2, <2>1, <2>2, KeepFollows
  <2>4. Store(tree, e, survivors \cup {e})
    BY <1>1, <2>3, StoreMoves
  <2>5. dir' = e /\ survivors' = survivors \cup {e}
    BY <1>4 DEF Changes, e
  <2>6. Reached("publish", tree, e)
    BY <2>3 DEF Reached
  <2>7. AsideKept'
    BY <1>1, <1>4, <2>1, <2>2, <2>5 DEF IInv, AsideKept, OnlyApp, helper
  <2>8. QED
    BY <1>1, <1>3, <1>4, <2>1, <2>3, <2>4, <2>5, <2>6, <2>7, AppAsideKeeps DEF Pcs
<1>5. CASE Goes("drop next") /\ UNCHANGED <<dir, survivors>>
  <2>1. Reached("drop next", tree, dir)
    BY <1>2 DEF Reached
  <2>2. QED
    BY <1>1, <1>2, <1>3, <1>5, <2>1, AppKeeps DEF Goes, Pcs
<1>6. QED
  BY <1>4, <1>5 DEF SetAside

\* The new store takes the live name, or the app goes to put the old one back.
LEMMA PublishKeeps ==
  ASSUME IInv, Publish
  PROVE  IInv'
<1>1. /\ Store(tree, dir, survivors) /\ dir \in Directories /\ Lands(tree, dir)
      /\ OnlyApp /\ pc = "publish" /\ tree' = tree /\ aside' = aside
      /\ aside \in Trees \cup {Absent}
  BY InvStore DEF Publish, Goes
<1>2. Settled(tree, dir)
  BY <1>1, InvReached DEF Reached
<1>3. incidents' \in 0 .. MaxIncidents
  BY IncidentsBounded DEF Publish
<1>4. CASE CanRename("next", "db") /\ Changes(Renamed("next", "db")) /\ Goes("open")
  <2> DEFINE e == Renamed("next", "db")
  <2>1. Has(dir, "next") /\ ~Has(dir, "db")
    BY <1>4 DEF CanRename, There, Has
  <2>2. /\ e \in Directories /\ e.kept = dir.kept /\ e.phase = dir.phase
        /\ e.at["db"] = dir.at["next"] /\ e.at["next"] = Absent
        /\ \A l \in Names \ {"next", "db"} : e.at[l] = dir.at[l]
    BY <1>1 DEF Renamed, Directories, Names
  <2> HIDE DEF e
  <2>3. Follows(tree, dir, e) /\ Settled(tree, e)
    BY <1>1, <1>2, <2>1, <2>2, PublishFollows
  <2>4. Store(tree, e, survivors \cup {e})
    BY <1>1, <2>3, StoreMoves
  <2>5. dir' = e /\ survivors' = survivors \cup {e}
    BY <1>4 DEF Changes, e
  <2>6. Reached("open", tree, e)
    BY <2>3 DEF Reached
  <2>7. QED
    BY <1>1, <1>3, <1>4, <2>2, <2>3, <2>4, <2>5, <2>6, AppKeeps DEF Goes, Pcs
<1>5. CASE Goes("put back") /\ UNCHANGED <<dir, survivors>>
  <2>1. Reached("put back", tree, dir)
    BY <1>2 DEF Reached
  <2>2. AsideKept'
    BY <1>1, <1>5 DEF IInv, AsideKept, OnlyApp, helper, Goes
  <2>3. QED
    BY <1>1, <1>2, <1>3, <1>5, <2>1, <2>2, AppAsideKeeps DEF Goes, Pcs
<1>6. QED
  BY <1>4, <1>5 DEF Publish

\* A tree that is put back was kept all along.
LEMMA BackKeeps ==
  ASSUME IInv, Settled(tree, dir), NEW t \in dir.kept, ~There("db"), Changes(BackAt(t)),
         tree' = tree
  PROVE  /\ Store(tree', dir', survivors') /\ Settled(tree', dir')
         /\ dir'.kept = dir.kept \ {t} /\ dir'.phase = dir.phase
<1> DEFINE e == BackAt(t)
<1>1. Store(tree, dir, survivors) /\ dir \in Directories /\ Lands(tree, dir)
  BY InvStore
<1>2. /\ e \in Directories /\ e.kept = dir.kept \ {t} /\ e.phase = dir.phase
      /\ e.at["db"] = t /\ \A m \in Names \ {"db"} : e.at[m] = dir.at[m]
  BY <1>1 DEF BackAt, Directories, Names
<1>3. dir' = e /\ survivors' = survivors \cup {e}
  BY DEF Changes
<1> HIDE DEF e
<1>4. Follows(tree, dir, e) /\ Settled(tree, e)
  BY <1>1, <1>2, BackFollows DEF There, Has
<1>5. QED
  BY <1>1, <1>2, <1>3, <1>4, StoreMoves

\* The store that was set aside is still there to be put back: the angel has another.
LEMMA PutBackKeeps ==
  ASSUME IInv, PutBack
  PROVE  IInv'
<1>1. /\ Store(tree, dir, survivors) /\ OnlyApp /\ pc = "put back" /\ tree' = tree
      /\ aside' = aside /\ aside \in Trees \cup {Absent}
  BY InvStore DEF PutBack, Goes
<1>2. Settled(tree, dir)
  BY <1>1, InvReached DEF Reached
<1>3. incidents' \in 0 .. MaxIncidents
  BY IncidentsBounded DEF PutBack
<1>4. CASE ~There("db") /\ Goes("drop next") /\ Changes(BackAt(aside))
  <2>1. aside \in dir.kept
    BY <1>1 DEF IInv, AsideKept
  <2>2. /\ Store(tree', dir', survivors') /\ Settled(tree', dir')
        /\ dir'.kept = dir.kept \ {aside}
    BY <1>1, <1>2, <1>4, <2>1, BackKeeps
  <2>3. Reached("drop next", tree', dir')
    BY <2>2 DEF Reached
  <2>4. AsideKept'
    BY <1>1, <1>4, <2>2 DEF IInv, AsideKept, OnlyApp, helper, Goes
  <2>5. QED
    BY <1>1, <1>3, <1>4, <2>2, <2>3, <2>4, AppAsideKeeps DEF Goes, Pcs
<1>5. CASE Goes("scratch") /\ UNCHANGED <<dir, survivors>>
  <2>1. Reached("scratch", tree, dir)
    BY <1>2 DEF Reached, Settled
  <2>2. QED
    BY <1>1, <1>2, <1>3, <1>5, <2>1, AppKeeps DEF Goes, Pcs
<1>6. QED
  BY <1>4, <1>5 DEF PutBack

\* What was built goes; the live store was not touched or is back.
LEMMA DropNextKeeps ==
  ASSUME IInv, DropNext
  PROVE  IInv'
<1>1. /\ Store(tree, dir, survivors) /\ dir \in Directories /\ Lands(tree, dir)
      /\ survivors \cup {dir} = survivors
      /\ OnlyApp /\ pc = "drop next" /\ pc' = "scratch"
      /\ aside' = aside /\ aside \in Trees \cup {Absent}
  BY InvStore DEF DropNext, Goes
<1>2. Settled(tree, dir)
  BY <1>1, InvReached DEF Reached
<1>3. incidents' \in 0 .. MaxIncidents
  BY IncidentsBounded DEF DropNext
<1>4. CASE Changes(Unlinked("next")) /\ tree' = tree
  <2> DEFINE e == Unlinked("next")
  <2>1. /\ e \in Directories /\ e.kept = dir.kept /\ e.phase = dir.phase
        /\ e.at["next"] = Absent /\ \A m \in Names \ {"next"} : e.at[m] = dir.at[m]
    BY <1>1 DEF Unlinked, Put, Directories, Names
  <2>2. dir' = e /\ survivors' = survivors \cup {e}
    BY <1>4 DEF Changes
  <2> HIDE DEF e
  <2>3. Follows(tree, dir, e)
    BY <1>1, <2>1, UnlinkFollows DEF Names
  <2>4. Store(tree, e, survivors \cup {e})
    BY <1>1, <2>3, StoreMoves
  <2>5. Settled(tree, e)
    BY <1>2, <2>1 DEF Settled, FromV2, Has, Names
  <2>6. Reached("scratch", tree, e)
    BY <2>5 DEF Reached, Settled
  <2>7. QED
    BY <1>1, <1>3, <1>4, <2>1, <2>2, <2>4, <2>5, <2>6, AppKeeps DEF Pcs
<1>5. CASE There("next") /\ Changes(dir)
           /\ tree' = [tree EXCEPT ![dir.at["next"]].data = "torn"]
  <2>1. Store(tree', dir, survivors) /\ Settled(tree', dir)
    BY <1>2, <1>5, BesideEffect
  <2>2. Reached("scratch", tree', dir)
    BY <2>1 DEF Reached, Settled
  <2>3. QED
    BY <1>1, <1>3, <1>5, <2>1, <2>2, AppKeeps DEF Changes, Pcs
<1>6. QED
  BY <1>4, <1>5 DEF DropNext

-----------------------------------------------------------------------------
\* The end of a session, the angel, deaths and power losses.

\* What is left beside the store is kept.
LEMMA LeftoversEffect ==
  ASSUME IInv, NEW n \in {"next", "staging"}, Changes(Leftovers(n)), tree' = tree
  PROVE  /\ Store(tree', dir', survivors') /\ dir.kept \subseteq dir'.kept
         /\ dir'.phase = dir.phase /\ (FromV2(tree', dir') <=> FromV2(tree, dir))
         /\ dir'.at["stage"] = dir.at["stage"] /\ dir'.at["db"] = dir.at["db"]
<1>1. /\ Store(tree, dir, survivors) /\ dir \in Directories /\ Lands(tree, dir)
      /\ survivors \cup {dir} = survivors
  BY InvStore
<1>2. CASE ~There(n)
  BY <1>1, <1>2 DEF Leftovers, Changes
<1>3. CASE There(n)
  <2> DEFINE e == KeptAs(n)
  <2>1. Has(dir, n) /\ n \in Names
    BY <1>3 DEF There, Has, Names
  <2>2. /\ e \in Directories /\ e.kept = dir.kept \cup {dir.at[n]} /\ e.phase = dir.phase
        /\ e.at[n] = Absent /\ \A m \in Names \ {n} : e.at[m] = dir.at[m]
    BY <1>1, <2>1, KeepEffect, Zenon DEF KeptAs
  <2>3. dir' = e /\ survivors' = survivors \cup {e}
    BY <1>3 DEF Leftovers, Changes
  <2> HIDE DEF e
  <2>4. Follows(tree, dir, e)
    BY <1>1, <2>1, <2>2, KeepFollows
  <2>5. Store(tree, e, survivors \cup {e})
    BY <1>1, <2>4, StoreMoves
  <2>6. FromV2(tree, e) <=> FromV2(tree, dir)
    BY <2>2 DEF FromV2, Has, Names
  <2>7. QED
    BY <2>2, <2>3, <2>5, <2>6 DEF Names
<1>4. QED
  BY <1>2, <1>3

\* The session ends.
LEMMA CloseKeeps ==
  ASSUME IInv, Close
  PROVE  IInv'
<1>1. /\ Store(tree', dir', survivors') /\ dir.kept \subseteq dir'.kept
      /\ (Settled(tree, dir) => Settled(tree', dir'))
  BY LeftoversEffect DEF Close, Settled
<1>2. /\ OnlyApp /\ pc' = "off" /\ aside' = aside /\ aside \in Trees \cup {Absent}
  BY InvStore DEF Close, Goes
<1>3. Reached("off", tree', dir')
  BY DEF Reached
<1>4. AsideKept'
  BY <1>1, <1>2 DEF IInv, AsideKept, OnlyApp, helper
<1>5. QED
  BY <1>1, <1>2, <1>3, <1>4, IncidentsBounded, AppAsideKeeps DEF Close, Pcs

\* A session that ended well hands a package to the angel.
LEMMA AskRestoreKeeps ==
  ASSUME IInv, AskRestore
  PROVE  IInv'
<1>1. pc = "open" /\ Settled(tree, dir)
  BY InvReached DEF AskRestore, Reached
<1>2. dir' = dir /\ survivors' = survivors /\ tree' = tree
  BY DEF AskRestore, disk
<1>3. restores' \in 0 .. MaxRestores
  BY BoundsAssumption DEF AskRestore, IInv, Kinds
<1>4. Kinds'
  BY <1>3 DEF AskRestore, IInv, Kinds, Goes, Pcs
<1>5. Reached(pc', tree, dir)
  BY DEF AskRestore, Goes, Reached
<1>6. AsideKept'
  BY <1>2 DEF AskRestore, Goes, AsideKept
<1>7. QED
  BY <1>1, <1>2, <1>4, <1>5, <1>6 DEF IInv

\* A step of the angel, which runs only outside a conversion.
LEMMA AngelKeeps ==
  ASSUME IInv, angel # "none", UNCHANGED <<app, restores>>,
         Store(tree', dir', survivors'), Settled(tree', dir'), dir'.phase = dir.phase,
         incidents' \in 0 .. MaxIncidents,
         angel' \in {"none", "extract", "set aside", "install", "put back", "drop"},
         displaced' \in Trees \cup {Absent}, AsideKept'
  PROVE  IInv'
<1>1. pc' = pc /\ aside' = aside /\ restores' = restores
  BY DEF app
<1>2. Kinds'
  BY <1>1 DEF IInv, Kinds
<1>3. Settled(tree, dir) /\ Reached(pc, tree, dir)
  BY InvReached
<1>4. Reached(pc, tree', dir')
  BY <1>3 DEF Reached, Settled, Half
<1>5. QED
  BY <1>1, <1>2, <1>4 DEF IInv

\* The package is extracted beside the store.
LEMMA ExtractKeeps ==
  ASSUME IInv, Extract
  PROVE  IInv'
<1>1. /\ Store(tree, dir, survivors) /\ survivors \cup {dir} = survivors
      /\ angel = "extract" /\ UNCHANGED <<app, restores>>
      /\ displaced' = displaced /\ displaced \in Trees \cup {Absent} /\ Settled(tree, dir)
  BY InvStore, InvReached DEF Extract, AngelGoes, IInv, Kinds
<1>2. incidents' \in 0 .. MaxIncidents
  BY IncidentsBounded DEF Extract
<1>3. angel' \in {"extract", "set aside", "drop"}
  BY DEF Extract, AngelGoes
<1>4. dir'.kept = dir.kept /\ dir'.phase = dir.phase /\ Store(tree', dir', survivors')
      /\ Settled(tree', dir')
  <2>1. CASE ~There("staging") /\ Makes("staging", "now", "torn")
    <3>1. /\ Store(tree', dir', survivors') /\ dir'.kept = dir.kept /\ dir'.phase = dir.phase
          /\ (FromV2(tree', dir') <=> FromV2(tree, dir))
      BY <2>1, MakesEffect
    <3>2. QED
      BY <1>1, <3>1 DEF Settled
  <2>2. CASE /\ There("staging") /\ Changes(dir)
             /\ tree' = [tree EXCEPT ![dir.at["staging"]].data = "whole"]
    <3>1. Store(tree', dir, survivors) /\ Settled(tree', dir)
      BY <1>1, <2>2, BesideEffect
    <3>2. QED
      BY <1>1, <2>2, <3>1 DEF Changes
  <2>3. CASE UNCHANGED disk
    BY <1>1, <2>3 DEF disk
  <2>4. QED
    BY <2>1, <2>2, <2>3 DEF Extract
<1>5. AsideKept'
  BY <1>1, <1>3, <1>4 DEF IInv, AsideKept, app
<1>6. QED
  BY <1>1, <1>2, <1>3, <1>4, <1>5, AngelKeeps

\* The angel sets the live store aside, and keeps its name.
LEMMA AngelSetsAsideKeeps ==
  ASSUME IInv, AngelSetsAside
  PROVE  IInv'
<1>1. /\ Store(tree, dir, survivors) /\ dir \in Directories /\ Lands(tree, dir)
      /\ OneName(dir) /\ tree' = tree /\ Settled(tree, dir)
      /\ angel = "set aside" /\ UNCHANGED <<app, restores>>
      /\ displaced \in Trees \cup {Absent}
  BY InvStore, InvReached DEF AngelSetsAside, Sound, IInv, Kinds
<1>2. incidents' \in 0 .. MaxIncidents
  BY IncidentsBounded DEF AngelSetsAside
<1>3. CASE /\ There("db") /\ displaced' = dir.at["db"] /\ Changes(KeptAs("db"))
           /\ angel' = "install"
  <2> DEFINE e == KeptAs("db")
  <2>1. Has(dir, "db") /\ dir.at["db"] \in Trees /\ dir.at["db"] \notin dir.kept
    BY <1>1, <1>3 DEF There, Has, Directories, Names, OneName
  <2>2. /\ e \in Directories /\ e.kept = dir.kept \cup {dir.at["db"]} /\ e.phase = dir.phase
        /\ e.at["db"] = Absent /\ \A m \in Names \ {"db"} : e.at[m] = dir.at[m]
    BY <1>1, <2>1 DEF KeptAs, Directories, Names
  <2> HIDE DEF e
  <2>3. Follows(tree, dir, e) /\ Settled(tree, e)
    BY <1>1, <2>1, <2>2, KeepFollows
  <2>4. Store(tree, e, survivors \cup {e})
    BY <1>1, <2>3, StoreMoves
  <2>5. dir' = e /\ survivors' = survivors \cup {e}
    BY <1>3 DEF Changes, e
  <2>6. AsideKept'
    BY <1>1, <1>3, <2>1, <2>2, <2>5 DEF IInv, AsideKept, app
  <2>7. QED
    BY <1>1, <1>2, <1>3, <2>1, <2>2, <2>3, <2>4, <2>5, <2>6, AngelKeeps
<1>4. CASE angel' = "drop" /\ UNCHANGED <<dir, survivors, displaced>>
  <2>1. AsideKept'
    BY <1>1, <1>4 DEF IInv, AsideKept, app
  <2>2. QED
    BY <1>1, <1>2, <1>4, <2>1, AngelKeeps
<1>5. QED
  BY <1>3, <1>4 DEF AngelSetsAside

\* The package takes the live name, or the angel goes to put the old store back.
LEMMA InstallKeeps ==
  ASSUME IInv, Install
  PROVE  IInv'
<1>1. /\ Store(tree, dir, survivors) /\ dir \in Directories /\ Lands(tree, dir)
      /\ tree' = tree /\ Settled(tree, dir) /\ angel = "install"
      /\ UNCHANGED <<app, restores>>
      /\ displaced' = displaced /\ displaced \in Trees \cup {Absent}
  BY InvStore, InvReached DEF Install, AngelGoes, IInv, Kinds
<1>2. incidents' \in 0 .. MaxIncidents
  BY IncidentsBounded DEF Install
<1>3. CASE CanRename("staging", "db") /\ Changes(Renamed("staging", "db")) /\ angel' = "none"
  <2> DEFINE e == Renamed("staging", "db")
  <2>1. Has(dir, "staging") /\ ~Has(dir, "db")
    BY <1>3 DEF CanRename, There, Has
  <2>2. /\ e \in Directories /\ e.kept = dir.kept /\ e.phase = dir.phase
        /\ e.at["db"] = dir.at["staging"] /\ e.at["staging"] = Absent
        /\ \A l \in Names \ {"staging", "db"} : e.at[l] = dir.at[l]
    BY <1>1 DEF Renamed, Directories, Names
  <2> HIDE DEF e
  <2>3. Follows(tree, dir, e) /\ Settled(tree, e)
    BY <1>1, <2>1, <2>2, PublishFollows
  <2>4. Store(tree, e, survivors \cup {e})
    BY <1>1, <2>3, StoreMoves
  <2>5. dir' = e /\ survivors' = survivors \cup {e}
    BY <1>3 DEF Changes, e
  <2>6. AsideKept'
    BY <1>1, <1>3, <2>2, <2>5 DEF IInv, AsideKept, app
  <2>7. QED
    BY <1>1, <1>2, <1>3, <2>2, <2>3, <2>4, <2>5, <2>6, AngelKeeps
<1>4. CASE angel' = "put back" /\ UNCHANGED <<dir, survivors>>
  <2>1. AsideKept'
    BY <1>1, <1>4 DEF IInv, AsideKept, app
  <2>2. QED
    BY <1>1, <1>2, <1>4, <2>1, AngelKeeps
<1>5. QED
  BY <1>3, <1>4 DEF Install, AngelGoes

\* The store the angel set aside is still there to be put back: the app has another.
LEMMA AngelPutsBackKeeps ==
  ASSUME IInv, AngelPutsBack
  PROVE  IInv'
<1>1. /\ Store(tree, dir, survivors) /\ tree' = tree /\ Settled(tree, dir)
      /\ angel = "put back" /\ angel' = "drop" /\ UNCHANGED <<app, restores>>
      /\ displaced' = displaced /\ displaced \in Trees \cup {Absent}
  BY InvStore, InvReached DEF AngelPutsBack, AngelGoes, IInv, Kinds
<1>2. incidents' \in 0 .. MaxIncidents
  BY IncidentsBounded DEF AngelPutsBack
<1>3. CASE ~There("db") /\ Changes(BackAt(displaced))
  <2>1. displaced \in dir.kept
    BY <1>1 DEF IInv, AsideKept
  <2>2. /\ Store(tree', dir', survivors') /\ Settled(tree', dir')
        /\ dir'.kept = dir.kept \ {displaced} /\ dir'.phase = dir.phase
    BY <1>1, <1>3, <2>1, BackKeeps
  <2>3. AsideKept'
    BY <1>1, <2>2 DEF IInv, AsideKept, app
  <2>4. QED
    BY <1>1, <1>2, <2>2, <2>3, AngelKeeps
<1>4. CASE UNCHANGED <<dir, survivors>>
  <2>1. AsideKept'
    BY <1>1, <1>4 DEF IInv, AsideKept, app
  <2>2. QED
    BY <1>1, <1>2, <1>4, <2>1, AngelKeeps
<1>5. QED
  BY <1>3, <1>4 DEF AngelPutsBack

\* The package goes, or is kept when there is no live store.
LEMMA AngelDropsKeeps ==
  ASSUME IInv, AngelDrops
  PROVE  IInv'
<1>1. /\ Store(tree, dir, survivors) /\ dir \in Directories /\ Lands(tree, dir)
      /\ tree' = tree /\ Settled(tree, dir)
      /\ angel = "drop" /\ angel' = "none" /\ UNCHANGED <<app, restores>>
      /\ displaced' = displaced /\ displaced \in Trees \cup {Absent}
  BY InvStore, InvReached DEF AngelDrops, AngelGoes, IInv, Kinds
<1>2. incidents' \in 0 .. MaxIncidents
  BY IncidentsBounded DEF AngelDrops
<1>3. CASE There("db") /\ Changes(Unlinked("staging"))
  <2> DEFINE e == Unlinked("staging")
  <2>1. /\ e \in Directories /\ e.kept = dir.kept /\ e.phase = dir.phase
        /\ e.at["staging"] = Absent /\ \A m \in Names \ {"staging"} : e.at[m] = dir.at[m]
    BY <1>1 DEF Unlinked, Put, Directories, Names
  <2>2. dir' = e /\ survivors' = survivors \cup {e}
    BY <1>3 DEF Changes
  <2> HIDE DEF e
  <2>3. Follows(tree, dir, e)
    BY <1>1, <2>1, UnlinkFollows DEF Names
  <2>4. Store(tree, e, survivors \cup {e})
    BY <1>1, <2>3, StoreMoves
  <2>5. Settled(tree, e)
    BY <1>1, <2>1 DEF Settled, FromV2, Has, Names
  <2>6. AsideKept'
    BY <1>1, <2>1, <2>2 DEF IInv, AsideKept, app
  <2>7. QED
    BY <1>1, <1>2, <2>1, <2>2, <2>4, <2>5, <2>6, AngelKeeps
<1>4. CASE Changes(Leftovers("staging"))
  <2>1. /\ Store(tree', dir', survivors') /\ dir.kept \subseteq dir'.kept
        /\ dir'.phase = dir.phase /\ Settled(tree', dir')
    BY <1>1, <1>4, LeftoversEffect DEF Settled
  <2>2. AsideKept'
    BY <1>1, <2>1 DEF IInv, AsideKept, app
  <2>3. QED
    BY <1>1, <1>2, <2>1, <2>2, AngelKeeps
<1>5. QED
  BY <1>3, <1>4 DEF AngelDrops

\* A process dies and leaves what it had beside the store.
LEMMA KilledKeeps ==
  ASSUME IInv, Killed
  PROVE  IInv'
<1>1. tree' = tree /\ restores' = restores
  BY DEF Killed
<1>2. incidents' \in 0 .. MaxIncidents
  BY IncidentsBounded DEF Killed
<1>3. CASE Goes("off") /\ Changes(Leftovers("next")) /\ UNCHANGED helper
  <2>1. /\ Store(tree', dir', survivors') /\ dir.kept \subseteq dir'.kept
        /\ (Settled(tree, dir) => Settled(tree', dir'))
    BY <1>1, <1>3, LeftoversEffect DEF Settled
  <2>2. OnlyApp /\ pc' = "off" /\ aside' = aside /\ aside \in Trees \cup {Absent}
    BY <1>1, <1>3, InvStore DEF OnlyApp, Goes
  <2>3. Reached("off", tree', dir')
    BY DEF Reached
  <2>4. AsideKept'
    BY <2>1, <2>2 DEF IInv, AsideKept, OnlyApp, helper
  <2>5. QED
    BY <1>2, <2>1, <2>2, <2>3, <2>4, AppAsideKeeps DEF Pcs
<1>4. CASE angel # "none" /\ AngelGoes("none") /\ Changes(Leftovers("staging"))
  <2>1. Settled(tree, dir)
    BY <1>4, InvReached
  <2>2. /\ Store(tree', dir', survivors') /\ dir.kept \subseteq dir'.kept
        /\ dir'.phase = dir.phase /\ Settled(tree', dir')
    BY <1>1, <1>4, <2>1, LeftoversEffect DEF Settled
  <2>3. /\ UNCHANGED <<app, restores>> /\ angel' = "none" /\ displaced' = displaced
        /\ displaced \in Trees \cup {Absent}
    BY <1>4 DEF AngelGoes, IInv, Kinds
  <2>4. AsideKept'
    BY <2>2, <2>3 DEF IInv, AsideKept, app
  <2>5. QED
    BY <1>2, <1>4, <2>2, <2>3, <2>4, AngelKeeps
<1>5. QED
  BY <1>3, <1>4 DEF Killed

\* Any survivor may be what is left, and it is as good as the directory was.
LEMMA PowerLossStepKeeps ==
  ASSUME IInv, PowerLoss
  PROVE  IInv'
<1>1. /\ Store(tree, dir, survivors) /\ tree \in [Trees -> Contents]
      /\ \A d \in survivors : d \in Directories
  BY InvStore DEF Store
<1>2. PICK d \in survivors :
        /\ dir' = [d EXCEPT !.at["next"] = Absent, !.at["staging"] = Absent,
                            !.kept = @ \cup ({d.at["next"], d.at["staging"]} \ {Absent})]
        /\ survivors' = {dir'}
  BY DEF PowerLoss
<1>3. PICK torn \in SUBSET {t \in Trees : ~tree[t].synced} :
        tree' = [t \in Trees |->
          [tree[t] EXCEPT !.synced = TRUE, !.data = IF t \in torn THEN "torn" ELSE @]]
  BY DEF PowerLoss
<1>4. tree' \in [Trees -> Contents] /\
      \A t \in Trees : /\ tree'[t].form = tree[t].form /\ tree'[t].sentinel = tree[t].sentinel
                       /\ tree'[t].synced /\ (tree[t].synced => tree'[t].data = tree[t].data)
  BY <1>1, <1>3 DEF Contents
<1>5. d \in Directories
  BY <1>1
<1> DEFINE e == [d EXCEPT !.at["next"] = Absent, !.at["staging"] = Absent,
                          !.kept = @ \cup ({d.at["next"], d.at["staging"]} \ {Absent})]
<1>6. /\ e \in Directories /\ e.phase = d.phase
      /\ e.kept = d.kept \cup ({d.at["next"], d.at["staging"]} \ {Absent})
      /\ e.at["next"] = Absent /\ e.at["staging"] = Absent
      /\ \A m \in Names \ {"next", "staging"} : e.at[m] = d.at[m]
  BY <1>5 DEF Directories, Names
<1> HIDE DEF e
<1>7. Store(tree', e, {e})
  BY <1>1, <1>4, <1>6, PowerLossKeeps
<1>8. Store(tree', dir', survivors')
  BY <1>2, <1>7 DEF e
<1>9. pc' = "off" /\ angel' = "none" /\ aside' = aside /\ displaced' = displaced
      /\ restores' = restores /\ incidents' \in 0 .. MaxIncidents
  BY IncidentsBounded DEF PowerLoss
<1>10. Kinds'
  BY <1>9 DEF IInv, Kinds, Pcs
<1>11. QED
  BY <1>8, <1>9, <1>10 DEF IInv, Reached, AsideKept

-----------------------------------------------------------------------------
\* Every step keeps the invariant.
LEMMA NextIInv == IInv /\ [Next]_vars => IInv'
<1> SUFFICES ASSUME IInv, [Next]_vars PROVE IInv'
  OBVIOUS
<1>1. CASE UNCHANGED vars
  BY <1>1 DEF vars, disk, app, helper, bounds, IInv, Kinds, AsideKept
<1>2. CASE Boot
  BY <1>2, LaunchKeeps, ResumeKeeps, DiscardKeeps, UnphaseKeeps, FinishDecidesKeeps,
     PreserveKeeps, MarkPreservedKeeps, PromoteKeeps, UnmarkedKeeps, RollbackKeeps,
     MarkCompleteKeeps, ReclaimKeeps, SettleKeeps, FirstLaunchKeeps, PeekKeeps, ExportKeeps,
     MarkExportingKeeps, ImportKeeps, ValidateKeeps, BuildKeeps, SetAsideKeeps, PublishKeeps,
     PutBackKeeps, DropNextKeeps, CloseKeeps DEF Boot
<1>3. CASE Angel
  BY <1>3, ExtractKeeps, AngelSetsAsideKeeps, InstallKeeps, AngelPutsBackKeeps,
     AngelDropsKeeps DEF Angel
<1>4. QED
  BY <1>1, <1>2, <1>3, AskRestoreKeeps, KilledKeeps, PowerLossStepKeeps DEF Next

\* At every step the directories a power loss may leave are sound.
LEMMA InvariantHolds == Spec => []IInv
BY InitIInv, NextIInv, PTL DEF Spec

\* The store, the trees and where the processes are keep their types, and in the
\* directory the processes see a tree has one name (the renames, the kept trees and
\* what is put back from them).
THEOREM TypeCorrect == Spec => []TypeOK
<1>1. ASSUME IInv PROVE TypeOK
  <2>1. dir \in Directories /\ dir \in survivors /\ OneName(dir) /\ tree \in [Trees -> Contents]
        /\ \A d \in survivors : d \in Directories
    BY <1>1, InvStore DEF Store, Sound
  <2>2. Kinds
    BY <1>1 DEF IInv
  <2>3. QED
    BY <2>1, <2>2 DEF TypeOK, Kinds, Pcs, OneName, There, Has
<1>2. QED
  BY <1>1, InvariantHolds, PTL

\* Whatever directory a power loss leaves, during a conversion, a rebuild or a
\* restore and for any number of interruptions, a tree in it has all the owner's
\* rows on disk.
THEOREM CopyKeptHolds == Spec => []CopyKept
<1>1. ASSUME IInv PROVE CopyKept
  <2>1. SUFFICES ASSUME NEW d \in survivors
                 PROVE  \E t \in Refs(d) : Good(tree, t)
    BY DEF CopyKept, Refs, Good
  <2>2. d \in Directories /\ Sound(tree, d)
    BY <1>1, InvStore DEF Store
  <2>3. /\ d.kept \subseteq Refs(d)
        /\ \A n \in Names : Has(d, n) => d.at[n] \in Refs(d)
    BY DEF Refs, Has
  <2>4. CASE Half(d)
    <3>1. Converted(tree, d)
      BY <2>2, <2>4 DEF Sound, Own
    <3>2. CASE Has(d, "stage")
      BY <2>3, <3>1, <3>2 DEF Converted, Names
    <3>3. CASE ~Has(d, "stage")
      BY <2>3, <3>1, <3>3 DEF Converted, Names
    <3>4. QED
      BY <3>2, <3>3
  <2>5. CASE ~Half(d)
    <3>1. PICK t \in d.kept \cup {d.at["db"]} : t \in Trees /\ Good(tree, t)
      BY <2>2, <2>5 DEF Sound, Own
    <3>2. t \in Refs(d)
      BY <2>3, <3>1 DEF Has, Names, Trees, Absent
    <3>3. QED
      BY <3>1, <3>2
  <2>6. QED
    BY <2>4, <2>5
<1>2. QED
  BY <1>1, InvariantHolds, PTL

\* A session whose store lacks rows has the whole one beside it (after a rebuild
\* that could not carry a table, a restore of a torn package, or a death between
\* two renames).
THEOREM SafeBesideHolds == Spec => []SafeBeside
<1>1. ASSUME IInv PROVE SafeBeside
  <2>1. SUFFICES ASSUME pc = "open", There("db") => tree[dir.at["db"]].data # "whole"
                 PROVE  \E t \in dir.kept : tree[t].data = "whole" /\ tree[t].synced
    BY DEF SafeBeside
  <2>2. ~Half(dir)
    BY <1>1, <2>1, InvReached DEF Reached, Settled, Half
  <2>3. PICK t \in dir.kept \cup {dir.at["db"]} : t \in Trees /\ Good(tree, t)
    BY <1>1, <2>2, InvStore DEF Sound, Own
  <2>4. t # dir.at["db"]
    BY <2>1, <2>3 DEF Good, There, Trees, Absent
  <2>5. QED
    BY <2>3, <2>4 DEF Good
<1>2. QED
  BY <1>1, InvariantHolds, PTL

-----------------------------------------------------------------------------
\* What refuses a launch: the four steps that read a phase or a form and go on from
\* what they find.
LEMMA ResumeRefuses ==
  ASSUME IInv, Resume, pc' = "refused"
  PROVE  dir.phase = "complete" /\ ~There("db")
<1>1. dir \in Directories /\ Shape(tree, dir)
  BY InvStore DEF Sound
<1>2. "refused" = CASE dir.phase = "none" ->
                         IF ~There("db") /\ There("backup") THEN "finish" ELSE "peek"
                    [] dir.phase = "exporting" ->
                         IF There("db") /\ ~There("backup") THEN "discard" ELSE "refused"
                    [] dir.phase \in {"validated", "source-preserved"} -> "finish"
                    [] dir.phase = "complete" ->
                         IF There("db") /\ ~There("stage") THEN "reclaim" ELSE "refused"
  BY DEF Resume, Decides, Goes
<1>3. dir.phase \in Phases
  BY <1>1 DEF Directories
<1>4. CASE dir.phase = "none"
  BY <1>2, <1>4
<1>5. CASE dir.phase = "exporting"
  BY <1>1, <1>2, <1>5 DEF Shape, FromV2, Early, There, Has
<1>6. CASE dir.phase \in {"validated", "source-preserved"}
  BY <1>2, <1>6
<1>7. CASE dir.phase = "complete"
  BY <1>1, <1>2, <1>7 DEF Shape, There, Has
<1>8. QED
  BY <1>3, <1>4, <1>5, <1>6, <1>7 DEF Phases

\* The other steps that may refuse do not, since what a conversion leaves has the shape
\* they ask for.
LEMMA OthersAccept ==
  ASSUME IInv, FinishDecides \/ MarkPreserved \/ Peek
  PROVE  pc' # "refused"
<1>1. dir \in Directories /\ Sound(tree, dir)
  BY InvStore
<1>2. CASE FinishDecides
  <2>1. Converted(tree, dir) /\ (There("db") => There("backup"))
    BY <1>1, <1>2, InvReached DEF FinishDecides, Decides, Reached, Sound, Own
  <2>2. There("db") => ~There("stage") /\ Promoted
    BY <2>1 DEF Converted, There, Has, Promoted
  <2>3. ~There("db") => There("backup")
    BY <2>1 DEF Converted, There, Has
  <2>4. QED
    BY <1>2, <2>2, <2>3 DEF FinishDecides, Decides, Goes
<1>3. CASE MarkPreserved
  <2>1. There("stage")
    BY <1>3, InvReached DEF MarkPreserved, Step, Reached, There, Has
  <2>2. QED
    BY <1>3, <2>1 DEF MarkPreserved, Step, Goes
<1>4. CASE Peek
  <2>1. /\ dir.phase \in {"none", "complete"} /\ There("db")
    BY <1>4, InvReached DEF Peek, Decides, Reached
  <2>2. FromV2(tree, dir) => ~There("backup")
    BY <1>1, <2>1 DEF Sound, Shape, Early, There, Has
  <2>3. tree[dir.at["db"]].form = "v2" => ~There("backup")
    BY <2>1, <2>2 DEF FromV2, V2, There, Has
  <2>4. QED
    BY <1>4, <2>3 DEF Peek, Decides, Goes
<1>5. QED
  BY <1>2, <1>3, <1>4

\* No other step refuses.
LEMMA RestGoesOn ==
  ASSUME Next, ~Resume, ~FinishDecides, ~MarkPreserved, ~Peek, pc # "refused"
  PROVE  pc' # "refused"
<1>1. CASE Launch \/ Discard \/ Unphase \/ Preserve \/ Promote \/ Unmarked \/ Rollback
  BY <1>1 DEF Launch, Discard, Unphase, Preserve, Promote, Unmarked, Rollback, Removal, Step, Goes
<1>2. CASE MarkComplete \/ Reclaim \/ Settle \/ FirstLaunch \/ Export \/ MarkExporting
  BY <1>2 DEF MarkComplete, Reclaim, Settle, FirstLaunch, Export, MarkExporting, Removal, Step, Goes
<1>3. CASE Import \/ Validate \/ Build \/ SetAside
  BY <1>3 DEF Import, Validate, Build, SetAside, Goes
<1>4. CASE Publish \/ PutBack \/ DropNext \/ Close
  BY <1>4 DEF Publish, PutBack, DropNext, Close, Goes
<1>5. CASE Angel
  <2>1. UNCHANGED app
    BY <1>5 DEF Angel, Extract, AngelSetsAside, Install, AngelPutsBack, AngelDrops, AngelGoes
  <2>2. QED
    BY <2>1 DEF app
<1>6. CASE AskRestore \/ Killed \/ PowerLoss
  BY <1>6 DEF AskRestore, Killed, PowerLoss, AngelGoes, Goes, app
<1>7. QED
  BY <1>1, <1>2, <1>3, <1>4, <1>5, <1>6 DEF Next, Boot

\* However a conversion was interrupted, the next launch takes it up (resume, finish
\* and the boot's look at the store refuse only what something else left).
THEOREM NoDeadEndHolds == Spec => NoDeadEnd
<1>1. ASSUME IInv, [Next]_vars
      PROVE  [pc # "refused" /\ pc' = "refused" => dir.phase = "complete" /\ ~There("db")]_vars
  <2>1. CASE UNCHANGED vars
    BY <2>1
  <2>2. CASE Next
    BY <1>1, <2>2, ResumeRefuses, OthersAccept, RestGoesOn
  <2>3. QED
    BY <1>1, <2>1, <2>2
<1>2. QED
  BY <1>1, InvariantHolds, PTL DEF Spec, NoDeadEnd

=============================================================================
