------------------------ MODULE EntityDeliveryProofs ------------------------
(************************************************************************************)
(* Proofs about both sides of EntityRoundTrip: the decompressor takes every entity, *)
(* both sides hold the same model between two chunks, and together they implement   *)
(* the link of DataLink.  The invariant LinkInv relates the buffers of the two      *)
(* sides collection by collection: Before, while the compressor is ahead of the     *)
(* ground, and After, while the ground follows it.                                  *)
(************************************************************************************)
EXTENDS EntityRoundTripProofs

-----------------------------------------------------------------------------
(* The models of the two sides *)

Mod(c) == model_mode_is_used(c.cmp_mode)
NoneIsUpdated(s) == s.update = "none"
Target(s, side) == IF s.update = "separate" THEN side.updated ELSE side.model

UpdatedOf(s, side, o, col) ==
  CASE s.update = "none" -> side
    [] s.update = "separate" -> [side EXCEPT !.updated = With(side.updated, o, col)]
    [] s.update = "in_place" -> [side EXCEPT !.model = With(side.model, o, col)]

\* Updated, with the setting as a parameter.
LEMMA UpdatedIs ==
  ASSUME NEW side, NEW o, NEW col
  PROVE  Updated(side, o, col) = UpdatedOf(setting, side, o, col)
BY DEF Updated, UpdatedOf

\* A setting says where the updated model goes, and has a collection.
LEMMA Updates ==
  ASSUME NEW s \in Settings
  PROVE  s.update \in {"none", "separate", "in_place"} /\ Count(s) \in Nat \ {0}
BY SettingsAssumption, Layout, Zenon

\* The models of a side.
Side(s, x) ==
  /\ IsBuffer(s, x.model) /\ IsBuffer(s, x.updated) /\ DOMAIN x.model \in {{}, Places(s)}

IsIcu(x) == x = [model |-> x.model, updated |-> x.updated]
IsGround(x) == x = [model |-> x.model, updated |-> x.updated, data |-> x.data]

\* The places of the collections.
LEMMA PlacesIs ==
  ASSUME NEW s \in Settings, NEW k \in 1 .. Count(s)
  PROVE  Offsets(s)[k] \in Places(s) /\ Places(s) # {}
BY DEF Places

IsWith(s, w, b, k, col) ==
  /\ IsBuffer(s, w) /\ DOMAIN w = DOMAIN b \cup {Offsets(s)[k]} /\ w[Offsets(s)[k]] = col
  /\ \A l \in 1 .. Count(s) : l # k => \/ w[Offsets(s)[l]] = b[Offsets(s)[l]]
                                       \/ Offsets(s)[l] \notin DOMAIN b

\* A collection written to a buffer, in one fact.
LEMMA WithGives ==
  ASSUME NEW s \in Settings, NEW b, IsBuffer(s, b), NEW k \in 1 .. Count(s),
         NEW col, col.data \in SamplesOf(s, k)
  PROVE  IsWith(s, With(b, Offsets(s)[k], col), b, k, col)
BY WithIs DEF IsWith

\* What updating a side with collection k does.
UpdatedAt(s, new, old, k, col) ==
  /\ s.update # "none" =>
       /\ Target(s, new)[Offsets(s)[k]] = col
       /\ DOMAIN Target(s, new) = DOMAIN Target(s, old) \cup {Offsets(s)[k]}
       /\ \A l \in 1 .. Count(s) :
            l # k /\ Offsets(s)[l] \in DOMAIN Target(s, old) =>
              Target(s, new)[Offsets(s)[l]] = Target(s, old)[Offsets(s)[l]]
  /\ s.update # "in_place" => new.model = old.model
  /\ s.update # "separate" => new.updated = old.updated

\* A model with one collection updated is a model, and the other buffers stay.
LEMMA UpdatedSide ==
  ASSUME NEW s \in Settings, NEW x, IsIcu(x) \/ IsGround(x), Side(s, x), NEW k \in 1 .. Count(s),
         NEW col, col.data \in SamplesOf(s, k),
         s.update = "in_place" => DOMAIN x.model = Places(s)
  PROVE  LET y == UpdatedOf(s, x, Offsets(s)[k], col)
         IN  /\ Side(s, y) /\ UpdatedAt(s, y, x, k, col) /\ DOMAIN y.model = DOMAIN x.model
             /\ (IsIcu(x) => IsIcu(y)) /\ (IsGround(x) => IsGround(y) /\ y.data = x.data)
<1>1. PICK o, y : o = Offsets(s)[k] /\ y = UpdatedOf(s, x, o, col)
  OBVIOUS
<1>2. IsBuffer(s, x.model) /\ IsBuffer(s, x.updated) /\ DOMAIN x.model \in {{}, Places(s)}
  BY DEF Side
<1>3. o \in Places(s)
  BY <1>1, PlacesIs
<1>4. CASE s.update = "none"
  <2>1. y = x
    BY <1>1, <1>4 DEF UpdatedOf
  <2> QED
    BY <1>1, <1>4, <2>1 DEF UpdatedAt
<1>5. CASE s.update = "separate"
  <2>1. y = [x EXCEPT !.updated = With(x.updated, o, col)]
    BY <1>1, <1>5 DEF UpdatedOf
  <2>2. PICK w : w = With(x.updated, o, col)
    OBVIOUS
  <2>3. /\ IsBuffer(s, w) /\ DOMAIN w = DOMAIN x.updated \cup {o} /\ w[o] = col
        /\ \A l \in 1 .. Count(s) : l # k => \/ w[Offsets(s)[l]] = x.updated[Offsets(s)[l]]
                                             \/ Offsets(s)[l] \notin DOMAIN x.updated
    <3>1. IsWith(s, w, x.updated, k, col)
      BY <1>1, <1>2, <2>2, WithGives, Zenon
    <3> QED
      BY <1>1, <3>1 DEF IsWith
  <2>4. /\ y.updated = w /\ y.model = x.model /\ (IsIcu(x) => IsIcu(y))
        /\ (IsGround(x) => IsGround(y) /\ y.data = x.data)
    BY <2>1, <2>2 DEF IsIcu, IsGround
  <2>5. Target(s, y) = w /\ Target(s, x) = x.updated
    BY <1>5, <2>4 DEF Target
  <2>6. UpdatedAt(s, y, x, k, col)
    BY <1>1, <1>5, <2>3, <2>4, <2>5 DEF UpdatedAt
  <2>7. Side(s, y)
    BY <1>2, <2>3, <2>4 DEF Side
  <2> QED
    BY <1>1, <2>4, <2>6, <2>7
<1>6. CASE s.update = "in_place"
  <2>1. y = [x EXCEPT !.model = With(x.model, o, col)]
    BY <1>1, <1>6 DEF UpdatedOf
  <2>2. PICK w : w = With(x.model, o, col)
    OBVIOUS
  <2>3. /\ IsBuffer(s, w) /\ DOMAIN w = DOMAIN x.model \cup {o} /\ w[o] = col
        /\ \A l \in 1 .. Count(s) : l # k => \/ w[Offsets(s)[l]] = x.model[Offsets(s)[l]]
                                             \/ Offsets(s)[l] \notin DOMAIN x.model
    <3>1. IsWith(s, w, x.model, k, col)
      BY <1>1, <1>2, <2>2, WithGives, Zenon
    <3> QED
      BY <1>1, <3>1 DEF IsWith
  <2>4. /\ y.updated = x.updated /\ y.model = w /\ (IsIcu(x) => IsIcu(y))
        /\ (IsGround(x) => IsGround(y) /\ y.data = x.data)
    BY <2>1, <2>2 DEF IsIcu, IsGround
  <2>5. Target(s, y) = w /\ Target(s, x) = x.model
    BY <1>6, <2>4 DEF Target
  <2>6. UpdatedAt(s, y, x, k, col)
    BY <1>1, <1>6, <2>3, <2>4, <2>5 DEF UpdatedAt
  <2>7. DOMAIN y.model = DOMAIN x.model
    BY <1>3, <1>6, <2>3, <2>4
  <2>8. Side(s, y)
    BY <1>2, <2>3, <2>4, <2>7 DEF Side
  <2> QED
    BY <1>1, <2>4, <2>6, <2>7, <2>8
<1> QED
  BY <1>4, <1>5, <1>6, Updates

\* The updated model of a collection coded with a model x, or stored.
NewOf(s, r, c, x, stored, k) ==
  IF stored THEN DataOf(s, r, k) ELSE UpModels(c, DataOf(s, r, k), x)

\* The models while an entity is built, d of its collections: both sides have
\* the same one, but for what the instrument updated already.
TrustBefore(s, r, c, a, g, m, S, d) ==
  /\ IF s.update = "in_place" /\ Mod(c)
     THEN \A k \in d + 1 .. Count(s) :
            Offsets(s)[k] \in DOMAIN a.model => a.model[Offsets(s)[k]] = g.model[Offsets(s)[k]]
     ELSE a.model = g.model
  /\ Mod(c) => \A k \in 1 .. d :
       /\ m[k] = ModelAt(s, g.model, k)
       /\ s.update # "none" => Target(s, a)[Offsets(s)[k]]
                               = Column(HdrOf(s, r, k), NewOf(s, r, c, m[k], k \in S, k))

Before(s, r, c, a, g, m, S, d, spoilt) ==
  /\ DOMAIN a.model = DOMAIN g.model
  /\ Mod(c) /\ d > 0 => DOMAIN a.model = Places(s)
  /\ Mod(c) /\ s.update = "separate" => \A k \in 1 .. d : Offsets(s)[k] \in DOMAIN a.updated
  /\ ~ spoilt => TrustBefore(s, r, c, a, g, m, S, d)

\* Before the first collection, both sides have the same model.
LEMMA BeforeFirst ==
  ASSUME NEW s \in Settings, NEW r, NEW c, NEW a, NEW g, NEW m, NEW S, NEW spoilt,
         DOMAIN a.model = DOMAIN g.model, ~ spoilt => a.model = g.model
  PROVE  Before(s, r, c, a, g, m, S, 0, spoilt)
BY DEF Before, TrustBefore

\* A piece more.
Longer(m, d, x) == [k \in 1 .. d + 1 |-> IF k = d + 1 THEN x ELSE m[k]]
Marked(S, d, stored) == IF stored THEN S \cup {d + 1} ELSE S

Lengthened(n, T, m, S, d, x, stored) ==
  /\ n[d + 1] = x /\ (d + 1 \in T <=> stored) /\ T \subseteq 1 .. d + 1
  /\ \A k \in 1 .. d : k # d + 1 /\ n[k] = m[k] /\ (k \in T <=> k \in S)
  /\ \A k \in 1 .. d + 1 : k \in 1 .. d \/ k = d + 1

\* The lists of models and stored collections with one more.
LEMMA LongerIs ==
  ASSUME NEW m, NEW d \in Nat, NEW x, NEW S, S \subseteq 1 .. d, NEW stored \in BOOLEAN
  PROVE  Lengthened(Longer(m, d, x), Marked(S, d, stored), m, S, d, x, stored)
BY DEF Longer, Marked, Lengthened

\* A collection compressed: the ground has yet to follow it.
LEMMA BeforeGrows ==
  ASSUME NEW s \in Settings, NEW r, NEW c, NEW a, NEW g, NEW m, NEW S, NEW d \in Nat, NEW spoilt,
         Before(s, r, c, a, g, m, S, d, spoilt), d + 1 \in 1 .. Count(s), S \subseteq 1 .. d,
         Mod(c) => DOMAIN a.model = Places(s),
         NEW stored \in BOOLEAN, NEW x, x = ModelAt(s, a.model, d + 1), NEW b,
         IF Mod(c) THEN UpdatedAt(s, b, a, d + 1, Column(HdrOf(s, r, d + 1), NewOf(s, r, c, x, stored, d + 1)))
                        /\ DOMAIN b.model = DOMAIN a.model
         ELSE b = a
  PROVE  Before(s, r, c, b, g, Longer(m, d, x), Marked(S, d, stored), d + 1, spoilt)
<1>1. PICK n, T : n = Longer(m, d, x) /\ T = Marked(S, d, stored)
  OBVIOUS
<1>2. /\ n[d + 1] = x /\ (d + 1 \in T) = stored
      /\ \A k \in 1 .. d : k # d + 1 /\ n[k] = m[k] /\ (k \in T) = (k \in S)
      /\ \A k \in 1 .. d + 1 : k \in 1 .. d \/ k = d + 1
  <2>1. Lengthened(n, T, m, S, d, x, stored)
    BY <1>1, LongerIs, Zenon
  <2> QED
    BY <2>1 DEF Lengthened
<1>3. CASE ~ Mod(c)
  BY <1>1, <1>3 DEF Before, TrustBefore
<1>4. CASE Mod(c)
  <2>1. /\ UpdatedAt(s, b, a, d + 1, Column(HdrOf(s, r, d + 1), NewOf(s, r, c, x, stored, d + 1)))
        /\ DOMAIN b.model = DOMAIN a.model /\ DOMAIN a.model = Places(s)
    BY <1>4
  <2>2. DOMAIN b.model = DOMAIN g.model /\ DOMAIN b.model = Places(s)
    BY <2>1 DEF Before
  <2>3. \A k \in 1 .. d : k \in 1 .. Count(s) /\ k # d + 1
    BY Updates
  <2>4. s.update = "separate" => \A k \in 1 .. d + 1 : Offsets(s)[k] \in DOMAIN b.updated
    <3> SUFFICES ASSUME s.update = "separate", NEW k \in 1 .. d + 1
                 PROVE  Offsets(s)[k] \in DOMAIN b.updated
      OBVIOUS
    <3>1. DOMAIN b.updated = DOMAIN a.updated \cup {Offsets(s)[d + 1]}
      BY <2>1 DEF UpdatedAt, Target
    <3>2. \A l \in 1 .. d : Offsets(s)[l] \in DOMAIN a.updated
      BY <1>4 DEF Before
    <3> QED
      BY <1>2, <3>1, <3>2
  <2>5. ASSUME ~ spoilt PROVE TrustBefore(s, r, c, b, g, n, T, d + 1)
    <3>1. TrustBefore(s, r, c, a, g, m, S, d)
      BY <2>5 DEF Before
    <3>2. x = ModelAt(s, g.model, d + 1)
      <4>1. CASE s.update = "in_place"
        <5>1. a.model[Offsets(s)[d + 1]] = g.model[Offsets(s)[d + 1]]
          <6>1. d + 1 \in d + 1 .. Count(s) /\ Offsets(s)[d + 1] \in DOMAIN a.model
            BY <2>1, PlacesIs
          <6> QED
            BY <1>4, <3>1, <4>1, <6>1 DEF TrustBefore
        <5>2. DOMAIN a.model = DOMAIN g.model
          BY DEF Before
        <5> QED
          BY <5>1, <5>2, ModelAtSame, Zenon
      <4>2. CASE s.update # "in_place"
        BY <3>1, <4>2 DEF TrustBefore
      <4> QED
        BY <4>1, <4>2
    <3>3. IF s.update = "in_place"
          THEN \A k \in (d + 1) + 1 .. Count(s) :
                 Offsets(s)[k] \in DOMAIN b.model => b.model[Offsets(s)[k]] = g.model[Offsets(s)[k]]
          ELSE b.model = g.model
      <4>1. CASE s.update = "in_place"
        <5>1. ASSUME NEW k \in (d + 1) + 1 .. Count(s)
              PROVE  b.model[Offsets(s)[k]] = g.model[Offsets(s)[k]]
          <6>1. k \in 1 .. Count(s) /\ k # d + 1 /\ k \in d + 1 .. Count(s)
            OBVIOUS
          <6>2. Offsets(s)[k] \in DOMAIN a.model
            BY <2>1, <6>1, PlacesIs
          <6>3. b.model[Offsets(s)[k]] = a.model[Offsets(s)[k]]
            BY <2>1, <4>1, <6>1, <6>2 DEF UpdatedAt, Target
          <6> QED
            BY <1>4, <3>1, <4>1, <6>1, <6>2, <6>3 DEF TrustBefore
        <5> QED
          BY <4>1, <5>1
      <4>2. CASE s.update # "in_place"
        BY <2>1, <3>1, <4>2 DEF TrustBefore, UpdatedAt
      <4> QED
        BY <4>1, <4>2
    <3>4. ASSUME NEW k \in 1 .. d + 1
          PROVE  /\ n[k] = ModelAt(s, g.model, k)
                 /\ s.update # "none" => Target(s, b)[Offsets(s)[k]]
                                         = Column(HdrOf(s, r, k), NewOf(s, r, c, n[k], k \in T, k))
      <4>1. CASE k = d + 1
        <5>1. s.update # "none" => Target(s, b)[Offsets(s)[d + 1]]
                = Column(HdrOf(s, r, d + 1), NewOf(s, r, c, x, stored, d + 1))
          BY <2>1, Zenon DEF UpdatedAt
        <5> QED
          BY <1>2, <3>2, <4>1, <5>1
      <4>2. CASE k \in 1 .. d
        <5>1. /\ m[k] = ModelAt(s, g.model, k)
              /\ s.update # "none" => Target(s, a)[Offsets(s)[k]]
                                      = Column(HdrOf(s, r, k), NewOf(s, r, c, m[k], k \in S, k))
          BY <1>4, <3>1, <4>2, Zenon DEF TrustBefore
        <5>2. n[k] = m[k] /\ (k \in T) = (k \in S) /\ k # d + 1 /\ k \in 1 .. Count(s)
          BY <1>2, <2>3, <4>2
        <5>3. ASSUME s.update # "none"
              PROVE  Target(s, b)[Offsets(s)[k]] = Target(s, a)[Offsets(s)[k]]
          <6>1. Offsets(s)[k] \in DOMAIN Target(s, a)
            <7>1. CASE s.update = "separate"
              BY <1>4, <4>2, <7>1 DEF Before, Target
            <7>2. CASE s.update # "separate"
              BY <2>1, <5>2, <7>2, PlacesIs DEF Target
            <7> QED
              BY <7>1, <7>2
          <6> QED
            BY <2>1, <5>2, <5>3, <6>1, Zenon DEF UpdatedAt
        <5> QED
          BY <5>1, <5>2, <5>3
      <4> QED
        BY <1>2, <4>1, <4>2
    <3> QED
      BY <1>4, <3>3, <3>4 DEF TrustBefore
  <2>6. Before(s, r, c, b, g, n, T, d + 1, spoilt)
    BY <2>2, <2>4, <2>5 DEF Before
  <2> QED
    BY <1>1, <2>6
<1> QED
  BY <1>3, <1>4

\* The lossy image of the chunk.
IsLossy(s, r, c, b) ==
  /\ IsBuffer(s, b) /\ DOMAIN b = Places(s)
  /\ \A k \in 1 .. Count(s) :
       b[Offsets(s)[k]] = Column(HdrOf(s, r, k), Seen(c, DataOf(s, r, k)))

\* The models after the entity was sent: the instrument updated its own, the
\* ground does, and the collections in done it has decompressed.
TrustAfter(s, r, c, a, g, m, S, done) ==
  /\ Mod(c) /\ s.update = "none" => a.model = g.model
  /\ Mod(c) /\ s.update # "none" => \A k \in 1 .. Count(s) :
       a.model[Offsets(s)[k]] = Column(HdrOf(s, r, k), NewOf(s, r, c, m[k], k \in S, k))
  /\ Mod(c) => \A k \in 1 .. Count(s) :
       k \notin S /\ k \notin done => m[k] = ModelAt(s, g.model, k)
  /\ \A k \in done :
       /\ g.data[Offsets(s)[k]] = Column(HdrOf(s, r, k), Seen(c, DataOf(s, r, k)))
       /\ Mod(c) /\ s.update # "none" => Target(s, g)[Offsets(s)[k]] = a.model[Offsets(s)[k]]

After(s, r, c, a, g, m, S, done, spoilt) ==
  /\ Mod(c) => DOMAIN a.model = Places(s) /\ DOMAIN g.model = Places(s)
  /\ ~ Mod(c) => ~ spoilt /\ IsLossy(s, r, c, a.model)
  /\ \A k \in done :
       /\ Offsets(s)[k] \in DOMAIN g.data
       /\ Mod(c) /\ s.update = "separate" => Offsets(s)[k] \in DOMAIN g.updated
  /\ ~ spoilt => TrustAfter(s, r, c, a, g, m, S, done)

NextModelOf(s, side, c, data) ==
  IF ~ Mod(c) THEN [side EXCEPT !.model = data]
  ELSE IF s.update = "separate" THEN [side EXCEPT !.model = side.updated]
  ELSE side

\* NextModel, with the setting as a parameter.
LEMMA NextModelIs ==
  ASSUME NEW side, NEW c, NEW data
  PROVE  NextModel(side, c, data) = NextModelOf(setting, side, c, data)
BY DEF NextModel, NextModelOf, Mod

\* A buffer with all its collections.
LEMMA Filled ==
  ASSUME NEW s, NEW b, IsBuffer(s, b), \A k \in 1 .. Count(s) : Offsets(s)[k] \in DOMAIN b
  PROVE  DOMAIN b = Places(s)
BY DEF IsBuffer, Places

\* All collections are compressed, and none is decompressed.
LEMMA AfterFirst ==
  ASSUME NEW s \in Settings, NEW r, NEW c, NEW a, NEW g, NEW m, NEW S, NEW spoilt \in BOOLEAN,
         Before(s, r, c, a, g, m, S, Count(s), spoilt), Side(s, a), IsIcu(a),
         NEW L, IsLossy(s, r, c, L), NEW b, b = NextModelOf(s, a, c, L)
  PROVE  /\ After(s, r, c, b, g, m, S, {}, spoilt /\ Mod(c)) /\ Side(s, b) /\ IsIcu(b)
<1>1. CASE ~ Mod(c)
  <2>1. /\ b.model = L /\ b.updated = a.updated /\ IsIcu(b)
    BY <1>1 DEF NextModelOf, IsIcu
  <2>2. Side(s, b)
    BY <2>1 DEF Side, IsLossy
  <2>3. After(s, r, c, b, g, m, S, {}, spoilt /\ Mod(c))
    BY <1>1, <2>1 DEF After, TrustAfter
  <2> QED
    BY <2>1, <2>2, <2>3
<1>2. CASE Mod(c)
  <2>1. Count(s) > 0 /\ Count(s) \in Nat
    BY Updates
  <2>2. DOMAIN a.model = Places(s) /\ DOMAIN g.model = Places(s)
    BY <1>2, <2>1 DEF Before
  <2>3. /\ b.updated = a.updated /\ IsIcu(b)
        /\ b.model = IF s.update = "separate" THEN a.updated ELSE a.model
    BY <1>2 DEF NextModelOf, IsIcu
  <2>4. s.update = "separate" => DOMAIN a.updated = Places(s)
    BY <1>2, Filled DEF Before, Side
  <2>5. Side(s, b) /\ DOMAIN b.model = Places(s)
    BY <2>2, <2>3, <2>4 DEF Side
  <2>6. b.model = Target(s, a)
    BY <2>3 DEF Target
  <2>7. ASSUME ~ spoilt PROVE TrustAfter(s, r, c, b, g, m, S, {})
    <3>1. TrustBefore(s, r, c, a, g, m, S, Count(s))
      BY <2>7 DEF Before
    <3>2. s.update = "none" => b.model = g.model
      BY <2>3, <3>1 DEF TrustBefore
    <3>3. /\ \A k \in 1 .. Count(s) : m[k] = ModelAt(s, g.model, k)
          /\ s.update # "none" => \A k \in 1 .. Count(s) :
               b.model[Offsets(s)[k]] = Column(HdrOf(s, r, k), NewOf(s, r, c, m[k], k \in S, k))
      BY <1>2, <2>6, <3>1, Zenon DEF TrustBefore
    <3> QED
      BY <3>2, <3>3, Zenon DEF TrustAfter
  <2>8. After(s, r, c, b, g, m, S, {}, spoilt /\ Mod(c))
    BY <1>2, <2>2, <2>5, <2>7 DEF After
  <2> QED
    BY <2>3, <2>5, <2>8
<1> QED
  BY <1>1, <1>2

\* Collection k with its data on the ground.
Placed(s, new, old, k, col) ==
  /\ DOMAIN new = DOMAIN old \cup {Offsets(s)[k]} /\ new[Offsets(s)[k]] = col
  /\ \A l \in 1 .. Count(s) :
       l # k /\ Offsets(s)[l] \in DOMAIN old => new[Offsets(s)[l]] = old[Offsets(s)[l]]

\* A collection decompressed: the ground has followed it.
LEMMA AfterGrows ==
  ASSUME NEW s \in Settings, NEW r, NEW c, NEW a, NEW g, NEW m, NEW S, NEW spoilt, NEW done,
         done \subseteq 1 .. Count(s), After(s, r, c, a, g, m, S, done, spoilt),
         NEW k \in 1 .. Count(s), NEW w, NEW v, NEW h,
         IF Mod(c) THEN /\ UpdatedAt(s, h, g, k, Column(HdrOf(s, r, k), w))
                        /\ DOMAIN h.model = DOMAIN g.model
         ELSE h.model = g.model /\ h.updated = g.updated,
         ~ spoilt /\ Mod(c) => w = NewOf(s, r, c, m[k], k \in S, k),
         NEW more,
         \/ /\ more = done \cup {k} /\ Placed(s, h.data, g.data, k, Column(HdrOf(s, r, k), v))
            /\ ~ spoilt => v = Seen(c, DataOf(s, r, k))
         \/ more = {} /\ done = {} /\ k \in S
  PROVE  After(s, r, c, a, h, m, S, more, spoilt)
<1>1. /\ Mod(c) => DOMAIN a.model = Places(s) /\ DOMAIN g.model = Places(s)
      /\ ~ Mod(c) => ~ spoilt /\ IsLossy(s, r, c, a.model)
  BY DEF After
<1>2. Mod(c) => DOMAIN h.model = Places(s)
  BY <1>1
<1>3. ASSUME NEW l \in more
      PROVE  /\ Offsets(s)[l] \in DOMAIN h.data
             /\ Mod(c) /\ s.update = "separate" => Offsets(s)[l] \in DOMAIN h.updated
  <2>1. more = done \cup {k} /\ Placed(s, h.data, g.data, k, Column(HdrOf(s, r, k), v))
    BY <1>3
  <2>2. l = k \/ l \in done
    BY <1>3, <2>1
  <2>3. l \in done => /\ Offsets(s)[l] \in DOMAIN g.data
                      /\ Mod(c) /\ s.update = "separate" => Offsets(s)[l] \in DOMAIN g.updated
    BY DEF After
  <2>4. Offsets(s)[l] \in DOMAIN h.data
    BY <2>1, <2>2, <2>3 DEF Placed
  <2>5. ASSUME Mod(c), s.update = "separate" PROVE Offsets(s)[l] \in DOMAIN h.updated
    <3>1. DOMAIN h.updated = DOMAIN g.updated \cup {Offsets(s)[k]}
      BY <2>5 DEF UpdatedAt, Target
    <3> QED
      BY <2>2, <2>3, <2>5, <3>1
  <2> QED
    BY <2>4, <2>5
<1>4. ASSUME ~ spoilt PROVE TrustAfter(s, r, c, a, h, m, S, more)
  <2>1. TrustAfter(s, r, c, a, g, m, S, done)
    BY <1>4 DEF After
  <2>2. ASSUME Mod(c), s.update = "none" PROVE a.model = h.model
    BY <2>1, <2>2 DEF TrustAfter, UpdatedAt
  <2>3. Mod(c) /\ s.update # "none" => \A l \in 1 .. Count(s) :
          a.model[Offsets(s)[l]] = Column(HdrOf(s, r, l), NewOf(s, r, c, m[l], l \in S, l))
    BY <2>1, Zenon DEF TrustAfter
  <2>4. ASSUME Mod(c), NEW l \in 1 .. Count(s), l \notin S, l \notin more
        PROVE  m[l] = ModelAt(s, h.model, l)
    <3>1. l # k
      BY <2>4
    <3>2. l \notin done
      BY <2>4
    <3>3. CASE l \notin done
      <4>1. m[l] = ModelAt(s, g.model, l)
        BY <2>1, <2>4, <3>3 DEF TrustAfter
      <4>2. DOMAIN h.model = DOMAIN g.model /\ Offsets(s)[l] \in DOMAIN g.model
        BY <1>1, <1>2, <2>4, PlacesIs
      <4>3. h.model[Offsets(s)[l]] = g.model[Offsets(s)[l]]
        <5>1. CASE s.update = "in_place"
          BY <2>4, <3>1, <4>2, <5>1 DEF UpdatedAt, Target
        <5>2. CASE s.update # "in_place"
          BY <2>4, <5>2 DEF UpdatedAt
        <5> QED
          BY <5>1, <5>2
      <4> QED
        BY <4>1, <4>2, <4>3, ModelAtSame
    <3> QED
      BY <3>2, <3>3
  <2>5. ASSUME NEW l \in more
        PROVE  /\ h.data[Offsets(s)[l]] = Column(HdrOf(s, r, l), Seen(c, DataOf(s, r, l)))
               /\ Mod(c) /\ s.update # "none" =>
                    Target(s, h)[Offsets(s)[l]] = a.model[Offsets(s)[l]]
    <3>1. /\ more = done \cup {k} /\ Placed(s, h.data, g.data, k, Column(HdrOf(s, r, k), v))
          /\ v = Seen(c, DataOf(s, r, k))
      BY <1>4, <2>5
    <3>2. CASE l = k
      <4>1. h.data[Offsets(s)[l]] = Column(HdrOf(s, r, l), Seen(c, DataOf(s, r, l)))
        BY <3>1, <3>2 DEF Placed
      <4>2. ASSUME Mod(c), s.update # "none"
            PROVE  Target(s, h)[Offsets(s)[k]] = a.model[Offsets(s)[k]]
        <5>1. w = NewOf(s, r, c, m[k], k \in S, k)
          BY <1>4, <4>2
        <5>2. Target(s, h)[Offsets(s)[k]] = Column(HdrOf(s, r, k), w)
          BY <4>2, Zenon DEF UpdatedAt
        <5> QED
          BY <2>3, <4>2, <5>1, <5>2, Zenon
      <4> QED
        BY <3>2, <4>1, <4>2
    <3>3. CASE l # k
      <4>1. l \in done /\ l \in 1 .. Count(s)
        BY <2>5, <3>1, <3>3
      <4>2. /\ g.data[Offsets(s)[l]] = Column(HdrOf(s, r, l), Seen(c, DataOf(s, r, l)))
            /\ Mod(c) /\ s.update # "none" =>
                 Target(s, g)[Offsets(s)[l]] = a.model[Offsets(s)[l]]
        BY <2>1, <4>1, Zenon DEF TrustAfter
      <4>3. h.data[Offsets(s)[l]] = g.data[Offsets(s)[l]]
        <5>1. Offsets(s)[l] \in DOMAIN g.data
          BY <4>1 DEF After
        <5> QED
          BY <3>1, <3>3, <4>1, <5>1 DEF Placed
      <4>4. ASSUME Mod(c), s.update # "none"
            PROVE  Target(s, h)[Offsets(s)[l]] = Target(s, g)[Offsets(s)[l]]
        <5>1. Offsets(s)[l] \in DOMAIN Target(s, g)
          <6>1. CASE s.update = "separate"
            BY <4>1, <4>4, <6>1 DEF After, Target
          <6>2. CASE s.update # "separate"
            BY <1>1, <4>1, <4>4, <6>2, PlacesIs DEF Target
          <6> QED
            BY <6>1, <6>2
        <5> QED
          BY <3>3, <4>1, <4>4, <5>1, Zenon DEF UpdatedAt
      <4> QED
        BY <4>2, <4>3, <4>4
    <3> QED
      BY <3>2, <3>3
  <2> QED
    BY <2>2, <2>3, <2>4, <2>5 DEF TrustAfter
<1> QED
  BY <1>1, <1>2, <1>3, <1>4 DEF After

\* All of the chunk is decompressed.
LEMMA AfterComplete ==
  ASSUME NEW s, NEW r, NEW c, NEW a, NEW g, NEW m, NEW S, NEW spoilt,
         After(s, r, c, a, g, m, S, 1 .. Count(s), spoilt), IsBuffer(s, g.data), Side(s, g)
  PROVE  /\ DOMAIN g.data = Places(s)
         /\ Mod(c) /\ s.update = "separate" => DOMAIN g.updated = Places(s)
<1>1. \A k \in 1 .. Count(s) :
        /\ Offsets(s)[k] \in DOMAIN g.data
        /\ Mod(c) /\ s.update = "separate" => Offsets(s)[k] \in DOMAIN g.updated
  BY Zenon DEF After
<1> QED
  BY <1>1, Filled DEF Side

\* When all are, the ground has the chunk.
LEMMA AfterDelivered ==
  ASSUME NEW s, NEW r, NEW c, NEW a, NEW g, NEW m, NEW S, NEW spoilt,
         After(s, r, c, a, g, m, S, 1 .. Count(s), spoilt), ~ spoilt, IsBuffer(s, g.data),
         Side(s, g),
         NEW b, IsLossy(s, r, c, b)
  PROVE  g.data = b
<1>1. \A k \in 1 .. Count(s) : g.data[Offsets(s)[k]] = b[Offsets(s)[k]]
  <2>1. TrustAfter(s, r, c, a, g, m, S, 1 .. Count(s))
    BY DEF After
  <2>2. \A k \in 1 .. Count(s) :
          g.data[Offsets(s)[k]] = Column(HdrOf(s, r, k), Seen(c, DataOf(s, r, k)))
    BY <2>1 DEF TrustAfter
  <2>3. \A k \in 1 .. Count(s) :
          b[Offsets(s)[k]] = Column(HdrOf(s, r, k), Seen(c, DataOf(s, r, k)))
    BY DEF IsLossy
  <2> QED
    BY <2>2, <2>3
<1>2. DOMAIN g.data = Places(s)
  BY AfterComplete, Zenon
<1> QED
  BY <1>1, <1>2, BuffersEqual, Zenon DEF IsLossy

\* The ground's memory when an entity is done, and both sides are ready for the next.
NextGround(s, g, dc) == [NextModelOf(s, g, dc, g.data) EXCEPT !.data = NoBuffer]
Ready(s, a, h, spoilt) ==
  /\ DOMAIN a.model = DOMAIN h.model /\ Side(s, h) /\ IsGround(h)
  /\ IsBuffer(s, h.data) /\ (~ spoilt => a.model = h.model)

\* When all are, the two models agree for the next chunk.
LEMMA AfterFinished ==
  ASSUME NEW s \in Settings, NEW r, NEW c, NEW a, NEW g, NEW m, NEW S, NEW spoilt,
         After(s, r, c, a, g, m, S, 1 .. Count(s), spoilt), Side(s, a), Side(s, g), IsGround(g),
         IsBuffer(s, g.data), NEW dc, dc.cmp_mode = c.cmp_mode
  PROVE  Ready(s, a, NextGround(s, g, dc), spoilt)
<1>0. PICK h : h = [NextModelOf(s, g, dc, g.data) EXCEPT !.data = NoBuffer]
  OBVIOUS
<1>1. Mod(dc) <=> Mod(c)
  BY DEF Mod
<1>2. /\ DOMAIN g.data = Places(s)
      /\ Mod(c) /\ s.update = "separate" => DOMAIN g.updated = Places(s)
  BY AfterComplete
<1>3. /\ h.updated = g.updated /\ h.data = NoBuffer /\ IsGround(h)
      /\ h.model = IF ~ Mod(c) THEN g.data ELSE IF s.update = "separate" THEN g.updated ELSE g.model
  BY <1>0, <1>1 DEF NextModelOf, IsGround
<1>4. IsBuffer(s, h.data)
  BY <1>3, NoBufferIs
<1>5. ASSUME ~ Mod(c) PROVE Ready(s, a, h, spoilt)
  <2>1. /\ ~ spoilt /\ IsBuffer(s, a.model) /\ DOMAIN a.model = Places(s)
        /\ IsLossy(s, r, c, a.model)
    BY <1>5 DEF After, IsLossy
  <2>2. g.data = a.model
    BY <2>1, AfterDelivered
  <2> QED
    BY <1>3, <1>4, <1>5, <2>1, <2>2 DEF Side, Ready
<1>6. ASSUME Mod(c) PROVE Ready(s, a, h, spoilt)
  <2>1. h.model = Target(s, g)
    BY <1>3, <1>6 DEF Target
  <2>2. DOMAIN a.model = Places(s) /\ DOMAIN h.model = Places(s) /\ IsBuffer(s, h.model)
    BY <1>2, <1>3, <1>6 DEF After, Side
  <2>3. Side(s, h)
    BY <1>3, <2>2 DEF Side
  <2>4. ASSUME ~ spoilt PROVE a.model = h.model
    <3>1. TrustAfter(s, r, c, a, g, m, S, 1 .. Count(s))
      BY <2>4 DEF After
    <3>2. CASE s.update = "none"
      BY <1>3, <1>6, <3>1, <3>2 DEF TrustAfter
    <3>3. CASE s.update # "none"
      <4>1. \A k \in 1 .. Count(s) : Target(s, g)[Offsets(s)[k]] = a.model[Offsets(s)[k]]
        BY <1>6, <3>1, <3>3, Zenon DEF TrustAfter
      <4> QED
        BY <2>1, <2>2, <4>1, BuffersEqual DEF Side
    <3> QED
      BY <3>2, <3>3
  <2> QED
    BY <1>3, <1>4, <2>2, <2>3, <2>4 DEF Ready
<1>7. Ready(s, a, h, spoilt)
  BY <1>5, <1>6
<1> QED
  BY <1>0, <1>7, Zenon DEF NextGround

\* The compression fails: only a model that is its own updated model may differ.
LEMMA BeforeEnds ==
  ASSUME NEW s \in Settings, NEW r, NEW c, NEW a, NEW g, NEW m, NEW S, NEW d \in Nat, NEW spoilt,
         Before(s, r, c, a, g, m, S, d, spoilt), Side(s, a), Side(s, g), ~ spoilt,
         d = 0 \/ s.update # "in_place" \/ ~ Mod(c)
  PROVE  a.model = g.model
<1>1. TrustBefore(s, r, c, a, g, m, S, d) /\ DOMAIN a.model = DOMAIN g.model
  BY DEF Before
<1>2. CASE s.update = "in_place" /\ Mod(c)
  <2>1. \A k \in 1 .. Count(s) :
          Offsets(s)[k] \in DOMAIN a.model => a.model[Offsets(s)[k]] = g.model[Offsets(s)[k]]
    BY <1>1, <1>2 DEF TrustBefore
  <2> QED
    BY <1>1, <2>1, BuffersEqual DEF Side
<1>3. CASE ~ (s.update = "in_place" /\ Mod(c))
  BY <1>1, <1>3 DEF TrustBefore
<1> QED
  BY <1>2, <1>3

-----------------------------------------------------------------------------
(* The entity while it is built and after *)

FieldOf(c) == IF IsRaw(c) THEN 0 ELSE CMP_COLLECTION_FILD_SIZE
HeadOf(c) == IF IsRaw(c) THEN GENERIC_HEADER_SIZE ELSE NON_IMAGETTE_HEADER_SIZE

\* The sizes of the headers and of the size field.
LEMMA SizesAre ==
  /\ COLLECTION_HDR_SIZE = 12 /\ \A c : FieldOf(c) \in {0, 2}
  /\ SizeField = FieldOf(cfg) /\ HeaderSize = HeadOf(cfg) /\ \A c : HeadOf(c) \in Nat
BY DEF COLLECTION_HDR_SIZE, CMP_COLLECTION_FILD_SIZE, FieldOf, SizeField, HeaderSize, HeadOf,
       raw_mode, IsRaw, GENERIC_HEADER_SIZE, NON_IMAGETTE_HEADER_SIZE

\* What the ground needs of collection k: the samples, or the code words of them
\* and a model y.
Content(s, r, c, y, stored, k, x) ==
  IF stored THEN x.data = DataOf(s, r, k)
  ELSE x.words = Encode(c, TypeOf(s, k), DataOf(s, r, k), y)

PieceOk(s, r, c, y, stored, k, x) ==
  /\ x.hdr = HdrOf(s, r, k) /\ x.size \in 0 .. LengthOf(s, k)
  /\ stored <=> x.size = LengthOf(s, k)
  /\ Content(s, r, c, y, stored, k, x)

\* d collections are coded, with models m; those in S are stored as they are.
Coding(s, c, m, S, d) ==
  /\ d \in 0 .. Count(s) /\ S \subseteq 1 .. d
  /\ \A k \in 1 .. d : m[k] \in SamplesOf(s, k) /\ SpecificValid(c, TypeOf(s, k))
  /\ d > 0 => GenericValid(c)
  /\ IsRaw(c) => 1 .. d \subseteq S
  /\ ~ s.rdcu => c.round = 0

\* They are in the entity, at places q.
BodyOk(s, r, c, b, m, S, d, q) ==
  /\ q[1] = 0 /\ \A k \in 1 .. d + 1 : q[k] \in Nat
  /\ DOMAIN b = {q[k] : k \in 1 .. d}
  /\ \A k \in 1 .. d :
       /\ PieceOk(s, r, c, m[k], k \in S, k, b[q[k]])
       /\ q[k + 1] = q[k] + FieldOf(c) + COLLECTION_HDR_SIZE + b[q[k]].size
  /\ \A k \in 1 .. d, l \in 1 .. d + 1 :
       k < l => q[k] + FieldOf(c) + COLLECTION_HDR_SIZE <= q[l]
  /\ IsRaw(c) => \A k \in 1 .. d + 1 : q[k] = Offsets(s)[k]

\* No collection is coded.
LEMMA CodingFirst ==
  ASSUME NEW s \in Settings, NEW c, ~ s.rdcu => c.round = 0, NEW m
  PROVE  Coding(s, c, m, {}, 0)
BY Layout DEF Coding

\* No collection is in the entity.
LEMMA BodyFirst ==
  ASSUME NEW s \in Settings, NEW r, NEW c, NEW m, NEW q, q[1] = 0
  PROVE  BodyOk(s, r, c, NoBuffer, m, {}, 0, q)
<1>1. Offsets(s)[1] = 0
  BY OffsetsExist DEF IsOffsets
<1>2. DOMAIN NoBuffer = {}
  BY NoBufferIs
<1> QED
  BY <1>1, <1>2 DEF BodyOk

\* One more collection is coded.
LEMMA CodingGrows ==
  ASSUME NEW s \in Settings, NEW c, NEW m, NEW S, NEW d, Coding(s, c, m, S, d),
         d + 1 \in 1 .. Count(s), NEW x \in SamplesOf(s, d + 1), NEW stored \in BOOLEAN,
         GenericValid(c), SpecificValid(c, TypeOf(s, d + 1)), IsRaw(c) => stored
  PROVE  Coding(s, c, Longer(m, d, x), Marked(S, d, stored), d + 1)
<1>1. PICK n, T : n = Longer(m, d, x) /\ T = Marked(S, d, stored)
  OBVIOUS
<1>2. d \in Nat /\ S \subseteq 1 .. d /\ Count(s) \in Nat
  BY Layout DEF Coding
<1>3. /\ n[d + 1] = x /\ (d + 1 \in T <=> stored) /\ T \subseteq 1 .. d + 1
      /\ \A k \in 1 .. d : k # d + 1 /\ n[k] = m[k] /\ (k \in T <=> k \in S)
      /\ \A k \in 1 .. d + 1 : k \in 1 .. d \/ k = d + 1
  <2>1. Lengthened(n, T, m, S, d, x, stored)
    BY <1>1, <1>2, LongerIs, Zenon
  <2> QED
    BY <2>1 DEF Lengthened
<1>4. \A k \in 1 .. d + 1 : n[k] \in SamplesOf(s, k) /\ SpecificValid(c, TypeOf(s, k))
  <2>1. \A k \in 1 .. d : m[k] \in SamplesOf(s, k) /\ SpecificValid(c, TypeOf(s, k))
    BY Zenon DEF Coding
  <2> QED
    BY <1>3, <2>1
<1>5. IsRaw(c) => 1 .. d + 1 \subseteq T
  BY <1>2, <1>3 DEF Coding
<1>6. Coding(s, c, n, T, d + 1)
  BY <1>2, <1>3, <1>4, <1>5 DEF Coding
<1> QED
  BY <1>1, <1>6

\* One more collection is in the entity, behind the others.
LEMMA BodyGrows ==
  ASSUME NEW s \in Settings, ~ s.rdcu, NEW r, NEW c, NEW b, NEW m, NEW S, NEW d \in Nat, NEW q,
         BodyOk(s, r, c, b, m, S, d, q), S \subseteq 1 .. d, d + 1 \in 1 .. Count(s),
         NEW x, NEW stored \in BOOLEAN, NEW col, PieceOk(s, r, c, x, stored, d + 1, col),
         IsRaw(c) => stored, NEW size,
         size = q[d + 1] + FieldOf(c) + COLLECTION_HDR_SIZE + col.size
  PROVE  BodyOk(s, r, c, With(b, q[d + 1], col), Longer(m, d, x), Marked(S, d, stored), d + 1,
                Longer(q, d + 1, size))
<1>1. PICK n, T : n = Longer(m, d, x) /\ T = Marked(S, d, stored)
  OBVIOUS
<1>2. PICK p, e : p = Longer(q, d + 1, size) /\ e = With(b, q[d + 1], col)
  OBVIOUS
<1>3. /\ n[d + 1] = x /\ (d + 1 \in T <=> stored)
      /\ \A k \in 1 .. d : n[k] = m[k] /\ (k \in T <=> k \in S)
  <2>1. Lengthened(n, T, m, S, d, x, stored)
    BY <1>1, LongerIs, Zenon
  <2> QED
    BY <2>1 DEF Lengthened
<1>4. /\ p[d + 2] = size /\ \A k \in 1 .. d + 1 : p[k] = q[k]
  BY <1>2 DEF Longer
<1>5. /\ \A k \in 1 .. d + 1 : k \in 1 .. d \/ k = d + 1
      /\ \A k \in 1 .. d + 2 : k \in 1 .. d + 1 \/ k = d + 2
      /\ \A k \in 1 .. d : k \in 1 .. d + 1 /\ k + 1 \in 1 .. d + 1
      /\ d + 1 \in 1 .. d + 1 /\ 1 \in 1 .. d + 1
  OBVIOUS
<1>6. /\ \A k \in 1 .. d + 1 : q[k] \in Nat
      /\ \A k \in 1 .. d : q[k] + FieldOf(c) + 12 <= q[d + 1]
      /\ FieldOf(c) \in {0, 2} /\ COLLECTION_HDR_SIZE = 12 /\ DOMAIN b = {q[k] : k \in 1 .. d}
      /\ q[1] = 0
  <2>1. \A k \in 1 .. d : k < d + 1
    OBVIOUS
  <2> QED
    BY <1>5, <2>1, SizesAre DEF BodyOk
<1>7. col.size \in Nat /\ size \in Nat /\ LengthOf(s, d + 1) \in Nat
  BY <1>5, <1>6, Layout DEF PieceOk
<1>8. \A k \in 1 .. d + 2 : p[k] \in Nat
  BY <1>4, <1>5, <1>6, <1>7
<1>9. p[1] = 0
  BY <1>4, <1>5, <1>6
<1>10. DOMAIN e = {p[k] : k \in 1 .. d + 1}
  <2>1. DOMAIN e = DOMAIN b \cup {q[d + 1]}
    BY <1>2 DEF With
  <2>2. DOMAIN b \cup {q[d + 1]} = {q[k] : k \in 1 .. d + 1}
    BY <1>5, <1>6
  <2> QED
    BY <1>4, <2>1, <2>2
<1>11. e[q[d + 1]] = col /\ \A k \in 1 .. d : e[q[k]] = b[q[k]]
  <2>1. \A k \in 1 .. d : q[k] # q[d + 1] /\ q[k] \in DOMAIN b
    BY <1>5, <1>6
  <2> QED
    BY <1>2, <2>1 DEF With
<1>12. ASSUME NEW k \in 1 .. d + 1
       PROVE  /\ PieceOk(s, r, c, n[k], k \in T, k, e[p[k]])
              /\ p[k + 1] = p[k] + FieldOf(c) + COLLECTION_HDR_SIZE + e[p[k]].size
  <2>1. CASE k = d + 1
    <3>1. p[k] = q[d + 1] /\ p[k + 1] = size /\ e[p[k]] = col
      BY <1>4, <1>5, <1>11, <2>1
    <3>2. PieceOk(s, r, c, n[k], k \in T, k, col)
      BY <1>3, <2>1 DEF PieceOk, Content
    <3> QED
      BY <3>1, <3>2
  <2>2. CASE k \in 1 .. d
    <3>1. p[k] = q[k] /\ p[k + 1] = q[k + 1] /\ e[p[k]] = b[q[k]]
      BY <1>4, <1>5, <1>11, <2>2
    <3>2. /\ PieceOk(s, r, c, m[k], k \in S, k, b[q[k]])
          /\ q[k + 1] = q[k] + FieldOf(c) + COLLECTION_HDR_SIZE + b[q[k]].size
      BY <2>2, Zenon DEF BodyOk
    <3>3. PieceOk(s, r, c, n[k], k \in T, k, b[q[k]])
      BY <1>3, <2>2, <3>2 DEF PieceOk, Content
    <3> QED
      BY <3>1, <3>2, <3>3
  <2> QED
    BY <1>5, <2>1, <2>2
<1>13. ASSUME NEW k \in 1 .. d + 1, NEW l \in 1 .. d + 2, k < l
       PROVE  p[k] + FieldOf(c) + COLLECTION_HDR_SIZE <= p[l]
  <2>1. CASE l = d + 2
    <3>1. p[k] <= q[d + 1]
      BY <1>4, <1>5, <1>6
    <3>2. p[k] \in Nat /\ q[d + 1] \in Nat
      BY <1>4, <1>5, <1>6
    <3> QED
      BY <1>4, <1>6, <1>7, <2>1, <3>1, <3>2
  <2>2. CASE l \in 1 .. d + 1
    <3>1. k \in 1 .. d
      BY <1>13, <2>2
    <3>2. q[k] + FieldOf(c) + COLLECTION_HDR_SIZE <= q[l]
      BY <1>13, <2>2, <3>1 DEF BodyOk
    <3> QED
      BY <1>4, <1>5, <2>2, <3>1, <3>2
  <2> QED
    BY <1>5, <2>1, <2>2
<1>14. ASSUME IsRaw(c) PROVE \A k \in 1 .. d + 2 : p[k] = Offsets(s)[k]
  <2>1. \A k \in 1 .. d + 1 : q[k] = Offsets(s)[k]
    BY <1>14 DEF BodyOk
  <2>2. FieldOf(c) = 0 /\ col.size = LengthOf(s, d + 1) /\ HeaderOf(s) = COLLECTION_HDR_SIZE
    BY <1>14 DEF FieldOf, PieceOk, HeaderOf
  <2>3. Offsets(s)[(d + 1) + 1] = Offsets(s)[d + 1] + HeaderOf(s) + LengthOf(s, d + 1)
    BY OffsetsExist DEF IsOffsets
  <2>4. Offsets(s)[d + 2] = size
    BY <1>5, <1>6, <1>7, <2>1, <2>2, <2>3
  <2> QED
    BY <1>4, <1>5, <2>1, <2>4
<1>15. (d + 1) + 1 = d + 2
  OBVIOUS
<1>16. BodyOk(s, r, c, e, n, T, d + 1, p)
  BY <1>8, <1>9, <1>10, <1>12, <1>13, <1>14, <1>15, Zenon DEF BodyOk
<1> QED
  BY <1>1, <1>2, <1>16

-----------------------------------------------------------------------------
(* The invariant of the link *)

\* The configuration of the decompressor.
DecoderCfg(s, c, dc) ==
  /\ dc.cmp_mode = c.cmp_mode /\ dc.round = c.round
  /\ Mod(c) => dc.model_value = c.model_value
  /\ ~ IsRaw(c) => \A k \in 1 .. Count(s) : Alike(c, dc, TypeOf(s, k))

\* The bitstream of an RDCU input.
StreamOk(s, r, c, inf, e, m, S) ==
  /\ Content(s, r, c, m[1], 1 \in S, 1, inf) /\ (1 \in S <=> IsRaw(c))
  /\ IsRaw(c) => inf.cmp_size = 8 * SizeOf(s)
  /\ inf.cmp_err = 0
  /\ e # NoEntity => e.body[0].words = inf.words /\ e.body[0].data = inf.data

\* How far the entity is.
Stage(s, r, p, c, size, bytes, inf, e, m, S, d, q) ==
  /\ Coding(s, c, m, S, d)
  /\ IF p = "collections" THEN bytes = Offsets(s)[d + 1] ELSE d = Count(s)
  /\ IF s.rdcu THEN StreamOk(s, r, c, inf, e, m, S)
     ELSE /\ BodyOk(s, r, c, e.body, m, S, d, q) /\ size = HeadOf(c) + q[d + 1]
          /\ p # "collections" => e # NoEntity

\* The collections the ground has.
DoneOf(s, p, null, x) ==
  IF p = "decompressed" THEN 1 .. Count(s) ELSE IF null THEN {} ELSE 1 .. x

Trust(s, r, p, a, g, c, null, x, spoilt, m, S, d) ==
  IF p \in Received THEN After(s, r, c, a, g, m, S, DoneOf(s, p, null, x), spoilt)
  ELSE Before(s, r, c, a, g, m, S, d, spoilt)

Going(s, r, p, a, g, c, size, bytes, inf, e, null, x, spoilt) ==
  \E m, S, d, q : /\ Stage(s, r, p, c, size, bytes, inf, e, m, S, d, q)
                  /\ Trust(s, r, p, a, g, c, null, x, spoilt, m, S, d)

\* Where the decompressor is.
Flow(s, p, c, e, dc, null, x) ==
  /\ p # "rejected" /\ x \in 0 .. Count(s)
  /\ p = "chunk" => ~ s.rdcu /\ ~ IsRaw(c)
  /\ p = "raw chunk" => ~ s.rdcu /\ IsRaw(c) /\ x = 0
  /\ p = "rdcu" => s.rdcu /\ e # NoEntity /\ x = 0
  /\ p = "rdcu data" => s.rdcu /\ x = 0
  /\ IF p = "received" THEN null \/ x = 0 ELSE DecoderCfg(s, c, dc)

Sides(s, a, g) ==
  IsIcu(a) /\ IsGround(g) /\ Side(s, a) /\ Side(s, g) /\ IsBuffer(s, g.data)
IdleOk(a, g, spoilt) == DOMAIN a.model = DOMAIN g.model /\ (~ spoilt => a.model = g.model)

SidesInv == Sides(setting, icu, ground) /\ spoiled \in BOOLEAN /\ null_dst \in BOOLEAN
IdleInv == pc = "idle" => IdleOk(icu, ground, spoiled)
GoingInv ==
  pc # "idle" => Going(setting, reading, pc, icu, ground, cfg, dst_size, read_bytes, info, ent,
                       null_dst, i, spoiled)
FlowInv ==
  IF pc \in Received THEN Flow(setting, pc, cfg, ent, dcfg, null_dst, i) ELSE i = 0

LinkInv == SidesInv /\ IdleInv /\ GoingInv /\ FlowInv

\* The invariant implies what the two theorems say.
LEMMA LinkInvGives ==
  ASSUME LinkInv PROVE Accepted /\ ModelsAgree
BY Zenon DEF LinkInv, FlowInv, Flow, IdleInv, IdleOk, Received, Accepted, ModelsAgree

\* The invariant holds when the program starts.
LEMMA InitLink ==
  ASSUME Init PROVE LinkInv
<1>1. setting \in Settings
  BY DEF Init
<1>2. /\ icu = [model |-> NoBuffer, updated |-> NoBuffer] /\ pc = "idle" /\ spoiled = FALSE
      /\ ground = [model |-> NoBuffer, updated |-> NoBuffer, data |-> NoBuffer]
      /\ i = 0 /\ null_dst = FALSE
  BY DEF Init
<1>3. IsBuffer(setting, NoBuffer) /\ DOMAIN NoBuffer = {}
  BY NoBufferIs
<1>4. SidesInv
  BY <1>2, <1>3 DEF SidesInv, Sides, Side, IsIcu, IsGround
<1>5. IdleInv /\ GoingInv /\ FlowInv
  BY <1>2 DEF IdleInv, IdleOk, GoingInv, FlowInv, Received
<1> QED
  BY <1>4, <1>5 DEF LinkInv

\* What a step finds.
LEMMA GoingIs ==
  ASSUME LinkInv, pc # "idle"
  PROVE  \E m, S, d, q :
           /\ Stage(setting, reading, pc, cfg, dst_size, read_bytes, info, ent, m, S, d, q)
           /\ Trust(setting, reading, pc, icu, ground, cfg, null_dst, i, spoiled, m, S, d)
BY Zenon DEF LinkInv, GoingInv, Going

\* After an error the caller is idle.
LEMMA IdleKeeps ==
  ASSUME LinkInv, pc \notin Received, pc' = "idle", UNCHANGED <<setting, ground, i, null_dst>>,
         spoiled' \in BOOLEAN, IsIcu(icu'), Side(setting, icu'), IdleOk(icu', ground, spoiled')
  PROVE  LinkInv'
<1>1. SidesInv'
  BY DEF LinkInv, SidesInv, Sides
<1>2. IdleInv' /\ GoingInv'
  BY DEF IdleInv, GoingInv
<1>3. FlowInv'
  BY DEF LinkInv, FlowInv, Received
<1> QED
  BY <1>1, <1>2, <1>3 DEF LinkInv

\* A compression that fails keeps the invariant; the history notes a spoiled model.
LEMMA FailsKeeps ==
  ASSUME SenderInv, LinkInv, pc = "collections", NEW touched \in BOOLEAN, Fails(cfg, touched),
         read_bytes > 0 => touched, IsIcu(icu'), Side(setting, icu'),
         DOMAIN icu'.model = DOMAIN icu.model,
         ~ (touched /\ setting.update = "in_place" /\ Mod(cfg)) => icu'.model = icu.model
  PROVE  LinkInv'
<1>1. /\ pc' = "idle" /\ UNCHANGED <<setting, ground, i, null_dst>>
      /\ spoiled' = (spoiled \/ (touched /\ setting.update = "in_place" /\ Mod(cfg)))
  BY DEF Fails, caller, receiver, Mod
<1>2. pc \notin Received /\ spoiled \in BOOLEAN
  BY DEF Received, LinkInv, SidesInv
<1>3. PICK m, S, d, q :
        /\ Stage(setting, reading, pc, cfg, dst_size, read_bytes, info, ent, m, S, d, q)
        /\ Before(setting, reading, cfg, icu, ground, m, S, d, spoiled)
  <2>1. PICK m, S, d, q :
          /\ Stage(setting, reading, pc, cfg, dst_size, read_bytes, info, ent, m, S, d, q)
          /\ Trust(setting, reading, pc, icu, ground, cfg, null_dst, i, spoiled, m, S, d)
    BY GoingIs
  <2> QED
    BY <1>2, <2>1 DEF Trust
<1>4. /\ setting \in Settings /\ Side(setting, icu) /\ Side(setting, ground)
      /\ DOMAIN icu.model = DOMAIN ground.model /\ ~ setting.rdcu
  BY <1>3, SettingChunk DEF SenderInv, LinkInv, SidesInv, Sides, Before, PhaseInv, PhaseOk
<1>5. d \in 0 .. Count(setting) /\ read_bytes = Offsets(setting)[d + 1]
  BY <1>3 DEF Stage, Coding
<1>6. d \in Nat /\ (d > 0 => read_bytes > 0)
  <2>1. ASSUME d > 0 PROVE read_bytes > 0
    <3>1. 1 \in 1 .. Count(setting) /\ d + 1 \in 1 + 1 .. Count(setting) + 1 /\ Count(setting) \in Nat
      BY <1>4, <1>5, <2>1, Layout
    <3>2. /\ Offsets(setting)[1] \in Nat /\ Offsets(setting)[d + 1] \in Nat
          /\ Offsets(setting)[1] + HeaderOf(setting) + LengthOf(setting, 1) <= Offsets(setting)[d + 1]
      BY <1>4, <3>1, OffsetsGrow
    <3>3. LengthOf(setting, 1) \in Nat
      BY <1>4, <3>1, Layout
    <3>4. HeaderOf(setting) = 12
      BY <1>4, SizesAre DEF HeaderOf
    <3> QED
      BY <1>5, <3>2, <3>3, <3>4
  <2> QED
    BY <1>5, <2>1
<1>7. ASSUME ~ spoiled' PROVE icu'.model = ground.model
  <2>1. ~ spoiled /\ ~ (touched /\ setting.update = "in_place" /\ Mod(cfg))
    BY <1>1, <1>7
  <2>2. d = 0 \/ setting.update # "in_place" \/ ~ Mod(cfg)
    BY <1>6, <2>1
  <2>3. icu.model = ground.model
    BY <1>3, <1>4, <1>6, <2>1, <2>2, BeforeEnds
  <2> QED
    BY <2>1, <2>3
<1> QED
  BY <1>1, <1>2, <1>4, <1>7, IdleKeeps DEF IdleOk

\* compress_chunk() is at the collection behind those it has coded.
LEMMA AtNext ==
  ASSUME SenderInv, AtCollection, NEW d \in 0 .. Count(setting),
         read_bytes = Offsets(setting)[d + 1]
  PROVE  /\ d + 1 \in 1 .. Count(setting) /\ ~ setting.rdcu
         /\ Col.hdr = HdrOf(setting, reading, d + 1) /\ Col.hdr.len = LengthOf(setting, d + 1)
         /\ Col.data = DataOf(setting, reading, d + 1) /\ DataType = TypeOf(setting, d + 1)
         /\ Offsets(setting)[(d + 1) + 1] = read_bytes + COLLECTION_HDR_SIZE + Col.hdr.len
         /\ Model = ModelAt(setting, icu.model, d + 1)
<1>1. PICK k \in 1 .. Count(setting) :
        /\ read_bytes = Offsets(setting)[k]
        /\ Col.hdr = HdrOf(setting, reading, k) /\ Col.hdr.len = LengthOf(setting, k)
        /\ Col.data = DataOf(setting, reading, k) /\ DataType = TypeOf(setting, k)
        /\ Offsets(setting)[k + 1] = read_bytes + COLLECTION_HDR_SIZE + Col.hdr.len
  BY CollectionIs
<1>2. /\ setting \in Settings /\ ~ setting.rdcu
  BY SettingChunk DEF SenderInv, PhaseInv, PhaseOk, AtCollection
<1>3. Count(setting) \in Nat
  BY <1>2, Layout
<1>4. d # Count(setting)
  <2>1. SUFFICES ASSUME d = Count(setting) PROVE FALSE
    OBVIOUS
  <2>2. Count(setting) + 1 \in k + 1 .. Count(setting) + 1
    BY <1>1, <1>3
  <2>3. /\ Offsets(setting)[k] \in Nat /\ Offsets(setting)[Count(setting) + 1] \in Nat
        /\ Offsets(setting)[k] + HeaderOf(setting) + LengthOf(setting, k)
             <= Offsets(setting)[Count(setting) + 1]
    BY <1>1, <1>2, <2>2, OffsetsGrow
  <2>4. HeaderOf(setting) = 12 /\ LengthOf(setting, k) \in Nat
    BY <1>1, <1>2, SizesAre, Layout DEF HeaderOf
  <2>5. Offsets(setting)[k] = Offsets(setting)[Count(setting) + 1]
    BY <1>1, <2>1
  <2> QED
    BY <2>3, <2>4, <2>5
<1>5. d + 1 \in 1 .. Count(setting)
  BY <1>3, <1>4
<1>6. k = d + 1
  BY <1>1, <1>2, <1>5, OffsetsDiffer
<1>7. Len(Col.data) = setting.layout[k].n
  <2>1. setting.layout[k].n \in Nat
    BY <1>1, <1>2, Layout
  <2> QED
    BY <1>1, <2>1 DEF DataOf
<1>8. Model = ModelAt(setting, icu.model, k)
  BY <1>1, <1>7 DEF Model, ModelAt
<1> QED
  BY <1>1, <1>2, <1>5, <1>6, <1>8

\* In model mode there is a model of all collections.
LEMMA ModelThere ==
  ASSUME NEW s \in Settings, NEW c, NEW x, Side(s, x), HasModel(c, x), Mod(c)
  PROVE  DOMAIN x.model = Places(s)
BY EmptyBuffer DEF Side, HasModel, Mod

\* The bounds a valid configuration keeps.
LEMMA ModePossible ==
  ASSUME Cfg(cfg), GenericValid(cfg)
  PROVE  cfg.round \in 0 .. 3 /\ cfg.model_value \in Nat
BY DEF Cfg, GenericValid, MAX_ICU_ROUND

\* A collection is coded or stored.
LEMMA FinishLink ==
  ASSUME SenderInv, LinkInv, AtCollection, NEW words, NEW data, NEW size,
         Finish(words, data, size), size \in 0 .. Col.hdr.len,
         GenericValid(cfg), SpecificValid(cfg, DataType), HasModel(cfg, icu),
         NEW stored \in BOOLEAN, stored <=> size = Col.hdr.len, IsRaw(cfg) => stored,
         IF stored THEN data = Col.data ELSE words = Encode(cfg, DataType, Col.data, Model),
         NEW new, new = IF stored THEN Col.data ELSE UpModels(cfg, Col.data, Model),
         UpdateModel(new)
  PROVE  LinkInv'
<1>1. PICK m, S, d, q :
        /\ Stage(setting, reading, pc, cfg, dst_size, read_bytes, info, ent, m, S, d, q)
        /\ Trust(setting, reading, pc, icu, ground, cfg, null_dst, i, spoiled, m, S, d)
  BY GoingIs DEF AtCollection
<1>2. PICK s, c, o, x : s = setting /\ c = cfg /\ o = read_bytes /\ x = Model
  OBVIOUS
<1>3. /\ s \in Settings /\ ~ s.rdcu /\ reading \in 1 .. MaxEntities + 1
  BY <1>2, SettingChunk DEF SenderInv, PhaseInv, PhaseOk, AtCollection
<1>4. /\ Coding(s, c, m, S, d) /\ o = Offsets(s)[d + 1]
      /\ BodyOk(s, reading, c, ent.body, m, S, d, q) /\ dst_size = HeadOf(c) + q[d + 1]
      /\ Before(s, reading, c, icu, ground, m, S, d, spoiled) /\ pc = "collections"
  BY <1>1, <1>2, <1>3 DEF Stage, Trust, AtCollection, Received
<1>5. d \in 0 .. Count(s) /\ d \in Nat /\ S \subseteq 1 .. d
  BY <1>3, <1>4 DEF Coding
<1>6. /\ d + 1 \in 1 .. Count(s)
      /\ Col.hdr = HdrOf(s, reading, d + 1) /\ Col.hdr.len = LengthOf(s, d + 1)
      /\ Col.data = DataOf(s, reading, d + 1) /\ DataType = TypeOf(s, d + 1)
      /\ Offsets(s)[(d + 1) + 1] = o + COLLECTION_HDR_SIZE + Col.hdr.len
      /\ x = ModelAt(s, icu.model, d + 1)
  BY <1>2, <1>4, <1>5, AtNext
<1>7. /\ IsIcu(icu) /\ IsGround(ground) /\ Side(s, icu) /\ Side(s, ground)
      /\ IsBuffer(s, ground.data) /\ IsBuffer(s, icu.model)
      /\ spoiled \in BOOLEAN /\ null_dst \in BOOLEAN
  BY <1>2 DEF LinkInv, SidesInv, Sides, Side
<1>8. /\ TypeOf(s, d + 1) \in Types /\ s.layout[d + 1].n \in Nat
      /\ DataOf(s, reading, d + 1) \in SamplesOf(s, d + 1) /\ x \in SamplesOf(s, d + 1)
  BY <1>3, <1>6, <1>7, Layout, DataTyped, ModelAtIs
<1>9. c.round \in 0 .. 3 /\ c.model_value \in Nat
  BY <1>2, ModePossible DEF SenderInv, TypeInv
<1>10. new = NewOf(s, reading, c, x, stored, d + 1) /\ new \in SamplesOf(s, d + 1)
  <2>1. new = NewOf(s, reading, c, x, stored, d + 1)
    BY <1>2, <1>6 DEF NewOf
  <2>2. UpModels(c, DataOf(s, reading, d + 1), x) \in SamplesOf(s, d + 1)
    BY <1>8, <1>9, UpModelsTypes DEF SamplesOf
  <2> QED
    BY <1>8, <2>1, <2>2 DEF NewOf
<1>11. Mod(c) => DOMAIN icu.model = Places(s)
  BY <1>2, <1>3, <1>7, ModelThere
<1>12. PICK col : col = [size |-> size, hdr |-> Col.hdr, words |-> words, data |-> data]
  OBVIOUS
<1>13. PieceOk(s, reading, c, x, stored, d + 1, col)
  <2>1. col.hdr = HdrOf(s, reading, d + 1) /\ col.size = size
    BY <1>6, <1>12
  <2>2. Content(s, reading, c, x, stored, d + 1, col)
    BY <1>2, <1>6, <1>12 DEF Content
  <2> QED
    BY <1>6, <2>1, <2>2 DEF PieceOk
<1>14. /\ ent' = [ent EXCEPT !.body = With(ent.body, q[d + 1], col)]
       /\ dst_size' = dst_size + FieldOf(c) + COLLECTION_HDR_SIZE + size
       /\ read_bytes' = Offsets(s)[(d + 1) + 1]
       /\ UNCHANGED <<setting, reading, chunk, pc, cfg, stamp, info, ground, dcfg, i, null_dst,
                      asked, spoiled, failures>>
  <2>1. q[d + 1] \in Nat /\ HeadOf(c) \in Nat
    BY <1>4, <1>5, SizesAre DEF BodyOk
  <2>2. dst_size - HeaderSize = q[d + 1]
    BY <1>2, <1>4, <2>1, SizesAre
  <2> QED
    BY <1>2, <1>6, <1>12, <2>2, SizesAre DEF Finish, caller, receiver, history
<1>15. ent'.body = With(ent.body, q[d + 1], col)
  <2>1. ent = [h |-> ent.h, body |-> ent.body]
    BY DEF SenderInv, TypeInv, IsEntity
  <2> QED
    BY <1>14, <2>1
<1>16. PICK n, T, p, sum :
         /\ n = Longer(m, d, x) /\ T = Marked(S, d, stored)
         /\ sum = q[d + 1] + FieldOf(c) + COLLECTION_HDR_SIZE + col.size
         /\ p = Longer(q, d + 1, sum)
  OBVIOUS
<1>17. Coding(s, c, n, T, d + 1)
  BY <1>2, <1>3, <1>4, <1>6, <1>8, <1>16, CodingGrows
<1>18. BodyOk(s, reading, c, ent'.body, n, T, d + 1, p)
  <2>1. IsRaw(c) => stored
    BY <1>2
  <2> QED
    <3>1. BodyOk(s, reading, c, With(ent.body, q[d + 1], col), Longer(m, d, x),
                 Marked(S, d, stored), d + 1, Longer(q, d + 1, sum))
      BY <1>3, <1>4, <1>5, <1>6, <1>13, <1>16, <2>1, BodyGrows
    <3> QED
      BY <1>15, <1>16, <3>1
<1>19. dst_size' = HeadOf(c) + p[(d + 1) + 1]
  <2>1. p[(d + 1) + 1] = sum
    BY <1>5, <1>16 DEF Longer
  <2>2. q[d + 1] \in Nat /\ HeadOf(c) \in Nat /\ FieldOf(c) \in Nat /\ col.size \in Nat
    <3>1. FieldOf(c) \in Nat /\ HeadOf(c) \in Nat
      BY SizesAre
    <3>2. col.size \in Nat
      BY <1>13, <1>3, <1>6, Layout DEF PieceOk
    <3> QED
      BY <1>4, <1>5, <3>1, <3>2 DEF BodyOk
  <2>3. col.size = size /\ COLLECTION_HDR_SIZE = 12
    BY <1>12, SizesAre
  <2> QED
    BY <1>4, <1>14, <1>16, <2>1, <2>2, <2>3
<1>20. PICK u : u = Column(HdrOf(s, reading, d + 1), NewOf(s, reading, c, x, stored, d + 1))
  OBVIOUS
<1>21. u.data \in SamplesOf(s, d + 1) /\ u = [hdr |-> Col.hdr, data |-> new]
  BY <1>6, <1>10, <1>20, ColIs DEF Column
<1>22. icu' = IF Mod(c) THEN UpdatedOf(s, icu, Offsets(s)[d + 1], u) ELSE icu
  BY <1>2, <1>4, <1>21, UpdatedIs DEF UpdateModel, Mod
<1>23. /\ Side(s, icu') /\ IsIcu(icu')
       /\ IF Mod(c) THEN UpdatedAt(s, icu', icu, d + 1, u) /\ DOMAIN icu'.model = DOMAIN icu.model
          ELSE icu' = icu
  <2>1. CASE Mod(c)
    <3>1. icu' = UpdatedOf(s, icu, Offsets(s)[d + 1], u)
      BY <1>22, <2>1
    <3> QED
      BY <1>3, <1>6, <1>7, <1>11, <1>21, <2>1, <3>1, UpdatedSide
  <2>2. CASE ~ Mod(c)
    BY <1>7, <1>22, <2>2
  <2> QED
    BY <2>1, <2>2
<1>24. Before(s, reading, c, icu', ground, n, T, d + 1, spoiled)
  <2>1. Before(s, reading, c, icu', ground, Longer(m, d, x), Marked(S, d, stored), d + 1, spoiled)
    BY <1>3, <1>4, <1>5, <1>6, <1>11, <1>20, <1>23, BeforeGrows
  <2> QED
    BY <1>16, <2>1
<1>25. Stage(s, reading, "collections", c, dst_size', read_bytes', info, ent', n, T, d + 1, p)
  BY <1>3, <1>14, <1>17, <1>18, <1>19 DEF Stage
<1>26. Trust(s, reading, "collections", icu', ground, c, null_dst, i, spoiled, n, T, d + 1)
  BY <1>24 DEF Trust, Received
<1>27. GoingInv'
  <2>1. Going(s, reading, "collections", icu', ground, c, dst_size', read_bytes', info, ent',
              null_dst, i, spoiled)
    BY <1>25, <1>26, Zenon DEF Going
  <2> QED
    BY <1>2, <1>4, <1>14, <2>1 DEF GoingInv
<1>28. SidesInv' /\ IdleInv'
  BY <1>2, <1>4, <1>7, <1>14, <1>23 DEF SidesInv, Sides, IdleInv
<1>29. FlowInv'
  BY <1>4, <1>14 DEF LinkInv, FlowInv, Received
<1> QED
  BY <1>27, <1>28, <1>29 DEF LinkInv

\* compress_chunk keeps the invariant of the link.
LEMMA CompressChunkLinks ==
  ASSUME SenderInv, LinkInv, NEW mode \in CmpMode, NEW start \in Stamps,
         compress_chunk(mode, start)
  PROVE  LinkInv'
<1>1. PICK s : s = setting
  OBVIOUS
<1>2. /\ s \in Settings /\ ~ s.rdcu /\ pc = "idle" /\ pc' = "collections"
      /\ cfg' = init_cmp_cfg_from_cmp_par(mode) /\ read_bytes' = 0 /\ ent' = NoEntity
      /\ dst_size' = IF mode = CMP_MODE_RAW THEN GENERIC_HEADER_SIZE ELSE NON_IMAGETTE_HEADER_SIZE
      /\ UNCHANGED <<setting, reading, icu, ground, i, null_dst, spoiled, info>>
  BY <1>1, SettingChunk DEF SenderInv, compress_chunk, caller, receiver, history
<1>3. cfg'.round = 0 /\ cfg'.cmp_mode = mode
  BY <1>1, <1>2, InitCfgIs
<1>4. HeadOf(cfg') = dst_size'
  BY <1>2, <1>3 DEF HeadOf, IsRaw
<1>5. PICK c, size : c = cfg' /\ size = dst_size' /\ size = HeadOf(c) /\ c.round = 0
  BY <1>3, <1>4
<1>6. Coding(s, c, <<>>, {}, 0)
  BY <1>2, <1>5, CodingFirst
<1>7. PICK q : q = [k \in 1 .. 1 |-> 0]
  OBVIOUS
<1>8. BodyOk(s, reading, c, NoBuffer, <<>>, {}, 0, q) /\ q[1] = 0
  BY <1>2, <1>7, BodyFirst
<1>9. NoEntity.body = NoBuffer /\ Offsets(s)[1] = 0 /\ 0 + 1 = 1 /\ HeadOf(c) \in Nat
  BY <1>2, OffsetsExist, SizesAre DEF IsOffsets, NoEntity
<1>10. Stage(s, reading, "collections", c, size, 0, info, NoEntity, <<>>, {}, 0, q)
  BY <1>2, <1>5, <1>6, <1>8, <1>9 DEF Stage
<1>11. IdleOk(icu, ground, spoiled)
  BY <1>2 DEF LinkInv, IdleInv
<1>12. Trust(s, reading, "collections", icu, ground, c, null_dst, i, spoiled, <<>>, {}, 0)
  BY <1>2, <1>11, BeforeFirst DEF Trust, Received, IdleOk
<1>13. GoingInv'
  <2>1. Going(s, reading, "collections", icu, ground, c, size, 0, info, NoEntity, null_dst, i,
              spoiled)
    BY <1>10, <1>12, Zenon DEF Going
  <2> QED
    BY <1>1, <1>2, <1>5, <2>1 DEF GoingInv
<1>14. SidesInv' /\ IdleInv' /\ FlowInv'
  BY <1>2 DEF LinkInv, SidesInv, IdleInv, FlowInv, Received
<1> QED
  BY <1>13, <1>14 DEF LinkInv

\* A collection keeps it, stored or compressed.
LEMMA CollectionLinks ==
  ASSUME SenderInv, LinkInv, \/ RawCollection \/ StoredRaw
                             \/ AtCollection /\ \E size \in 0 .. Col.hdr.len : Compressed(size)
  PROVE  LinkInv'
<1>1. AtCollection
  BY DEF RawCollection, StoredRaw, Checked
<1>2. PICK k \in 1 .. Count(setting) :
        /\ Col.hdr.len = LengthOf(setting, k) /\ Col.data = DataOf(setting, reading, k)
        /\ DataType = TypeOf(setting, k)
  BY <1>1, CollectionIs
<1>3. /\ setting \in Settings /\ reading \in 1 .. MaxEntities + 1
  BY SettingChunk DEF SenderInv
<1>4. /\ Col.hdr.len \in Nat /\ DataType \in Types /\ setting.layout[k].n \in Nat
      /\ size_of_a_sample(DataType) \in Nat \ {0}
      /\ Col.hdr.len = setting.layout[k].n * size_of_a_sample(DataType)
      /\ Col.data \in Samples(DataType, setting.layout[k].n)
  BY <1>2, <1>3, Layout, DataTyped DEF SamplesOf, LengthOf
<1>5. InEntity = Col.data
  BY <1>4, ConvertedIsThere DEF InEntity
<1>6. raw_mode <=> IsRaw(cfg)
  BY DEF raw_mode, IsRaw
<1>7. CASE RawCollection
  <2>1. /\ Finish(<<>>, Col.data, Col.hdr.len) /\ GenericValid(cfg)
        /\ SpecificValid(cfg, DataType) /\ HasModel(cfg, icu) /\ IsRaw(cfg) /\ icu' = icu
    BY <1>5, <1>6, <1>7 DEF RawCollection, Checked
  <2>2. ~ model_mode_is_used(cfg.cmp_mode)
    BY <2>1 DEF IsRaw, model_mode_is_used, CMP_MODE_RAW, CMP_MODE_MODEL_ZERO, CMP_MODE_MODEL_MULTI
  <2>3. UpdateModel(Col.data) /\ Col.hdr.len \in 0 .. Col.hdr.len
    BY <1>4, <2>1, <2>2 DEF UpdateModel
  <2> QED
    BY <1>1, <2>1, <2>3, FinishLink
<1>8. CASE StoredRaw
  <2>1. /\ Finish(<<>>, Col.data, Col.hdr.len) /\ GenericValid(cfg)
        /\ SpecificValid(cfg, DataType) /\ HasModel(cfg, icu) /\ UpdateModel(Col.data)
    BY <1>5, <1>8 DEF StoredRaw, Checked
  <2>2. Col.hdr.len \in 0 .. Col.hdr.len
    BY <1>4
  <2> QED
    BY <1>1, <2>1, <2>2, FinishLink
<1>9. CASE \E size \in 0 .. Col.hdr.len : Compressed(size)
  <2>1. PICK size \in 0 .. Col.hdr.len : Compressed(size)
    BY <1>9
  <2>2. /\ Finish(Encode(cfg, DataType, Col.data, Model), <<>>, size) /\ GenericValid(cfg)
        /\ SpecificValid(cfg, DataType) /\ HasModel(cfg, icu) /\ ~ IsRaw(cfg)
        /\ UpdateModel(UpModels(cfg, Col.data, Model))
        /\ Col.hdr.len = 0 \/ size < Col.hdr.len
    BY <1>6, <2>1 DEF Compressed, Checked
  <2>3. CASE Col.hdr.len = 0
    <3>1. setting.layout[k].n = 0
      <4>1. \A n \in Nat, z \in Nat \ {0} : n * z = 0 => n = 0
        OBVIOUS
      <4> QED
        BY <1>4, <2>3, <4>1, Zenon
    <3>2. DOMAIN Col.data = {} /\ Col.data = [j \in DOMAIN Col.data |-> Col.data[j]]
      BY <1>4, <3>1 DEF Samples
    <3>3. <<>> = Col.data
      BY <3>2
    <3>4. UpModels(cfg, Col.data, Model) = Col.data
      BY <3>2 DEF UpModels
    <3>5. size = Col.hdr.len
      BY <2>1, <2>3
    <3> QED
      BY <1>1, <2>1, <2>2, <3>3, <3>4, <3>5, FinishLink
  <2>4. CASE size < Col.hdr.len
    <3>1. ~ (size = Col.hdr.len)
      BY <1>4, <2>1, <2>4
    <3> QED
      BY <1>1, <2>1, <2>2, <3>1, FinishLink
  <2> QED
    BY <2>2, <2>3, <2>4
<1> QED
  BY <1>7, <1>8, <1>9

\* dst is full behind some samples: the rest of the updated model is what was there.
LEMMA PartlyUpdated ==
  ASSUME NEW c, c.round \in 0 .. 3, c.model_value \in Nat, NEW t, NEW n \in Nat,
         NEW data \in Samples(t, n), NEW model \in Samples(t, n), NEW old \in Samples(t, n),
         NEW l \in Int
  PROVE  [j \in DOMAIN data |-> IF j <= l THEN UpSample(c, data[j], model[j]) ELSE old[j]]
           \in Samples(t, n)
<1>1. DOMAIN data = 1 .. n
  BY DEF Samples
<1>2. UpModels(c, data, model) \in Samples(t, n)
  BY UpModelsTypes
<1>3. ASSUME NEW j \in 1 .. n
      PROVE  UpSample(c, data[j], model[j]) \in [Members(t) -> Int] /\ old[j] \in [Members(t) -> Int]
  <2>1. UpModels(c, data, model)[j] = UpSample(c, data[j], model[j])
    BY <1>1 DEF UpModels
  <2> QED
    BY <1>2, <2>1 DEF Samples
<1> QED
  BY <1>1, <1>3 DEF Samples

\* A compression refused keeps it.
LEMMA FailureLinks ==
  ASSUME SenderInv, LinkInv,
         CollectionRefused \/ NoRoomForHeader \/ \E end \in Stamps : HeaderRefused(end)
  PROVE  LinkInv'
<1>1. /\ pc = "collections" /\ icu' = icu
      /\ Fails(cfg, read_bytes > 0) \/ Fails(cfg, TRUE)
  BY DEF CollectionRefused, NoRoomForHeader, HeaderRefused, Checked, AtCollection, sender
<1>2. IsIcu(icu) /\ Side(setting, icu)
  BY DEF LinkInv, SidesInv, Sides
<1>3. PICK b \in BOOLEAN : b <=> read_bytes > 0
  OBVIOUS
<1>4. CASE Fails(cfg, TRUE)
  BY <1>1, <1>2, <1>4, FailsKeeps
<1>5. CASE Fails(cfg, read_bytes > 0)
  <2>1. Fails(cfg, b) /\ b \in BOOLEAN /\ (read_bytes > 0 => b)
    <3>1. Fails(cfg, b)
      BY <1>3, <1>5 DEF Fails
    <3> QED
      BY <1>3, <3>1
  <2> QED
    BY <1>1, <1>2, <2>1, FailsKeeps
<1> QED
  BY <1>1, <1>4, <1>5

\* A buffer full in the middle of a collection keeps it.
LEMMA SmallBufferLinks ==
  ASSUME SenderInv, LinkInv, AtCollection, NEW l \in 0 .. Len(Col.data) - 1, SmallBuffer(l)
  PROVE  LinkInv'
<1>1. PICK k \in 1 .. Count(setting) :
        /\ read_bytes = Offsets(setting)[k] /\ Col.hdr = HdrOf(setting, reading, k)
        /\ Col.data = DataOf(setting, reading, k) /\ DataType = TypeOf(setting, k)
  BY CollectionIs
<1>2. PICK s, c : s = setting /\ c = cfg
  OBVIOUS
<1>3. /\ s \in Settings /\ reading \in 1 .. MaxEntities + 1 /\ pc = "collections"
  BY <1>2, SettingChunk DEF SenderInv, AtCollection
<1>4. IsIcu(icu) /\ Side(s, icu) /\ IsBuffer(s, icu.model) /\ IsBuffer(s, icu.updated)
  BY <1>2 DEF LinkInv, SidesInv, Sides, Side
<1>5. /\ GenericValid(c) /\ HasModel(c, icu) /\ Fails(c, TRUE)
  BY <1>2 DEF SmallBuffer, Checked
<1>6. c.round \in 0 .. 3 /\ c.model_value \in Nat
  BY <1>2, <1>5, ModePossible DEF SenderInv, TypeInv
<1>7. /\ TypeOf(s, k) \in Types /\ s.layout[k].n \in Nat
      /\ DataOf(s, reading, k) \in SamplesOf(s, k)
      /\ ModelAt(s, icu.model, k) \in SamplesOf(s, k)
      /\ ModelAt(s, icu.updated, k) \in SamplesOf(s, k)
  BY <1>1, <1>2, <1>3, <1>4, Layout, DataTyped, ModelAtIs
<1>8. Len(Col.data) = s.layout[k].n
  BY <1>1, <1>2, <1>7 DEF DataOf
<1>9. /\ Model = ModelAt(s, icu.model, k)
      /\ At(Outdated, read_bytes, DataType, Len(Col.data)) \in SamplesOf(s, k)
  BY <1>1, <1>2, <1>7, <1>8 DEF Model, ModelAt, Outdated
<1>10. PICK old, new :
         /\ old = At(Outdated, read_bytes, DataType, Len(Col.data))
         /\ new = [j \in DOMAIN Col.data |->
                     IF j <= l THEN UpSample(c, Col.data[j], Model[j]) ELSE old[j]]
  OBVIOUS
<1>11. new \in SamplesOf(s, k)
  <2>1. l \in Int
    OBVIOUS
  <2>2. /\ Col.data \in Samples(TypeOf(s, k), s.layout[k].n)
        /\ Model \in Samples(TypeOf(s, k), s.layout[k].n)
        /\ old \in Samples(TypeOf(s, k), s.layout[k].n)
    BY <1>1, <1>2, <1>7, <1>9, <1>10 DEF SamplesOf
  <2> QED
    <3>1. PICK t, n, data, model : /\ t = TypeOf(s, k) /\ n = s.layout[k].n /\ data = Col.data
                                   /\ model = Model
      OBVIOUS
    <3>2. /\ n \in Nat /\ data \in Samples(t, n) /\ model \in Samples(t, n)
          /\ old \in Samples(t, n)
      BY <1>7, <2>2, <3>1
    <3>3. new = [j \in DOMAIN data |-> IF j <= l THEN UpSample(c, data[j], model[j]) ELSE old[j]]
      BY <1>10, <3>1
    <3>4. new \in Samples(t, n)
      BY <1>6, <2>1, <3>2, <3>3, PartlyUpdated
    <3> QED
      BY <3>1, <3>4 DEF SamplesOf
<1>12. UpdateModel(new)
  BY <1>2, <1>10 DEF SmallBuffer
<1>13. PICK u : u = [hdr |-> Col.hdr, data |-> new]
  OBVIOUS
<1>14. icu' = IF Mod(c) THEN UpdatedOf(s, icu, Offsets(s)[k], u) ELSE icu
  BY <1>1, <1>2, <1>12, <1>13, UpdatedIs DEF UpdateModel, Mod
<1>15. /\ Side(s, icu') /\ IsIcu(icu') /\ DOMAIN icu'.model = DOMAIN icu.model
       /\ ~ (s.update = "in_place" /\ Mod(c)) => icu'.model = icu.model
  <2>1. CASE Mod(c)
    <3>1. DOMAIN icu.model = Places(s)
      BY <1>3, <1>4, <1>5, <2>1, ModelThere
    <3>2. u.data \in SamplesOf(s, k) /\ icu' = UpdatedOf(s, icu, Offsets(s)[k], u)
      BY <1>11, <1>13, <1>14, <2>1
    <3>3. /\ Side(s, icu') /\ UpdatedAt(s, icu', icu, k, u) /\ DOMAIN icu'.model = DOMAIN icu.model
          /\ IsIcu(icu')
      BY <1>1, <1>2, <1>3, <1>4, <3>1, <3>2, UpdatedSide
    <3> QED
      BY <2>1, <3>3 DEF UpdatedAt
  <2>2. CASE ~ Mod(c)
    BY <1>4, <1>14, <2>2
  <2> QED
    BY <2>1, <2>2
<1> QED
  BY <1>2, <1>3, <1>5, <1>15, FailsKeeps

\* The header is written, the data behind it stay.
LEMMA BuildLinks ==
  ASSUME SenderInv, LinkInv, NEW end \in Stamps, cmp_ent_build_chunk_header(end)
  PROVE  LinkInv'
<1>1. PICK m, S, d, q :
        /\ Stage(setting, reading, pc, cfg, dst_size, read_bytes, info, ent, m, S, d, q)
        /\ Trust(setting, reading, pc, icu, ground, cfg, null_dst, i, spoiled, m, S, d)
  BY GoingIs DEF cmp_ent_build_chunk_header
<1>2. PICK s : s = setting
  OBVIOUS
<1>3. /\ s \in Settings /\ ~ s.rdcu /\ pc = "collections" /\ read_bytes = SizeOf(s)
      /\ pc' = "built"
      /\ UNCHANGED <<setting, reading, icu, ground, cfg, dst_size, info, i, null_dst, spoiled>>
  BY <1>2, SettingChunk
     DEF SenderInv, PhaseInv, PhaseOk, cmp_ent_build_chunk_header, caller, receiver, history
<1>4. /\ Coding(s, cfg, m, S, d) /\ read_bytes = Offsets(s)[d + 1]
      /\ BodyOk(s, reading, cfg, ent.body, m, S, d, q) /\ dst_size = HeadOf(cfg) + q[d + 1]
      /\ Before(s, reading, cfg, icu, ground, m, S, d, spoiled)
  BY <1>1, <1>2, <1>3 DEF Stage, Trust, Received
<1>5. d = Count(s)
  <2>1. d \in 0 .. Count(s) /\ Count(s) \in Nat
    BY <1>3, <1>4, Layout DEF Coding
  <2>2. ASSUME d # Count(s) PROVE FALSE
    <3>1. d + 1 \in 1 .. Count(s) /\ Count(s) + 1 \in (d + 1) + 1 .. Count(s) + 1
      BY <2>1, <2>2
    <3>2. /\ Offsets(s)[d + 1] \in Nat /\ Offsets(s)[Count(s) + 1] \in Nat
          /\ Offsets(s)[d + 1] + HeaderOf(s) + LengthOf(s, d + 1) <= Offsets(s)[Count(s) + 1]
      BY <1>3, <3>1, OffsetsGrow
    <3>3. HeaderOf(s) = 12 /\ LengthOf(s, d + 1) \in Nat
      BY <1>3, <3>1, SizesAre, Layout DEF HeaderOf
    <3>4. Offsets(s)[d + 1] = Offsets(s)[Count(s) + 1]
      BY <1>3, <1>4 DEF SizeOf
    <3> QED
      BY <3>2, <3>3, <3>4
  <2> QED
    BY <2>2
<1>6. ent'.body = ent.body
  <2>1. ent = [h |-> ent.h, body |-> ent.body]
    BY DEF SenderInv, TypeInv, IsEntity
  <2>2. ent' = [ent EXCEPT !.h = PutAll(ent.h, ChunkHeader \o Timestamps(end))]
    BY DEF cmp_ent_build_chunk_header
  <2> QED
    BY <2>1, <2>2
<1>7. ent' # NoEntity
  <2>1. SenderInv'
    BY HeaderKeeps
  <2> QED
    BY <1>3, <2>1 DEF SenderInv, PhaseInv, PhaseOk
<1>8. Stage(s, reading, "built", cfg, dst_size, read_bytes', info, ent', m, S, d, q)
  BY <1>3, <1>4, <1>5, <1>6, <1>7 DEF Stage
<1>9. Trust(s, reading, "built", icu, ground, cfg, null_dst, i, spoiled, m, S, d)
  BY <1>4 DEF Trust, Received
<1>10. GoingInv'
  <2>1. Going(s, reading, "built", icu, ground, cfg, dst_size, read_bytes', info, ent', null_dst,
              i, spoiled)
    BY <1>8, <1>9, Zenon DEF Going
  <2> QED
    BY <1>2, <1>3, <2>1 DEF GoingInv
<1>11. SidesInv' /\ IdleInv' /\ FlowInv'
  BY <1>3 DEF LinkInv, SidesInv, IdleInv, FlowInv, Received
<1> QED
  BY <1>10, <1>11 DEF LinkInv

\* compress_chunk_set_model_id_and_counter keeps it.
LEMMA IdentifiersLink ==
  ASSUME SenderInv, LinkInv, NEW x \in Ids, compress_chunk_set_model_id_and_counter(x[1], x[2])
  PROVE  LinkInv'
<1>1. PICK m, S, d, q :
        /\ Stage(setting, reading, pc, cfg, dst_size, read_bytes, info, ent, m, S, d, q)
        /\ Trust(setting, reading, pc, icu, ground, cfg, null_dst, i, spoiled, m, S, d)
  BY GoingIs DEF compress_chunk_set_model_id_and_counter
<1>2. /\ pc = "built"
      /\ UNCHANGED <<setting, reading, pc, icu, ground, cfg, dst_size, read_bytes, info, i,
                     null_dst, spoiled, dcfg>>
  BY DEF compress_chunk_set_model_id_and_counter, caller, receiver, history
<1>3. ent'.body = ent.body /\ ent # NoEntity
  <2>1. ent = [h |-> ent.h, body |-> ent.body]
    BY DEF SenderInv, TypeInv, IsEntity
  <2>2. PICK f : ent' = [ent EXCEPT !.h = f]
    BY DEF compress_chunk_set_model_id_and_counter
  <2> QED
    BY <1>2, <2>1, <2>2 DEF SenderInv, PhaseInv, PhaseOk
<1>4. ent' # NoEntity
  <2>1. SenderInv'
    BY IdentifiersKeep
  <2> QED
    BY <1>2, <2>1 DEF SenderInv, PhaseInv, PhaseOk
<1>5. Stage(setting, reading, pc, cfg, dst_size, read_bytes, info, ent', m, S, d, q)
  BY <1>1, <1>3, <1>4 DEF Stage, StreamOk
<1>6. GoingInv'
  <2>1. Going(setting, reading, pc, icu, ground, cfg, dst_size, read_bytes, info, ent', null_dst,
              i, spoiled)
    BY <1>1, <1>5, Zenon DEF Going
  <2> QED
    BY <1>2, <2>1 DEF GoingInv
<1>7. SidesInv' /\ IdleInv' /\ FlowInv'
  BY <1>2 DEF LinkInv, SidesInv, IdleInv, FlowInv, Received
<1> QED
  BY <1>6, <1>7 DEF LinkInv

\* A valid configuration of the RDCU's compressor and its input.
LEMMA RdcuValidIs ==
  ASSUME SenderInv, LinkInv, AtInput, NEW r \in RdcuConfigs, RdcuValid(RdcuCfg(r)),
         NEW s, s = setting, NEW c, c = RdcuCfg(r)
  PROVE  /\ s \in Settings /\ s.rdcu /\ Count(s) = 1 /\ Offsets(s)[1] = 0
         /\ TypeOf(s, 1) = "imagette" /\ HdrOf(s, reading, 1) = NoHeader
         /\ Input = DataOf(s, reading, 1) /\ Input \in SamplesOf(s, 1)
         /\ s.layout[1].n \in Nat /\ RdcuModel = ModelAt(s, icu.model, 1)
         /\ RdcuModel \in SamplesOf(s, 1) /\ GenericValid(c) /\ SpecificValid(c, "imagette")
         /\ c.round \in 0 .. 3 /\ c.model_value \in Nat /\ Sides(s, icu, ground)
         /\ Mod(c) => DOMAIN icu.model = Places(s)
         /\ IdleOk(icu, ground, spoiled) /\ spoiled \in BOOLEAN
<1>1. /\ s \in Settings /\ s.rdcu /\ reading \in 1 .. MaxEntities + 1 /\ pc = "idle"
  BY SettingChunk DEF SenderInv, AtInput
<1>2. /\ Input = DataOf(s, reading, 1) /\ s.layout[1].n \in Nat
      /\ Input \in Samples("imagette", s.layout[1].n) /\ Len(Input) = s.layout[1].n
      /\ Offsets(s)[1] = 0 /\ 1 \in 1 .. Count(s) /\ Count(s) = 1
  BY <1>1, InputIs
<1>3. TypeOf(s, 1) = "imagette" /\ HdrOf(s, reading, 1) = NoHeader
  BY <1>1 DEF TypeOf, HdrOf
<1>4. Sides(s, icu, ground) /\ Side(s, icu) /\ IsBuffer(s, icu.model) /\ spoiled \in BOOLEAN
      /\ IdleOk(icu, ground, spoiled)
  BY <1>1 DEF LinkInv, SidesInv, Sides, Side, IdleInv
<1>5. RdcuModel = ModelAt(s, icu.model, 1)
  BY <1>2, <1>3 DEF RdcuModel, ModelAt
<1>6. RdcuModel \in SamplesOf(s, 1)
  BY <1>1, <1>2, <1>4, <1>5, ModelAtIs
<1>7. GenericValid(c) /\ SpecificValid(c, "imagette") /\ HasModel(c, icu)
  BY DEF RdcuValid
<1>8. c.round \in 0 .. 3 /\ c.model_value \in Nat
  BY <1>7, RdcuCfgIs DEF Cfg, GenericValid, MAX_ICU_ROUND
<1>9. Mod(c) => DOMAIN icu.model = Places(s)
  BY <1>1, <1>4, <1>7, ModelThere
<1> QED
  BY <1>1, <1>2, <1>3, <1>4, <1>5, <1>6, <1>7, <1>8, <1>9 DEF SamplesOf

\* compress_like_rdcu keeps it.
LEMMA RdcuLinks ==
  ASSUME SenderInv, LinkInv, NEW r \in RdcuConfigs, NEW size \in 0 .. ChunkSize,
         compress_like_rdcu(r, 8 * size)
  PROVE  LinkInv'
<1>1. PICK s, c, x : s = setting /\ c = RdcuCfg(r) /\ x = RdcuModel
  OBVIOUS
<1>2. AtInput /\ RdcuValid(RdcuCfg(r))
  BY DEF compress_like_rdcu
<1>3. /\ s \in Settings /\ s.rdcu /\ Count(s) = 1 /\ Offsets(s)[1] = 0
      /\ TypeOf(s, 1) = "imagette" /\ HdrOf(s, reading, 1) = NoHeader
      /\ Input = DataOf(s, reading, 1) /\ Input \in SamplesOf(s, 1)
      /\ s.layout[1].n \in Nat /\ x = ModelAt(s, icu.model, 1)
      /\ x \in SamplesOf(s, 1) /\ GenericValid(c) /\ SpecificValid(c, "imagette")
      /\ c.round \in 0 .. 3 /\ c.model_value \in Nat /\ Sides(s, icu, ground)
      /\ Mod(c) => DOMAIN icu.model = Places(s)
      /\ IdleOk(icu, ground, spoiled) /\ spoiled \in BOOLEAN
  BY <1>1, <1>2, RdcuValidIs
<1>4. /\ cfg' = c /\ ent' = NoEntity /\ pc = "idle" /\ pc' = "compressed"
      /\ UNCHANGED <<setting, reading, ground, i, null_dst, spoiled>>
  BY <1>1 DEF compress_like_rdcu, AtInput, caller, receiver, history
<1>5. ~ (IsRaw(c) /\ Mod(c))
  BY DEF IsRaw, Mod, model_mode_is_used, CMP_MODE_RAW, CMP_MODE_MODEL_ZERO, CMP_MODE_MODEL_MULTI
<1>6. PICK stored \in BOOLEAN : stored <=> IsRaw(c)
  OBVIOUS
<1>7. PICK m, S : m = Longer(<<>>, 0, x) /\ S = Marked({}, 0, stored)
  OBVIOUS
<1>8. m[1] = x /\ (1 \in S <=> IsRaw(c))
  BY <1>6, <1>7 DEF Longer, Marked
<1>9. Coding(s, c, m, S, 1)
  <2>1. Coding(s, c, <<>>, {}, 0)
    BY <1>3, CodingFirst
  <2>2. 0 + 1 = 1 /\ 0 + 1 \in 1 .. Count(s)
    BY <1>3
  <2> QED
    BY <1>3, <1>6, <1>7, <2>1, <2>2, CodingGrows
<1>10. PICK u : u = Column(HdrOf(s, reading, 1), NewOf(s, reading, c, x, stored, 1))
  OBVIOUS
<1>11. Mod(c) => u = [hdr |-> NoHeader, data |-> UpModels(c, Input, x)]
                 /\ u.data \in SamplesOf(s, 1)
  <2>1. Mod(c) => u = [hdr |-> NoHeader, data |-> UpModels(c, Input, x)]
    BY <1>3, <1>5, <1>6, <1>10 DEF Column, NewOf
  <2>2. UpModels(c, Input, x) \in SamplesOf(s, 1)
    BY <1>3, UpModelsTypes DEF SamplesOf
  <2> QED
    BY <2>1, <2>2
<1>12. icu' = IF Mod(c) THEN UpdatedOf(s, icu, Offsets(s)[1], u) ELSE icu
  <2>1. icu' = IF Mod(c) THEN Updated(icu, 0, [hdr |-> NoHeader, data |-> UpModels(c, Input, x)])
               ELSE icu
    BY <1>1 DEF compress_like_rdcu, Mod
  <2> QED
    BY <1>1, <1>3, <1>11, <2>1, UpdatedIs
<1>13. /\ Side(s, icu') /\ IsIcu(icu')
       /\ IF Mod(c) THEN UpdatedAt(s, icu', icu, 1, u) /\ DOMAIN icu'.model = DOMAIN icu.model
          ELSE icu' = icu
  <2>1. Side(s, icu) /\ IsIcu(icu) /\ 1 \in 1 .. Count(s)
    BY <1>3 DEF Sides
  <2>2. CASE Mod(c)
    <3>1. icu' = UpdatedOf(s, icu, Offsets(s)[1], u)
      BY <1>12, <2>2
    <3> QED
      BY <1>3, <1>11, <2>1, <2>2, <3>1, UpdatedSide
  <2>3. CASE ~ Mod(c)
    BY <1>12, <2>1, <2>3
  <2> QED
    BY <2>2, <2>3
<1>14. Before(s, reading, c, icu', ground, m, S, 1, spoiled)
  <2>1. Before(s, reading, c, icu, ground, <<>>, {}, 0, spoiled)
    BY <1>3, BeforeFirst DEF IdleOk
  <2>2. PICK d \in Nat : d = 0 /\ d + 1 = 1 /\ d + 1 \in 1 .. Count(s) /\ {} \subseteq 1 .. d
    BY <1>3
  <2>3. /\ Before(s, reading, c, icu, ground, <<>>, {}, d, spoiled) /\ x = ModelAt(s, icu.model, d + 1)
        /\ IF Mod(c)
           THEN /\ UpdatedAt(s, icu', icu, d + 1, Column(HdrOf(s, reading, d + 1),
                                                      NewOf(s, reading, c, x, stored, d + 1)))
                /\ DOMAIN icu'.model = DOMAIN icu.model
           ELSE icu' = icu
    BY <1>3, <1>10, <1>13, <2>1, <2>2
  <2>4. Before(s, reading, c, icu', ground, Longer(<<>>, d, x), Marked({}, d, stored), d + 1, spoiled)
    BY <1>3, <2>2, <2>3, BeforeGrows
  <2> QED
    BY <1>7, <2>2, <2>4
<1>15. StreamOk(s, reading, c, info', NoEntity, m, S)
  <2>1. info'.cmp_err = 0
    BY DEF compress_like_rdcu, Info
  <2>2. CASE IsRaw(c)
    <3>1. /\ 8 * size = 8 * ChunkSize
          /\ info' = Info(r, 8 * size, <<>>, Converted(setting.icu, Input, "imagette"))
      BY <1>1, <2>2 DEF compress_like_rdcu, IsRaw
    <3>2. "imagette" \in Types
      BY <1>3, Layout
    <3>3. info'.data = Input
      BY <1>3, <3>1, <3>2, ConvertedIsThere DEF Info, SamplesOf
    <3>4. info'.cmp_size = 8 * SizeOf(s)
      BY <1>1, <3>1, SettingChunk DEF Info, SenderInv
    <3> QED
      BY <1>3, <1>8, <2>1, <2>2, <3>3, <3>4 DEF StreamOk, Content
  <2>3. CASE ~ IsRaw(c)
    <3>1. info' = Info(r, 8 * size, Encode(c, "imagette", Input, x), <<>>)
      BY <1>1, <2>3 DEF compress_like_rdcu, IsRaw
    <3>2. info'.words = Encode(c, TypeOf(s, 1), DataOf(s, reading, 1), x)
      BY <1>3, <3>1 DEF Info
    <3> QED
      BY <1>8, <2>1, <2>3, <3>2 DEF StreamOk, Content
  <2> QED
    BY <2>2, <2>3
<1>16. Stage(s, reading, "compressed", c, dst_size', read_bytes', info', NoEntity, m, S, 1, <<>>)
  BY <1>3, <1>9, <1>15 DEF Stage
<1>17. Trust(s, reading, "compressed", icu', ground, c, null_dst, i, spoiled, m, S, 1)
  BY <1>14 DEF Trust, Received
<1>18. GoingInv'
  <2>1. Going(s, reading, "compressed", icu', ground, c, dst_size', read_bytes', info', NoEntity,
              null_dst, i, spoiled)
    BY <1>16, <1>17, Zenon DEF Going
  <2> QED
    BY <1>1, <1>4, <2>1 DEF GoingInv
<1>19. SidesInv' /\ IdleInv' /\ FlowInv'
  BY <1>1, <1>3, <1>4, <1>13 DEF LinkInv, SidesInv, Sides, IdleInv, FlowInv, Received
<1> QED
  BY <1>18, <1>19 DEF LinkInv

\* It does when it fails.
LEMMA RdcuFailureLinks ==
  ASSUME SenderInv, LinkInv, NEW r \in RdcuConfigs,
         \/ compress_like_rdcu_refuses(r)
         \/ \E l \in 0 .. 1 : compress_like_rdcu_small_buffer(r, l)
  PROVE  LinkInv'
<1>1. PICK s, c, x : s = setting /\ c = RdcuCfg(r) /\ x = RdcuModel
  OBVIOUS
<1>2. /\ pc = "idle" /\ pc' = "idle" /\ UNCHANGED <<setting, ground, i, null_dst>>
      /\ pc \notin Received
  BY DEF compress_like_rdcu_refuses, compress_like_rdcu_small_buffer, AtInput, Fails, caller,
         receiver, Received
<1>3. IdleOk(icu, ground, spoiled) /\ IsIcu(icu) /\ Side(s, icu) /\ spoiled \in BOOLEAN
  BY <1>1, <1>2 DEF LinkInv, SidesInv, Sides, IdleInv
<1>4. CASE compress_like_rdcu_refuses(r)
  <2>1. icu' = icu /\ (spoiled' <=> spoiled) /\ spoiled' \in BOOLEAN
    BY <1>3, <1>4 DEF compress_like_rdcu_refuses, Fails
  <2>2. IdleOk(icu', ground, spoiled')
    BY <1>3, <2>1 DEF IdleOk
  <2> QED
    BY <1>1, <1>2, <1>3, <2>1, <2>2, IdleKeeps
<1>5. CASE \E l \in 0 .. 1 : compress_like_rdcu_small_buffer(r, l)
  <2>1. PICK l \in 0 .. 1 : compress_like_rdcu_small_buffer(r, l)
    BY <1>5
  <2>2. AtInput /\ RdcuValid(RdcuCfg(r))
    BY <2>1 DEF compress_like_rdcu_small_buffer
  <2>3. /\ s \in Settings /\ s.rdcu /\ Count(s) = 1 /\ Offsets(s)[1] = 0
        /\ TypeOf(s, 1) = "imagette" /\ Input \in SamplesOf(s, 1)
        /\ Input = DataOf(s, reading, 1) /\ s.layout[1].n \in Nat /\ x \in SamplesOf(s, 1)
        /\ c.round \in 0 .. 3 /\ c.model_value \in Nat
        /\ Mod(c) => DOMAIN icu.model = Places(s)
    BY <1>1, <2>2, RdcuValidIs
  <2>4. PICK old, new :
           /\ old = At(Outdated, 0, "imagette", Len(Input))
           /\ new = [j \in DOMAIN Input |-> IF j <= l THEN UpSample(c, Input[j], x[j]) ELSE old[j]]
    OBVIOUS
  <2>5. old \in SamplesOf(s, 1)
    <3>1. Len(Input) = s.layout[1].n
      BY <2>3 DEF DataOf
    <3>2. /\ ModelAt(s, icu.model, 1) \in SamplesOf(s, 1)
          /\ ModelAt(s, icu.updated, 1) \in SamplesOf(s, 1)
      BY <1>3, <2>3, ModelAtIs DEF Side
    <3> QED
      BY <1>1, <2>3, <2>4, <3>1, <3>2 DEF ModelAt, Outdated
  <2>6. new \in SamplesOf(s, 1)
    <3>1. l \in Int
      BY <2>1
    <3>2. PICK t, n, data : t = TypeOf(s, 1) /\ n = s.layout[1].n /\ data = Input
      OBVIOUS
    <3>3. n \in Nat /\ data \in Samples(t, n) /\ x \in Samples(t, n) /\ old \in Samples(t, n)
      BY <2>3, <2>5, <3>2 DEF SamplesOf
    <3>4. new = [j \in DOMAIN data |-> IF j <= l THEN UpSample(c, data[j], x[j]) ELSE old[j]]
      BY <2>4, <3>2
    <3>5. new \in Samples(t, n)
      BY <2>3, <3>1, <3>3, <3>4, PartlyUpdated
    <3> QED
      BY <3>2, <3>5 DEF SamplesOf
  <2>7. PICK u : u = [hdr |-> NoHeader, data |-> new]
    OBVIOUS
  <2>8. /\ icu' = IF Mod(c) THEN UpdatedOf(s, icu, Offsets(s)[1], u) ELSE icu
        /\ spoiled' = (spoiled \/ (TRUE /\ setting.update = "in_place" /\ Mod(c)))
    <3>1. icu' = IF Mod(c) THEN Updated(icu, 0, u) ELSE icu
      BY <1>1, <2>1, <2>4, <2>7 DEF compress_like_rdcu_small_buffer, Mod
    <3>2. spoiled' = (spoiled \/ (TRUE /\ setting.update = "in_place" /\ Mod(c)))
      BY <1>1, <2>1 DEF compress_like_rdcu_small_buffer, Fails, Mod
    <3> QED
      BY <1>1, <2>3, <3>1, <3>2, UpdatedIs
  <2>9. /\ Side(s, icu') /\ IsIcu(icu') /\ DOMAIN icu'.model = DOMAIN icu.model
        /\ ~ (s.update = "in_place" /\ Mod(c)) => icu'.model = icu.model
    <3>1. CASE Mod(c)
      <4>1. /\ u.data \in SamplesOf(s, 1) /\ icu' = UpdatedOf(s, icu, Offsets(s)[1], u)
            /\ 1 \in 1 .. Count(s)
        BY <2>3, <2>6, <2>7, <2>8, <3>1
      <4>2. /\ Side(s, icu') /\ UpdatedAt(s, icu', icu, 1, u)
            /\ DOMAIN icu'.model = DOMAIN icu.model /\ IsIcu(icu')
        BY <1>3, <2>3, <3>1, <4>1, UpdatedSide
      <4> QED
        BY <3>1, <4>2 DEF UpdatedAt
    <3>2. CASE ~ Mod(c)
      BY <1>3, <2>8, <3>2
    <3> QED
      BY <3>1, <3>2
  <2>10. IdleOk(icu', ground, spoiled') /\ spoiled' \in BOOLEAN
    BY <1>1, <1>3, <2>8, <2>9 DEF IdleOk
  <2> QED
    BY <1>1, <1>2, <2>9, <2>10, IdleKeeps
<1> QED
  BY <1>4, <1>5

\* The entity stays what it is once all collections are in it.
LEMMA StageStays ==
  ASSUME NEW s, NEW r, NEW p, NEW c, NEW size, NEW bytes, NEW inf, NEW e, NEW m, NEW S, NEW d,
         NEW q, Stage(s, r, p, c, size, bytes, inf, e, m, S, d, q), p # "collections",
         NEW p2, p2 # "collections", NEW b2
  PROVE  Stage(s, r, p2, c, size, b2, inf, e, m, S, d, q) /\ d = Count(s)
BY DEF Stage

\* cmp_ent_write_rdcu_cmp_pars keeps it.
LEMMA WriteLinks ==
  ASSUME SenderInv, LinkInv, NEW t \in imagettes, NEW raw \in BOOLEAN,
         cmp_ent_write_rdcu_cmp_pars(t, raw)
  PROVE  LinkInv'
<1>1. PICK m, S, d, q :
        /\ Stage(setting, reading, pc, cfg, dst_size, read_bytes, info, ent, m, S, d, q)
        /\ Trust(setting, reading, pc, icu, ground, cfg, null_dst, i, spoiled, m, S, d)
  BY GoingIs DEF cmp_ent_write_rdcu_cmp_pars
<1>2. /\ pc = "compressed" /\ pc' = "built" /\ setting.rdcu
      /\ UNCHANGED <<setting, reading, icu, ground, cfg, dst_size, read_bytes, info, i, null_dst,
                     spoiled>>
  BY DEF cmp_ent_write_rdcu_cmp_pars, caller, sender, receiver, history, SenderInv, PhaseInv, PhaseOk
<1>3. ent'.body[0].words = info.words /\ ent'.body[0].data = info.data
  <2>1. PICK f, z : ent' = [h |-> f, body |-> With(NoBuffer, 0,
                              [size |-> z, hdr |-> NoHeader, words |-> info.words,
                               data |-> info.data])]
    BY Zenon DEF cmp_ent_write_rdcu_cmp_pars
  <2>2. PICK col : col = [size |-> z, hdr |-> NoHeader, words |-> info.words, data |-> info.data]
    OBVIOUS
  <2>3. /\ ent'.body = With(NoBuffer, 0, col)
        /\ col.words = info.words /\ col.data = info.data
    BY <2>1, <2>2
  <2>4. With(NoBuffer, 0, col)[0] = col
    BY DEF With
  <2> QED
    BY <2>3, <2>4
<1>4. Stage(setting, reading, "built", cfg, dst_size, read_bytes, info, ent', m, S, d, q)
  BY <1>1, <1>2, <1>3 DEF Stage, StreamOk
<1>5. Trust(setting, reading, "built", icu, ground, cfg, null_dst, i, spoiled, m, S, d)
  BY <1>1, <1>2 DEF Trust, Received
<1>6. GoingInv'
  <2>1. Going(setting, reading, "built", icu, ground, cfg, dst_size, read_bytes, info, ent',
              null_dst, i, spoiled)
    BY <1>4, <1>5, Zenon DEF Going
  <2> QED
    BY <1>2, <2>1 DEF GoingInv
<1>7. SidesInv' /\ IdleInv' /\ FlowInv'
  BY <1>2 DEF LinkInv, SidesInv, IdleInv, FlowInv, Received
<1> QED
  BY <1>6, <1>7 DEF LinkInv

\* What is sent.
LEMMA LossyChunk ==
  ASSUME SenderInv, NEW m, NEW S, NEW d, NEW q, pc # "collections",
         Stage(setting, reading, pc, cfg, dst_size, read_bytes, info, ent, m, S, d, q)
  PROVE  IsLossy(setting, reading, cfg, Lossy(cfg, chunk)) /\ cfg.round \in 0 .. 3
         /\ cfg.model_value \in Nat /\ GenericValid(cfg)
<1>1. setting \in Settings /\ reading \in 1 .. MaxEntities + 1 /\ IsChunk(setting, reading, chunk)
  BY SettingChunk DEF SenderInv
<1>2. d = Count(setting) /\ Coding(setting, cfg, m, S, d)
  BY DEF Stage
<1>3. d > 0
  BY <1>1, <1>2, Layout
<1>4. GenericValid(cfg)
  BY <1>2, <1>3 DEF Coding
<1>5. cfg.round \in 0 .. 3 /\ cfg.model_value \in Nat
  BY <1>4, ModePossible DEF SenderInv, TypeInv
<1>6. /\ IsBuffer(setting, Lossy(cfg, chunk)) /\ DOMAIN Lossy(cfg, chunk) = Places(setting)
      /\ \A k \in 1 .. Count(setting) :
           Lossy(cfg, chunk)[Offsets(setting)[k]] =
             Column(HdrOf(setting, reading, k), Seen(cfg, DataOf(setting, reading, k)))
  BY <1>1, <1>5, LossyIs DEF IsChunk
<1> QED
  BY <1>4, <1>5, <1>6 DEF IsLossy

\* The entity on its way keeps it: both models are updated or neither is.
LEMMA SendLinks ==
  ASSUME SenderInv, LinkInv, Send
  PROVE  LinkInv'
<1>1. PICK m, S, d, q :
        /\ Stage(setting, reading, pc, cfg, dst_size, read_bytes, info, ent, m, S, d, q)
        /\ Trust(setting, reading, pc, icu, ground, cfg, null_dst, i, spoiled, m, S, d)
  BY GoingIs DEF Send
<1>2. PICK s, b : s = setting /\ b = Lossy(cfg, chunk)
  OBVIOUS
<1>3. /\ pc \in {"built", "compressed"} /\ pc' = "received" /\ pc \notin Received
      /\ icu' = NextModelOf(s, icu, cfg, b) /\ (spoiled' <=> spoiled /\ Mod(cfg))
      /\ spoiled' \in BOOLEAN
      /\ UNCHANGED <<setting, reading, ground, cfg, dst_size, read_bytes, info, ent, dcfg, i,
                     null_dst>>
  <2>1. spoiled' = (spoiled /\ Mod(cfg)) /\ spoiled \in BOOLEAN
    BY DEF Send, Mod, LinkInv, SidesInv
  <2> QED
    BY <1>2, <2>1, NextModelIs DEF Send, caller, Received
<1>4. s \in Settings /\ IsLossy(s, reading, cfg, b)
  BY <1>1, <1>2, <1>3, LossyChunk, SettingChunk DEF SenderInv
<1>5. /\ Stage(s, reading, "received", cfg, dst_size, read_bytes, info, ent, m, S, d, q)
      /\ d = Count(s)
  BY <1>1, <1>2, <1>3, StageStays
<1>6. Before(s, reading, cfg, icu, ground, m, S, Count(s), spoiled)
  BY <1>1, <1>2, <1>3, <1>5 DEF Trust
<1>7. /\ Side(s, icu) /\ IsIcu(icu) /\ Side(s, ground) /\ IsGround(ground)
      /\ IsBuffer(s, ground.data) /\ spoiled \in BOOLEAN /\ null_dst \in BOOLEAN /\ i = 0
  BY <1>2, <1>3 DEF LinkInv, SidesInv, Sides, FlowInv
<1>8. /\ After(s, reading, cfg, icu', ground, m, S, {}, spoiled /\ Mod(cfg)) /\ Side(s, icu')
      /\ IsIcu(icu')
  BY <1>3, <1>4, <1>6, <1>7, AfterFirst
<1>9. After(s, reading, cfg, icu', ground, m, S, {}, spoiled')
  BY <1>3, <1>8 DEF After
<1>10. Trust(s, reading, "received", icu', ground, cfg, null_dst, i, spoiled', m, S, d)
  <2>1. DoneOf(s, "received", null_dst, i) = {}
    BY <1>7 DEF DoneOf
  <2> QED
    BY <1>9, <2>1 DEF Trust, Received
<1>11. GoingInv'
  <2>1. Going(s, reading, "received", icu', ground, cfg, dst_size, read_bytes, info, ent,
              null_dst, i, spoiled')
    BY <1>5, <1>10, Zenon DEF Going
  <2> QED
    BY <1>2, <1>3, <2>1 DEF GoingInv
<1>12. SidesInv' /\ IdleInv'
  BY <1>2, <1>3, <1>7, <1>8 DEF SidesInv, Sides, IdleInv
<1>13. FlowInv'
  <2>1. 0 \in 0 .. Count(s)
    BY <1>4, Layout
  <2> QED
    BY <1>2, <1>3, <1>7, <2>1 DEF FlowInv, Flow, Received
<1> QED
  BY <1>11, <1>12, <1>13 DEF LinkInv

-----------------------------------------------------------------------------
(* The decompressor reads the header *)

\* The configuration is what the getters find.
LEMMA EntityCfgIs ==
  ASSUME NEW h
  PROVE  /\ EntityCfg(h).cmp_mode = cmp_ent_get_cmp_mode(h)
         /\ EntityCfg(h).model_value = cmp_ent_get_model_value(h)
         /\ EntityCfg(h).round = cmp_ent_get_lossy_cmp_par(h)
         /\ cmp_ent_get_cmp_mode(h) # CMP_MODE_RAW /\ cmp_ent_get_data_type(h) = "chunk" =>
              \A k \in Pair : /\ EntityCfg(h).par[k] = cmp_ent_get_non_ima_cmp_par(h, k)
                              /\ EntityCfg(h).spill[k] = cmp_ent_get_non_ima_spill(h, k)
         /\ cmp_ent_get_cmp_mode(h) # CMP_MODE_RAW /\ cmp_ent_get_data_type(h) # "chunk" =>
              /\ EntityCfg(h).par[IMAGETTE] = cmp_ent_get_ima_golomb_par(h)
              /\ EntityCfg(h).spill[IMAGETTE] = cmp_ent_get_ima_spill(h)
<1>1. PICK mode, value, round, type :
        /\ mode = cmp_ent_get_cmp_mode(h) /\ value = cmp_ent_get_model_value(h)
        /\ round = cmp_ent_get_lossy_cmp_par(h) /\ type = cmp_ent_get_data_type(h)
  OBVIOUS
<1>2. PICK c : c = [ZeroCfg EXCEPT !.cmp_mode = mode, !.model_value = value, !.round = round]
  OBVIOUS
<1>3. /\ c.cmp_mode = mode /\ c.model_value = value /\ c.round = round
      /\ DOMAIN c = {"cmp_mode", "model_value", "round", "par", "spill"}
      /\ c.par = [k \in Pair |-> 0] /\ c.spill = [k \in Pair |-> 0]
  BY <1>2 DEF ZeroCfg
<1>4. PICK d : d = [c EXCEPT !.par = [k \in Pair |-> cmp_ent_get_non_ima_cmp_par(h, k)],
                             !.spill = [k \in Pair |-> cmp_ent_get_non_ima_spill(h, k)]]
  OBVIOUS
<1>5. PICK e : e = [c EXCEPT !.par[IMAGETTE] = cmp_ent_get_ima_golomb_par(h),
                             !.spill[IMAGETTE] = cmp_ent_get_ima_spill(h)]
  OBVIOUS
<1>6. EntityCfg(h) = IF mode = CMP_MODE_RAW THEN c ELSE IF type = "chunk" THEN d ELSE e
  BY <1>1, <1>2, <1>3, <1>4, <1>5 DEF EntityCfg
<1>7. /\ d.cmp_mode = mode /\ d.model_value = value /\ d.round = round
      /\ \A k \in Pair : /\ d.par[k] = cmp_ent_get_non_ima_cmp_par(h, k)
                         /\ d.spill[k] = cmp_ent_get_non_ima_spill(h, k)
  BY <1>3, <1>4
<1>8. /\ e.cmp_mode = mode /\ e.model_value = value /\ e.round = round
      /\ e.par[IMAGETTE] = cmp_ent_get_ima_golomb_par(h)
      /\ e.spill[IMAGETTE] = cmp_ent_get_ima_spill(h)
  <2>1. IMAGETTE \in Pair
    BY DEF IMAGETTE, Pair
  <2> QED
    BY <1>3, <1>5, <2>1
<1> QED
  BY <1>1, <1>3, <1>6, <1>7, <1>8

\* The pairs that are checked for a type are pairs.
LEMMA CheckedPairs ==
  ASSUME NEW t \in Types
  PROVE  CheckedPars(t) \subseteq Pair /\ CheckedPars("imagette") = {IMAGETTE}
<1>1. NeededPars(t) \subseteq Pair /\ AuxPars(t) \subseteq Pair /\ IMAGETTE \in Pair
  BY DEF NeededPars, AuxPars, Pair, IMAGETTE, EXP_FLAGS, FX, OFFSET_MEAN, NCOB, OFFSET_VARIANCE,
         EFX, AUX_MEAN, ECOB, AUX_VARIANCE, FX_COB_VARIANCE, PIXELS_ERROR
<1>2. "imagette" \in imagettes
  BY DEF imagettes
<1> QED
  BY <1>1, <1>2 DEF CheckedPars

\* The decompressor accepts the header of a chunk and reads the sender's parameters.
LEMMA ChunkTaken ==
  ASSUME NEW s \in Settings, ~ s.rdcu, NEW c, Cfg(c), GenericValid(c), NEW size \in Nat, NEW h,
         NEW st, ChunkHeaderOf(s, c, size, h, st), NEW stream \in Nat,
         size = HeadOf(c) + stream, stream >= FieldOf(c) + 12, IsRaw(c) => stream = SizeOf(s)
  PROVE  /\ HeaderValid(h) /\ cmp_ent_get_data_type(h) = "chunk"
         /\ cmp_ent_get_cmp_data_size(h) = stream /\ cmp_ent_get_original_size(h) = SizeOf(s)
         /\ EntityCfg(h).cmp_mode = c.cmp_mode /\ DecoderCfg(s, c, EntityCfg(h))
<1>1. /\ cmp_ent_get_data_type(h) = "chunk" /\ cmp_ent_get_data_type_raw_bit(h) = IsRaw(c)
  <2>1. Get(h, 22, 2) = Stored("chunk", IsRaw(c)) /\ IsRaw(c) \in BOOLEAN
    BY DEF ChunkHeaderOf, IsRaw
  <2> QED
    BY <2>1, TypeRead, ChunkNumber
<1>2. /\ cmp_ent_get_size(h) = size /\ cmp_ent_get_original_size(h) = SizeOf(s)
      /\ cmp_ent_get_cmp_mode(h) = c.cmp_mode /\ cmp_ent_get_model_value(h) = c.model_value
      /\ cmp_ent_get_lossy_cmp_par(h) = c.round
  BY DEF ChunkHeaderOf, cmp_ent_get_size, cmp_ent_get_original_size, cmp_ent_get_cmp_mode,
         cmp_ent_get_model_value, cmp_ent_get_lossy_cmp_par
<1>3. ASSUME ~ IsRaw(c), NEW k \in Pair
      PROVE  /\ cmp_ent_get_non_ima_cmp_par(h, k) = c.par[k]
             /\ cmp_ent_get_non_ima_spill(h, k) = c.spill[k]
  BY <1>3 DEF ChunkHeaderOf, cmp_ent_get_non_ima_cmp_par, cmp_ent_get_non_ima_spill, SpillAt, ParAt
<1>4. PICK dc : dc = EntityCfg(h)
  OBVIOUS
<1>5. /\ dc.cmp_mode = c.cmp_mode /\ dc.model_value = c.model_value /\ dc.round = c.round
      /\ ~ IsRaw(c) => \A k \in Pair : dc.par[k] = c.par[k] /\ dc.spill[k] = c.spill[k]
  BY <1>1, <1>2, <1>3, <1>4, EntityCfgIs DEF IsRaw
<1>6. DecoderCfg(s, c, dc)
  <2>1. \A k \in 1 .. Count(s) : CheckedPars(TypeOf(s, k)) \subseteq Pair
    BY Layout, CheckedPairs
  <2> QED
    BY <1>5, <2>1 DEF DecoderCfg, Alike
<1>7. cmp_ent_get_hdr_size(h) = HeadOf(c) /\ HeadOf(c) \in Nat
  BY <1>1, SizesAre DEF cmp_ent_get_hdr_size, cmp_ent_cal_hdr_size, HeadOf, ap_imagettes, imagettes
<1>8. cmp_ent_get_cmp_data_size(h) = stream
  BY <1>2, <1>7 DEF cmp_ent_get_cmp_data_size
<1>9. SizeOf(s) >= 12 /\ SizeOf(s) \in Nat
  <2>1. /\ 1 \in 1 .. Count(s) /\ Count(s) + 1 \in 1 + 1 .. Count(s) + 1 /\ Count(s) \in Nat
        /\ LengthOf(s, 1) \in Nat
    BY Layout
  <2>2. /\ Offsets(s)[1] \in Nat /\ Offsets(s)[Count(s) + 1] \in Nat
        /\ Offsets(s)[1] + HeaderOf(s) + LengthOf(s, 1) <= Offsets(s)[Count(s) + 1]
    BY <2>1, OffsetsGrow
  <2>3. HeaderOf(s) = 12
    BY SizesAre DEF HeaderOf
  <2> QED
    BY <2>1, <2>2, <2>3 DEF SizeOf
<1>10. GenericValid(dc)
  BY <1>5 DEF GenericValid
<1>11. cmp_ent_cal_hdr_size("chunk", IsRaw(c)) = HeadOf(c)
  BY <1>1, <1>7 DEF cmp_ent_get_hdr_size
<1>12. HeaderValid(h)
  <2>1. 12 + (IF IsRaw(c) THEN 0 ELSE CMP_COLLECTION_FILD_SIZE) <= stream
    BY DEF FieldOf, CMP_COLLECTION_FILD_SIZE
  <2>2. /\ "chunk" \in imagettes \cup {"chunk"}
        /\ cmp_ent_get_data_type_raw_bit(h) = (cmp_ent_get_cmp_mode(h) = CMP_MODE_RAW)
        /\ GenericValid(EntityCfg(h))
        /\ cmp_ent_get_original_size(h) >= COLLECTION_HDR_SIZE
        /\ cmp_ent_get_cmp_data_size(h) >=
             COLLECTION_HDR_SIZE + (IF cmp_ent_get_cmp_mode(h) = CMP_MODE_RAW THEN 0
                                    ELSE CMP_COLLECTION_FILD_SIZE)
    BY <1>1, <1>2, <1>4, <1>8, <1>9, <1>10, <2>1, SizesAre DEF IsRaw
  <2>3. IF cmp_ent_get_cmp_mode(h) = CMP_MODE_RAW
        THEN cmp_ent_get_original_size(h) = cmp_ent_get_cmp_data_size(h)
        ELSE cmp_ent_cal_hdr_size("chunk", cmp_ent_get_cmp_mode(h) = CMP_MODE_RAW)
               <= cmp_ent_get_size(h)
    <3>1. CASE IsRaw(c)
      BY <1>2, <1>8, <3>1 DEF IsRaw
    <3>2. CASE ~ IsRaw(c)
      <4>1. cmp_ent_cal_hdr_size("chunk", cmp_ent_get_cmp_mode(h) = CMP_MODE_RAW) = HeadOf(c)
        BY <1>2, <1>11 DEF IsRaw
      <4> QED
        BY <1>2, <1>7, <3>2, <4>1 DEF IsRaw
    <3> QED
      BY <3>1, <3>2
  <2> QED
    BY <1>1, <2>2, <2>3 DEF HeaderValid
<1> QED
  BY <1>1, <1>2, <1>4, <1>5, <1>6, <1>8, <1>12

\* The configuration in the info of an RDCU compression.
LEMMA InfoCfgIs ==
  ASSUME NEW s \in Settings, s.rdcu, NEW c, Cfg(c), GenericValid(c), NEW inf, InfoOf(s, c, inf)
  PROVE  /\ inf.cfg.cmp_mode = c.cmp_mode /\ inf.cfg.round = c.round
         /\ Mod(c) => inf.cfg.model_value = c.model_value
         /\ inf.cfg.par = c.par /\ inf.cfg.spill = c.spill
         /\ DecoderCfg(s, c, inf.cfg) /\ GenericValid(inf.cfg)
<1>1. PICK v, u : v = c.model_value % 256 /\ u = c.round % 256
  OBVIOUS
<1>2. inf.cfg = [c EXCEPT !.model_value = v, !.round = u]
  BY <1>1 DEF InfoOf
<1>3. DOMAIN c = {"cmp_mode", "model_value", "round", "par", "spill"}
  BY DEF InfoOf, RdcuCfg
<1>4. /\ inf.cfg.cmp_mode = c.cmp_mode /\ inf.cfg.round = u /\ inf.cfg.model_value = v
      /\ inf.cfg.par = c.par /\ inf.cfg.spill = c.spill
  BY <1>2, <1>3
<1>5. u = c.round /\ (Mod(c) => v = c.model_value)
  <2>1. c.round \in 0 .. 3 /\ c.model_value \in Nat
    BY DEF Cfg, GenericValid, MAX_ICU_ROUND
  <2>2. Mod(c) => c.model_value <= 16
    BY DEF Mod, GenericValid, MAX_MODEL_VALUE
  <2> QED
    BY <1>1, <2>1, <2>2
<1>6. DecoderCfg(s, c, inf.cfg)
  BY <1>4, <1>5 DEF DecoderCfg, Alike
<1>7. GenericValid(inf.cfg)
  BY <1>4, <1>5 DEF GenericValid, Mod
<1> QED
  BY <1>4, <1>5, <1>6, <1>7

\* The size of an RDCU input.
LEMMA InputSize ==
  ASSUME NEW s \in Settings, s.rdcu
  PROVE  /\ SizeOf(s) = 2 * s.layout[1].n /\ s.layout[1].n \in Nat
         /\ BitToByte(8 * SizeOf(s)) = SizeOf(s) /\ TypeOf(s, 1) = "imagette"
<1>1. /\ Count(s) = 1 /\ 1 \in 1 .. Count(s) /\ s.layout[1].n \in Nat
      /\ TypeOf(s, 1) = "imagette" /\ HeaderOf(s) = 0
  BY Layout DEF TypeOf, HeaderOf
<1>2. size_of_a_sample("imagette") = 2
  BY DEF size_of_a_sample, imagettes
<1>3. LengthOf(s, 1) = s.layout[1].n * 2
  BY <1>1, <1>2 DEF LengthOf
<1>4. Offsets(s)[1] = 0 /\ Offsets(s)[1 + 1] = Offsets(s)[1] + HeaderOf(s) + LengthOf(s, 1)
  BY <1>1, OffsetsExist DEF IsOffsets
<1>5. SizeOf(s) = 2 * s.layout[1].n
  BY <1>1, <1>3, <1>4 DEF SizeOf
<1>6. BitToByte(8 * SizeOf(s)) = SizeOf(s)
  <2>1. PICK z \in Nat : z = SizeOf(s)
    BY <1>1, <1>5
  <2>2. (z * 8 + 7) \div 8 = z
    BY DivModUnique
  <2> QED
    BY <2>1, <2>2 DEF BitToByte
<1> QED
  BY <1>1, <1>5, <1>6

\* The same for the header of an RDCU entity.
LEMMA RdcuTaken ==
  ASSUME NEW s \in Settings, s.rdcu, NEW c, Cfg(c), GenericValid(c), NEW inf, InfoOf(s, c, inf),
         IsRaw(c) => inf.cmp_size = 8 * SizeOf(s),
         NEW h, NEW t \in imagettes, NEW id, RdcuHeaderOf(inf, h, t, id)
  PROVE  /\ HeaderValid(h) /\ cmp_ent_get_data_type(h) # "chunk"
         /\ cmp_ent_get_original_size(h) \div 2 = s.layout[1].n
         /\ EntityCfg(h).cmp_mode = c.cmp_mode /\ DecoderCfg(s, c, EntityCfg(h))
<1>1. PICK raw \in BOOLEAN : raw = IsRaw(inf.cfg)
  BY DEF IsRaw
<1>2. PICK bytes \in Nat : bytes = BitToByte(inf.cmp_size)
  <2>1. inf.cmp_size \in Nat
    BY DEF InfoOf
  <2> QED
    BY <2>1, Division DEF BitToByte
<1>3. PICK head : head = cmp_ent_cal_hdr_size(t, raw)
  OBVIOUS
<1>4. head \in Nat /\ (raw => head = 32)
  BY <1>3, ImagetteHeaderSize
<1>5. /\ inf.cfg.cmp_mode = c.cmp_mode /\ inf.cfg.round = c.round
      /\ Mod(c) => inf.cfg.model_value = c.model_value
      /\ inf.cfg.par = c.par /\ inf.cfg.spill = c.spill /\ GenericValid(inf.cfg)
      /\ (raw <=> IsRaw(c))
  <2>1. /\ inf.cfg.cmp_mode = c.cmp_mode /\ inf.cfg.round = c.round
        /\ Mod(c) => inf.cfg.model_value = c.model_value
        /\ inf.cfg.par = c.par /\ inf.cfg.spill = c.spill /\ GenericValid(inf.cfg)
    BY InfoCfgIs
  <2> QED
    BY <1>1, <2>1 DEF IsRaw
<1>6. cmp_ent_get_data_type(h) = t /\ cmp_ent_get_data_type_raw_bit(h) = raw
  <2>1. Get(h, 22, 2) = Stored(t, IsRaw(inf.cfg))
    BY Zenon DEF RdcuHeaderOf
  <2>2. Get(h, 22, 2) = Stored(t, raw)
    BY <1>1, <2>1, Zenon
  <2> QED
    BY <2>2, TypeRead, ImagetteNumber
<1>7. t # "chunk"
  BY DEF imagettes, ap_imagettes
<1>8. /\ cmp_ent_get_size(h) = head + bytes /\ cmp_ent_get_original_size(h) = 2 * inf.samples
      /\ cmp_ent_get_cmp_mode(h) = c.cmp_mode
      /\ cmp_ent_get_model_value(h) = inf.cfg.model_value
      /\ cmp_ent_get_lossy_cmp_par(h) = c.round
  <2>1. /\ Get(h, 4, 3) = cmp_ent_cal_hdr_size(t, IsRaw(inf.cfg)) + BitToByte(inf.cmp_size)
        /\ Get(h, 7, 3) = 2 * inf.samples /\ Get(h, 24, 1) = inf.cfg.cmp_mode
        /\ Get(h, 25, 1) = inf.cfg.model_value /\ Get(h, 30, 2) = inf.cfg.round
    BY DEF RdcuHeaderOf
  <2>2. cmp_ent_cal_hdr_size(t, IsRaw(inf.cfg)) = head
    BY <1>1, <1>3, Zenon
  <2> QED
    BY <1>2, <1>5, <2>1, <2>2 DEF cmp_ent_get_size, cmp_ent_get_original_size,
       cmp_ent_get_cmp_mode, cmp_ent_get_model_value, cmp_ent_get_lossy_cmp_par
<1>9. ~ raw => /\ cmp_ent_get_ima_golomb_par(h) = c.par[IMAGETTE]
               /\ cmp_ent_get_ima_spill(h) = c.spill[IMAGETTE]
  BY <1>1, <1>5 DEF RdcuHeaderOf, cmp_ent_get_ima_golomb_par, cmp_ent_get_ima_spill
<1>10. PICK dc : dc = EntityCfg(h)
  OBVIOUS
<1>11. /\ dc.cmp_mode = c.cmp_mode /\ dc.model_value = inf.cfg.model_value /\ dc.round = c.round
       /\ ~ raw => dc.par[IMAGETTE] = c.par[IMAGETTE] /\ dc.spill[IMAGETTE] = c.spill[IMAGETTE]
  BY <1>5, <1>6, <1>7, <1>8, <1>9, <1>10, EntityCfgIs DEF IsRaw
<1>12. /\ Count(s) = 1 /\ TypeOf(s, 1) = "imagette" /\ s.layout[1].n \in Nat
       /\ SizeOf(s) = 2 * s.layout[1].n /\ BitToByte(8 * SizeOf(s)) = SizeOf(s)
       /\ inf.samples = s.layout[1].n
  BY InputSize, Layout DEF InfoOf
<1>13. DecoderCfg(s, c, dc)
  <2>1. CheckedPars("imagette") = {IMAGETTE}
    BY DEF CheckedPars, imagettes
  <2> QED
    BY <1>5, <1>11, <1>12, <2>1 DEF DecoderCfg, Alike
<1>14. GenericValid(dc)
  BY <1>5, <1>11 DEF GenericValid
<1>15. cmp_ent_get_cmp_data_size(h) = bytes
  <2>1. cmp_ent_get_hdr_size(h) = head
    BY <1>3, <1>6 DEF cmp_ent_get_hdr_size
  <2> QED
    BY <1>4, <1>8, <2>1 DEF cmp_ent_get_cmp_data_size
<1>16. HeaderValid(h)
  <2>1. (cmp_ent_get_cmp_mode(h) = CMP_MODE_RAW) = raw
    BY <1>5, <1>8 DEF IsRaw
  <2>2. /\ t \in imagettes \cup {"chunk"}
        /\ cmp_ent_get_data_type_raw_bit(h) = (cmp_ent_get_cmp_mode(h) = CMP_MODE_RAW)
        /\ GenericValid(EntityCfg(h)) /\ cmp_ent_get_original_size(h) % 2 = 0
    BY <1>6, <1>8, <1>10, <1>12, <1>14, <2>1
  <2>3. IF raw THEN cmp_ent_get_original_size(h) = cmp_ent_get_cmp_data_size(h)
        ELSE cmp_ent_cal_hdr_size(t, raw) <= cmp_ent_get_size(h)
    BY <1>2, <1>3, <1>4, <1>5, <1>8, <1>12, <1>15
  <2> QED
    BY <1>6, <1>7, <2>1, <2>2, <2>3 DEF HeaderValid
<1> QED
  BY <1>6, <1>7, <1>8, <1>10, <1>11, <1>12, <1>13, <1>16

-----------------------------------------------------------------------------
(* The decompressor finds its way through the entity *)

Spot(p, o) == [p |-> p, o |-> o]
Walk(body, before) ==
  IF before.p \notin DOMAIN body THEN before
  ELSE Spot(before.p + get_cmp_collection_size(body[before.p]),
            before.o + COLLECTION_HDR_SIZE + body[before.p].hdr.len)

\* The parts of a place.
LEMMA SpotIs ==
  ASSUME NEW p, NEW o PROVE Spot(p, o).p = p /\ Spot(p, o).o = o
BY DEF Spot

\* What the decompressor needs to know of a collection in the entity.
LEMMA PieceIs ==
  ASSUME NEW s \in Settings, ~ s.rdcu, NEW r, NEW c, NEW b, NEW m, NEW S, NEW q,
         BodyOk(s, r, c, b, m, S, Count(s), q), NEW k \in 1 .. Count(s)
  PROVE  /\ q[k] \in DOMAIN b /\ q[k] \in Nat /\ q[k + 1] \in Nat /\ k + 1 \in 1 .. Count(s) + 1
         /\ PieceOk(s, r, c, m[k], k \in S, k, b[q[k]]) /\ b[q[k]].hdr = HdrOf(s, r, k)
         /\ b[q[k]].hdr.len = LengthOf(s, k) /\ b[q[k]].hdr.sub = s.layout[k].sub
         /\ b[q[k]].size \in 0 .. LengthOf(s, k)
         /\ q[k + 1] = q[k] + FieldOf(c) + COLLECTION_HDR_SIZE + b[q[k]].size
<1>1. k + 1 \in 1 .. Count(s) + 1 /\ k \in 1 .. Count(s) + 1 /\ Count(s) \in Nat
  BY Layout
<1>2. /\ q[k] \in DOMAIN b /\ q[k] \in Nat /\ q[k + 1] \in Nat
      /\ PieceOk(s, r, c, m[k], k \in S, k, b[q[k]])
      /\ q[k + 1] = q[k] + FieldOf(c) + COLLECTION_HDR_SIZE + b[q[k]].size
  BY <1>1 DEF BodyOk
<1>3. b[q[k]].hdr = HdrOf(s, r, k) /\ b[q[k]].size \in 0 .. LengthOf(s, k)
  BY <1>2 DEF PieceOk
<1>4. HdrOf(s, r, k) = [sub |-> s.layout[k].sub, len |-> LengthOf(s, k), tag |-> r]
  BY DEF HdrOf
<1>5. HdrOf(s, r, k).len = LengthOf(s, k) /\ HdrOf(s, r, k).sub = s.layout[k].sub
  BY <1>4
<1> QED
  BY <1>1, <1>2, <1>3, <1>5

\* Walking from a collection leads to the next one.
LEMMA WalkIs ==
  ASSUME NEW s \in Settings, ~ s.rdcu, NEW r, NEW c, ~ IsRaw(c), NEW b, NEW m, NEW S, NEW q,
         BodyOk(s, r, c, b, m, S, Count(s), q), NEW k \in 1 .. Count(s)
  PROVE  Walk(b, Spot(q[k], Offsets(s)[k])) = Spot(q[k + 1], Offsets(s)[k + 1])
<1>1. /\ q[k] \in DOMAIN b /\ q[k] \in Nat /\ q[k + 1] \in Nat
      /\ b[q[k]].hdr.len = LengthOf(s, k) /\ b[q[k]].size \in 0 .. LengthOf(s, k)
      /\ q[k + 1] = q[k] + FieldOf(c) + COLLECTION_HDR_SIZE + b[q[k]].size
  BY PieceIs
<1>2. /\ Offsets(s)[k + 1] = Offsets(s)[k] + HeaderOf(s) + LengthOf(s, k)
      /\ HeaderOf(s) = COLLECTION_HDR_SIZE
  BY OffsetsExist DEF IsOffsets, HeaderOf
<1>3. q[k] + get_cmp_collection_size(b[q[k]]) = q[k + 1]
  <2>1. LengthOf(s, k) \in Nat
    BY Layout
  <2>2. b[q[k]].size \in Nat /\ COLLECTION_HDR_SIZE \in Nat
    BY <1>1, <2>1, SizesAre
  <2> QED
    BY <1>1, <2>2 DEF get_cmp_collection_size, FieldOf, CMP_COLLECTION_FILD_SIZE
<1>4. Offsets(s)[k] + COLLECTION_HDR_SIZE + b[q[k]].hdr.len = Offsets(s)[k + 1]
  BY <1>1, <1>2
<1> QED
  BY <1>1, <1>3, <1>4, SpotIs DEF Walk

\* The decompressor finds each collection where the compressor put it.
LEMMA PlaceIs ==
  ASSUME NEW s \in Settings, ~ s.rdcu, NEW r, NEW c, ~ IsRaw(c), NEW m, NEW S, NEW q,
         BodyOk(s, r, c, ent.body, m, S, Count(s), q), NEW l \in 0 .. Count(s)
  PROVE  Place(l) = Spot(q[l + 1], Offsets(s)[l + 1])
<1> DEFINE Rec(g) == g = [x \in 0 .. l |-> IF x = 0 THEN Spot(0, 0) ELSE Walk(ent.body, g[x - 1])]
           first == [x \in 0 .. l |-> Spot(q[x + 1], Offsets(s)[x + 1])]
<1>1. Count(s) \in Nat /\ l \in Nat /\ q[1] = 0 /\ Offsets(s)[1] = 0
  BY OffsetsExist, Layout DEF IsOffsets, BodyOk
<1>2. \A x \in 0 .. l : first[x] = Spot(q[x + 1], Offsets(s)[x + 1])
  OBVIOUS
<1>3. first[0] = Spot(0, 0)
  <2>1. PICK z \in Nat : z = 0 /\ z + 1 = 1
    OBVIOUS
  <2>2. z \in 0 .. l
    BY <1>1, <2>1
  <2>3. first[z] = Spot(q[z + 1], Offsets(s)[z + 1])
    BY <1>2, <2>2
  <2> QED
    BY <1>1, <2>1, <2>3
<1>4. ASSUME NEW x \in 1 .. l
      PROVE  first[x] = Walk(ent.body, first[x - 1])
  <2>1. PICK y \in 1 .. Count(s) : y = x
    BY <1>1
  <2>2. x - 1 \in 0 .. l /\ x \in 0 .. l /\ (x - 1) + 1 = y /\ x + 1 = y + 1
    BY <1>1, <2>1
  <2>3. first[x] = Spot(q[y + 1], Offsets(s)[y + 1]) /\ first[x - 1] = Spot(q[y], Offsets(s)[y])
    BY <1>2, <2>2
  <2>4. Walk(ent.body, Spot(q[y], Offsets(s)[y])) = Spot(q[y + 1], Offsets(s)[y + 1])
    BY WalkIs
  <2> QED
    BY <2>3, <2>4
<1> HIDE DEF first
<1>5. Rec(first)
  <2>1. DOMAIN first = 0 .. l /\ first = [x \in 0 .. l |-> first[x]]
    BY DEF first
  <2>2. ASSUME NEW x \in 0 .. l
        PROVE  first[x] = IF x = 0 THEN Spot(0, 0) ELSE Walk(ent.body, first[x - 1])
    <3>1. x = 0 \/ x \in 1 .. l
      BY <1>1
    <3> QED
      BY <1>3, <1>4, <3>1
  <2> QED
    BY <2>1, <2>2
<1>6. ASSUME NEW g, Rec(g) PROVE g[l] = first[l]
  <2> DEFINE T == {x \in Nat : x <= l => g[x] = first[x]}
  <2>1. 0 \in T
    <3>1. 0 \in 0 .. l
      BY <1>1
    <3> QED
      BY <1>3, <1>6, <3>1
  <2>2. ASSUME NEW x \in T PROVE x + 1 \in T
    <3> SUFFICES ASSUME x + 1 <= l PROVE g[x + 1] = first[x + 1]
      OBVIOUS
    <3>1. x \in Nat /\ x + 1 \in 1 .. l /\ (x + 1) - 1 = x /\ x + 1 \in 0 .. l /\ x + 1 # 0
      BY <1>1
    <3>2. g[x] = first[x]
      BY <1>1, <3>1
    <3>3. g[x + 1] = Walk(ent.body, g[x])
      BY <1>6, <3>1
    <3> QED
      BY <1>4, <3>1, <3>2, <3>3
  <2>3. T = Nat
    <3> HIDE DEF T
    <3>1. T \in SUBSET Nat
      BY DEF T
    <3> QED
      BY <2>1, <2>2, <3>1, Induction
  <2> QED
    BY <1>1, <2>3
<1>7. Rec(CHOOSE g : Rec(g))
  BY <1>5
<1>8. Place(l) = (CHOOSE g : Rec(g))[l]
  BY DEF Place, Walk, Spot
<1>9. first[l] = Spot(q[l + 1], Offsets(s)[l + 1])
  BY <1>1, <1>2 DEF first
<1> QED
  BY <1>6, <1>7, <1>8, <1>9

\* As many pieces as collections.
LEMMA PiecesCounted ==
  ASSUME NEW s \in Settings, NEW r, NEW c, NEW b, NEW m, NEW S, NEW q,
         BodyOk(s, r, c, b, m, S, Count(s), q)
  PROVE  Cardinality(DOMAIN b) = Count(s)
<1>1. Count(s) \in Nat /\ COLLECTION_HDR_SIZE = 12 /\ FieldOf(c) \in Nat
  BY Layout, SizesAre
<1>2. /\ \A k \in 1 .. Count(s) + 1 : q[k] \in Nat
      /\ DOMAIN b = {q[k] : k \in 1 .. Count(s)}
      /\ \A k \in 1 .. Count(s), l \in 1 .. Count(s) + 1 :
           k < l => q[k] + FieldOf(c) + COLLECTION_HDR_SIZE <= q[l]
  BY DEF BodyOk
<1>3. ASSUME NEW k \in 1 .. Count(s), NEW l \in 1 .. Count(s), k < l PROVE q[k] # q[l]
  <2>1. k \in 1 .. Count(s) + 1 /\ l \in 1 .. Count(s) + 1
    BY <1>1
  <2>2. q[k] \in Nat /\ q[l] \in Nat /\ q[k] + FieldOf(c) + COLLECTION_HDR_SIZE <= q[l]
    BY <1>2, <1>3, <2>1
  <2> QED
    BY <1>1, <2>2
<1>4. ASSUME NEW k \in 1 .. Count(s), NEW l \in 1 .. Count(s), q[k] = q[l] PROVE k = l
  <2>1. k < l \/ l < k \/ k = l
    BY <1>1
  <2> QED
    BY <1>3, <1>4, <2>1
<1> DEFINE f == [k \in 1 .. Count(s) |-> q[k]]
<1>5. f \in Bijection(1 .. Count(s), DOMAIN b)
  <2>1. f \in [1 .. Count(s) -> DOMAIN b]
    BY <1>2
  <2>2. \A k, l \in 1 .. Count(s) : f[k] = f[l] => k = l
    BY <1>4
  <2>3. \A y \in DOMAIN b : \E k \in 1 .. Count(s) : f[k] = y
    BY <1>2
  <2> QED
    BY <2>1, <2>2, <2>3 DEF Bijection, Injection, Surjection, IsInjective
<1>6. ExistsBijection(1 .. Count(s), DOMAIN b)
  BY <1>5 DEF ExistsBijection
<1> QED
  BY <1>1, <1>6, FS_CountingElements

\* get_num_of_chunks counts them.
LEMMA ChunksCounted ==
  ASSUME NEW s \in Settings, ~ s.rdcu, NEW r, NEW c, ~ IsRaw(c), NEW m, NEW S, NEW q,
         BodyOk(s, r, c, ent.body, m, S, Count(s), q),
         cmp_ent_get_cmp_data_size(ent.h) = q[Count(s) + 1]
  PROVE  get_num_of_chunks = Count(s)
<1> DEFINE size == cmp_ent_get_cmp_data_size(ent.h)
           over(l) == Place(l).p >= size - COLLECTION_HDR_SIZE
           most == Cardinality(DOMAIN ent.body)
<1>1. Count(s) \in Nat /\ Count(s) > 0 /\ COLLECTION_HDR_SIZE = 12 /\ FieldOf(c) = 2
  BY Layout, SizesAre DEF FieldOf, CMP_COLLECTION_FILD_SIZE
<1>2. most = Count(s)
  BY PiecesCounted
<1>3. ASSUME NEW l \in 0 .. Count(s) PROVE Place(l).p = q[l + 1]
  <2>1. Place(l) = Spot(q[l + 1], Offsets(s)[l + 1])
    BY PlaceIs
  <2> QED
    BY <2>1, SpotIs
<1>4. size = q[Count(s) + 1] /\ q[Count(s) + 1] \in Nat
  BY <1>1 DEF BodyOk
<1>5. over(Count(s)) /\ Place(Count(s)).p = size
  <2>1. Count(s) \in 0 .. Count(s)
    BY <1>1
  <2> QED
    BY <1>1, <1>3, <1>4, <2>1
<1>6. ASSUME NEW l \in 0 .. Count(s) - 1 PROVE ~ over(l)
  <2>1. /\ l \in 0 .. Count(s) /\ l + 1 \in 1 .. Count(s) /\ Count(s) + 1 \in 1 .. Count(s) + 1
        /\ l + 1 < Count(s) + 1 /\ l + 1 \in 1 .. Count(s) + 1
    BY <1>1
  <2>2. q[l + 1] \in Nat /\ q[l + 1] + FieldOf(c) + COLLECTION_HDR_SIZE <= q[Count(s) + 1]
    BY <2>1 DEF BodyOk
  <2>3. Place(l).p = q[l + 1]
    BY <1>3, <2>1
  <2> QED
    BY <1>1, <1>4, <2>2, <2>3
<1> HIDE DEF over, most
<1>7. ASSUME NEW x \in 0 .. most, over(x), \A y \in 0 .. x - 1 : ~ over(y)
      PROVE  x = most
  BY <1>1, <1>2, <1>6, <1>7
<1>8. most \in 0 .. most /\ over(most) /\ \A y \in 0 .. most - 1 : ~ over(y)
  BY <1>1, <1>2, <1>5, <1>6
<1>9. (CHOOSE x \in 0 .. most : over(x) /\ \A y \in 0 .. x - 1 : ~ over(y)) = most
  BY <1>7, <1>8
<1>10. get_num_of_chunks =
         IF ~ over(most) \/ Place(most).p # size THEN 0
         ELSE CHOOSE x \in 0 .. most : over(x) /\ \A y \in 0 .. x - 1 : ~ over(y)
  BY DEF get_num_of_chunks, over, most
<1> QED
  BY <1>2, <1>5, <1>9, <1>10

\* There is no collection before the first.
LEMMA EmptyRange == 1 .. 0 = {}
OBVIOUS

\* The decompressor begins.
LEMMA DecodingStarts ==
  ASSUME SenderInv, LinkInv, pc = "received", pc' \in {"chunk", "raw chunk", "rdcu", "rdcu data"},
         i' = 0, null_dst' \in BOOLEAN,
         UNCHANGED <<setting, reading, icu, ground, cfg, dst_size, read_bytes, info, ent, spoiled>>,
         Flow(setting, pc', cfg, ent, dcfg', null_dst', 0)
  PROVE  LinkInv'
<1>1. PICK s, p, x : s = setting /\ p = pc' /\ x = null_dst'
  OBVIOUS
<1>2. PICK m, S, d, q :
        /\ Stage(s, reading, pc, cfg, dst_size, read_bytes, info, ent, m, S, d, q)
        /\ Trust(s, reading, pc, icu, ground, cfg, null_dst, i, spoiled, m, S, d)
  BY <1>1, GoingIs
<1>3. pc \in Received /\ p \in Received /\ pc # "collections" /\ p # "collections" /\ pc # "decompressed"
      /\ p # "decompressed" /\ p # "idle"
  BY <1>1 DEF Received
<1>4. null_dst \in BOOLEAN /\ (null_dst \/ i = 0) /\ x \in BOOLEAN
  BY <1>1, <1>3 DEF LinkInv, SidesInv, FlowInv, Flow
<1>5. Stage(s, reading, p, cfg, dst_size, read_bytes, info, ent, m, S, d, q)
  BY <1>2, <1>3, StageStays
<1>6. DoneOf(s, pc, null_dst, i) = {} /\ DoneOf(s, p, x, 0) = {}
  <2> QED
    BY <1>3, <1>4, EmptyRange, Zenon DEF DoneOf
<1>7. Trust(s, reading, p, icu, ground, cfg, x, 0, spoiled, m, S, d)
  BY <1>2, <1>3, <1>6 DEF Trust
<1>8. GoingInv'
  <2>1. Going(s, reading, p, icu, ground, cfg, dst_size, read_bytes, info, ent, x, 0, spoiled)
    BY <1>5, <1>7, Zenon DEF Going
  <2> QED
    BY <1>1, <2>1 DEF GoingInv
<1>9. SidesInv' /\ IdleInv' /\ FlowInv'
  BY <1>1, <1>3 DEF LinkInv, SidesInv, IdleInv, FlowInv
<1> QED
  BY <1>8, <1>9 DEF LinkInv

\* The entity of a chunk as it is received.
LEMMA ChunkReceived ==
  ASSUME SenderInv, LinkInv, pc \in Received, ~ setting.rdcu
  PROVE  /\ ent # NoEntity /\ HeaderValid(ent.h) /\ cmp_ent_get_data_type(ent.h) = "chunk"
         /\ EntityCfg(ent.h).cmp_mode = cfg.cmp_mode
         /\ DecoderCfg(setting, cfg, EntityCfg(ent.h))
         /\ ~ IsRaw(cfg) => get_num_of_chunks = Count(setting)
         /\ cmp_ent_get_original_size(ent.h) = SizeOf(setting)
<1>1. PICK s, size, c, h : s = setting /\ size = dst_size /\ c = cfg /\ h = ent.h
  OBVIOUS
<1>2. pc # "idle" /\ pc # "collections"
  BY DEF Received
<1>3. PICK m, S, d, q :
        Stage(s, reading, pc, c, size, read_bytes, info, ent, m, S, d, q)
  BY <1>2, <1>1, GoingIs
<1>4. /\ d = Count(s) /\ BodyOk(s, reading, c, ent.body, m, S, Count(s), q)
      /\ size = HeadOf(c) + q[Count(s) + 1] /\ ent # NoEntity /\ Coding(s, c, m, S, Count(s))
  BY <1>2, <1>1, <1>3 DEF Stage
<1>5. s \in Settings /\ Count(s) \in Nat /\ Count(s) > 0 /\ Cfg(c)
  BY <1>1, SettingChunk, Layout DEF SenderInv, TypeInv
<1>6. ChunkHeaderOf(s, c, size, h, stamp) /\ size \in Nat
  BY <1>1, <1>4 DEF SenderInv, HeaderInv, HeaderOk, HeaderHolds, Received
<1>7. GenericValid(c)
  BY <1>4, <1>5 DEF Coding
<1>8. PICK stream \in Nat : stream = q[Count(s) + 1]
  BY <1>4, <1>5 DEF BodyOk
<1>9. stream >= FieldOf(c) + 12
  <2>1. 1 \in 1 .. Count(s) /\ Count(s) + 1 \in 1 .. Count(s) + 1 /\ 1 < Count(s) + 1
    BY <1>5
  <2>2. q[1] + FieldOf(c) + COLLECTION_HDR_SIZE <= q[Count(s) + 1] /\ q[1] = 0
    BY <1>4, <2>1 DEF BodyOk
  <2>3. FieldOf(c) \in Nat /\ COLLECTION_HDR_SIZE = 12
    BY SizesAre
  <2> QED
    BY <1>8, <2>2, <2>3
<1>10. IsRaw(c) => stream = SizeOf(s)
  <2>1. Count(s) + 1 \in 1 .. Count(s) + 1
    BY <1>5
  <2> QED
    BY <1>4, <1>8, <2>1 DEF BodyOk, SizeOf
<1>11. /\ HeaderValid(h) /\ cmp_ent_get_data_type(h) = "chunk"
       /\ cmp_ent_get_cmp_data_size(h) = stream /\ cmp_ent_get_original_size(h) = SizeOf(s)
       /\ EntityCfg(h).cmp_mode = c.cmp_mode /\ DecoderCfg(s, c, EntityCfg(h))
  <2>1. size = HeadOf(c) + stream
    BY <1>4, <1>8
  <2> QED
    BY <1>1, <1>5, <1>6, <1>7, <1>9, <1>10, <2>1, ChunkTaken
<1>12. ~ IsRaw(c) => get_num_of_chunks = Count(s)
  <2>1. cmp_ent_get_cmp_data_size(ent.h) = q[Count(s) + 1]
    BY <1>1, <1>8, <1>11
  <2> QED
    BY <1>1, <1>4, <1>5, <2>1, ChunksCounted
<1> QED
  BY <1>1, <1>4, <1>11, <1>12

\* What comes from the RDCU as it is received.
LEMMA RdcuReceived ==
  ASSUME SenderInv, LinkInv, pc \in Received, setting.rdcu
  PROVE  /\ info.cmp_err = 0 /\ DecoderCfg(setting, cfg, info.cfg)
         /\ info.samples = setting.layout[1].n
         /\ ent # NoEntity =>
              /\ HeaderValid(ent.h) /\ cmp_ent_get_data_type(ent.h) # "chunk"
              /\ cmp_ent_get_original_size(ent.h) \div 2 = setting.layout[1].n
              /\ DecoderCfg(setting, cfg, EntityCfg(ent.h))
<1>1. PICK s, c, h : s = setting /\ c = cfg /\ h = ent.h
  OBVIOUS
<1>2. pc # "idle" /\ pc # "collections"
  BY DEF Received
<1>3. PICK m, S, d, q :
        Stage(s, reading, pc, c, dst_size, read_bytes, info, ent, m, S, d, q)
  BY <1>2, <1>1, GoingIs
<1>4. d = Count(s) /\ StreamOk(s, reading, c, info, ent, m, S) /\ Coding(s, c, m, S, d)
  BY <1>2, <1>1, <1>3 DEF Stage
<1>5. s \in Settings /\ Count(s) > 0 /\ Cfg(c)
  BY <1>1, SettingChunk, Layout DEF SenderInv, TypeInv
<1>6. GenericValid(c)
  BY <1>4, <1>5 DEF Coding
<1>7. InfoOf(s, c, info) /\ info.samples = s.layout[1].n
  BY <1>2, <1>1 DEF SenderInv, InfoInv, InfoOk, InfoOf
<1>8. DecoderCfg(s, c, info.cfg)
  BY <1>1, <1>5, <1>6, <1>7, InfoCfgIs
<1>9. info.cmp_err = 0 /\ (IsRaw(c) => info.cmp_size = 8 * SizeOf(s))
  BY <1>4 DEF StreamOk
<1>10. ASSUME ent # NoEntity
       PROVE  /\ HeaderValid(h) /\ cmp_ent_get_data_type(h) # "chunk"
              /\ cmp_ent_get_original_size(h) \div 2 = s.layout[1].n
              /\ DecoderCfg(s, c, EntityCfg(h))
  <2>1. PICK t \in imagettes : RdcuHeaderOf(info, h, t, stamp.id)
    BY <1>1, <1>10 DEF SenderInv, HeaderInv, HeaderOk, HeaderHolds, Received
  <2> QED
    BY <1>1, <1>5, <1>6, <1>7, <1>9, <2>1, RdcuTaken
<1> QED
  BY <1>1, <1>7, <1>8, <1>9, <1>10

\* decompress_cmp_entiy accepts the entity and keeps the invariant.
LEMMA EntityStarts ==
  ASSUME SenderInv, LinkInv, NEW null \in BOOLEAN, decompress_cmp_entiy(null)
  PROVE  LinkInv'
<1>1. /\ pc = "received" /\ ent # NoEntity /\ null_dst' = null /\ i' = 0
      /\ dcfg' = EntityCfg(ent.h)
      /\ pc' = (IF ~ HeaderValid(ent.h) THEN "rejected"
                ELSE IF cmp_ent_get_data_type(ent.h) # "chunk" THEN "rdcu"
                ELSE IF dcfg'.cmp_mode = CMP_MODE_RAW THEN "raw chunk"
                ELSE IF get_num_of_chunks = 0 THEN "rejected" ELSE "chunk")
      /\ UNCHANGED <<setting, reading, icu, ground, cfg, dst_size, read_bytes, info, ent, spoiled>>
  BY DEF decompress_cmp_entiy, caller, sender, history
<1>2. setting \in Settings /\ Count(setting) \in Nat \ {0} /\ 0 \in 0 .. Count(setting)
  BY SettingChunk, Layout DEF SenderInv
<1>3. CASE ~ setting.rdcu
  <2>1. /\ HeaderValid(ent.h) /\ cmp_ent_get_data_type(ent.h) = "chunk"
        /\ dcfg'.cmp_mode = cfg.cmp_mode /\ DecoderCfg(setting, cfg, dcfg')
        /\ ~ IsRaw(cfg) => get_num_of_chunks = Count(setting)
    BY <1>1, <1>3, ChunkReceived DEF Received
  <2>2. pc' = IF IsRaw(cfg) THEN "raw chunk" ELSE "chunk"
    BY <1>1, <1>2, <2>1 DEF IsRaw
  <2>3. Flow(setting, pc', cfg, ent, dcfg', null_dst', 0)
    BY <1>2, <1>3, <2>1, <2>2 DEF Flow
  <2> QED
    BY <1>1, <2>2, <2>3, DecodingStarts
<1>4. CASE setting.rdcu
  <2>1. /\ HeaderValid(ent.h) /\ cmp_ent_get_data_type(ent.h) # "chunk"
        /\ DecoderCfg(setting, cfg, dcfg')
    BY <1>1, <1>4, RdcuReceived DEF Received
  <2>2. pc' = "rdcu"
    BY <1>1, <2>1
  <2>3. Flow(setting, pc', cfg, ent, dcfg', null_dst', 0)
    BY <1>1, <1>2, <1>4, <2>1, <2>2 DEF Flow
  <2> QED
    BY <1>1, <2>2, <2>3, DecodingStarts
<1> QED
  BY <1>3, <1>4

\* decompress_rdcu_data accepts the bitstream and keeps the invariant.
LEMMA DataStarts ==
  ASSUME SenderInv, LinkInv, NEW null \in BOOLEAN, decompress_rdcu_data(null)
  PROVE  LinkInv'
<1>1. /\ pc = "received" /\ ent = NoEntity /\ null_dst' = null /\ i' = 0 /\ dcfg' = info.cfg
      /\ pc' = (IF info.cmp_err # 0 THEN "rejected" ELSE "rdcu data")
      /\ UNCHANGED <<setting, reading, icu, ground, cfg, dst_size, read_bytes, info, ent, spoiled>>
  BY DEF decompress_rdcu_data, caller, sender, history
<1>2. setting \in Settings /\ 0 \in 0 .. Count(setting)
  BY SettingChunk, Layout DEF SenderInv
<1>3. setting.rdcu
  BY <1>1, ChunkReceived DEF Received
<1>4. info.cmp_err = 0 /\ DecoderCfg(setting, cfg, dcfg')
  BY <1>1, <1>3, RdcuReceived DEF Received
<1>5. pc' = "rdcu data"
  BY <1>1, <1>4
<1>6. Flow(setting, pc', cfg, ent, dcfg', null_dst', 0)
  BY <1>2, <1>3, <1>4, <1>5 DEF Flow
<1> QED
  BY <1>1, <1>5, <1>6, DecodingStarts

Decoding == {"chunk", "raw chunk", "rdcu", "rdcu data"}

\* A step of the decompressor on the ground's own memory.
LEMMA DecodingSteps ==
  ASSUME SenderInv, LinkInv, pc \in Decoding, pc' \in Received,
         UNCHANGED <<setting, reading, icu, cfg, dst_size, read_bytes, info, ent, dcfg, null_dst,
                     spoiled>>,
         NEW m, NEW S, NEW d, NEW q,
         Stage(setting, reading, pc, cfg, dst_size, read_bytes, info, ent, m, S, d, q),
         After(setting, reading, cfg, icu, ground', m, S, DoneOf(setting, pc', null_dst, i'), spoiled),
         IsGround(ground'), Side(setting, ground'), IsBuffer(setting, ground'.data),
         Flow(setting, pc', cfg, ent, dcfg, null_dst, i')
  PROVE  LinkInv'
<1>1. PICK s, p, x, g : s = setting /\ p = pc' /\ x = i' /\ g = ground'
  OBVIOUS
<1>2. pc # "collections" /\ p # "collections" /\ p # "idle" /\ p \in Received
  BY <1>1 DEF Received, Decoding
<1>3. Stage(s, reading, p, cfg, dst_size, read_bytes, info, ent, m, S, d, q)
  BY <1>1, <1>2, StageStays
<1>4. Trust(s, reading, p, icu, g, cfg, null_dst, x, spoiled, m, S, d)
  BY <1>1, <1>2 DEF Trust
<1>5. GoingInv'
  <2>1. Going(s, reading, p, icu, g, cfg, dst_size, read_bytes, info, ent, null_dst, x, spoiled)
    BY <1>3, <1>4, Zenon DEF Going
  <2> QED
    BY <1>1, <2>1 DEF GoingInv
<1>6. SidesInv' /\ IdleInv' /\ FlowInv'
  BY <1>1, <1>2 DEF LinkInv, SidesInv, Sides, IdleInv, FlowInv
<1> QED
  BY <1>5, <1>6 DEF LinkInv

\* Where the decompressor is after its last step.
LEMMA Returning ==
  ASSUME SenderInv, LinkInv, pc \in Decoding, Return
  PROVE  /\ pc' \in Received /\ null_dst \in BOOLEAN
         /\ Flow(setting, pc', cfg, ent, dcfg, null_dst, i)
         /\ DoneOf(setting, pc', null_dst, i) = IF null_dst THEN {} ELSE 1 .. Count(setting)
<1>1. pc \in Received /\ pc # "received"
  BY DEF Received, Decoding
<1>2. Flow(setting, pc, cfg, ent, dcfg, null_dst, i) /\ null_dst \in BOOLEAN
  BY <1>1 DEF LinkInv, FlowInv, SidesInv
<1>3. pc' = (IF null_dst THEN "received" ELSE "decompressed")
  BY DEF Return
<1>4. CASE null_dst
  <2>1. pc' = "received"
    BY <1>3, <1>4
  <2>2. DoneOf(setting, pc', null_dst, i) = {}
    BY <1>4, <2>1, Zenon DEF DoneOf
  <2>3. Flow(setting, pc', cfg, ent, dcfg, null_dst, i)
    BY <1>2, <1>4, <2>1 DEF Flow
  <2> QED
    BY <1>2, <1>4, <2>1, <2>2, <2>3 DEF Received
<1>5. CASE ~ null_dst
  <2>1. pc' = "decompressed"
    BY <1>3, <1>5
  <2>2. DoneOf(setting, pc', null_dst, i) = 1 .. Count(setting)
    BY <2>1, Zenon DEF DoneOf
  <2>3. Flow(setting, pc', cfg, ent, dcfg, null_dst, i)
    BY <1>1, <1>2, <2>1 DEF Flow
  <2> QED
    BY <1>2, <1>5, <2>1, <2>2, <2>3 DEF Received
<1> QED
  BY <1>2, <1>4, <1>5

\* What the ground has while it decompresses.
LEMMA DecodingIs ==
  ASSUME SenderInv, LinkInv, pc \in Decoding
  PROVE  /\ setting \in Settings /\ reading \in 1 .. MaxEntities + 1 /\ IsIcu(icu) /\ IsGround(ground)
         /\ Side(setting, ground) /\ IsBuffer(setting, ground.data) /\ null_dst \in BOOLEAN
         /\ Flow(setting, pc, cfg, ent, dcfg, null_dst, i) /\ DecoderCfg(setting, cfg, dcfg)
         /\ cfg.round \in 0 .. 3 /\ cfg.model_value \in Nat /\ GenericValid(cfg)
         /\ \E m, S, d, q :
              /\ Stage(setting, reading, pc, cfg, dst_size, read_bytes, info, ent, m, S, d, q)
              /\ d = Count(setting)
              /\ After(setting, reading, cfg, icu, ground, m, S,
                       DoneOf(setting, pc, null_dst, i), spoiled)
<1>1. pc \in Received /\ pc # "received" /\ pc # "collections"
  BY DEF Received, Decoding
<1>2. PICK m, S, d, q :
        /\ Stage(setting, reading, pc, cfg, dst_size, read_bytes, info, ent, m, S, d, q)
        /\ Trust(setting, reading, pc, icu, ground, cfg, null_dst, i, spoiled, m, S, d)
  BY <1>1, GoingIs DEF Received
<1>3. d = Count(setting)
  BY <1>1, <1>2, StageStays
<1>4. After(setting, reading, cfg, icu, ground, m, S, DoneOf(setting, pc, null_dst, i), spoiled)
  BY <1>1, <1>2 DEF Trust
<1>5. cfg.round \in 0 .. 3 /\ cfg.model_value \in Nat /\ GenericValid(cfg)
  BY <1>1, <1>2, LossyChunk
<1>6. Flow(setting, pc, cfg, ent, dcfg, null_dst, i) /\ DecoderCfg(setting, cfg, dcfg)
  BY <1>1 DEF LinkInv, FlowInv, Flow
<1>7. /\ setting \in Settings /\ reading \in 1 .. MaxEntities + 1 /\ IsIcu(icu) /\ IsGround(ground)
      /\ Side(setting, ground) /\ IsBuffer(setting, ground.data) /\ null_dst \in BOOLEAN
  BY SettingChunk DEF SenderInv, LinkInv, SidesInv, Sides
<1>8. \E m2, S2, d2, q2 :
        /\ Stage(setting, reading, pc, cfg, dst_size, read_bytes, info, ent, m2, S2, d2, q2)
        /\ d2 = Count(setting)
        /\ After(setting, reading, cfg, icu, ground, m2, S2,
                 DoneOf(setting, pc, null_dst, i), spoiled)
  BY <1>2, <1>3, <1>4, Zenon
<1> QED
  BY <1>5, <1>6, <1>7, <1>8

\* A stored collection is what the ground sees.
LEMMA StoredIs ==
  ASSUME NEW s \in Settings, NEW r \in 1 .. MaxEntities + 1, NEW c, c.round = 0 \/ IsRaw(c),
         NEW k \in 1 .. Count(s), NEW cpu, NEW x, x = DataOf(s, r, k)
  PROVE  /\ Converted(cpu, x, TypeOf(s, k)) = DataOf(s, r, k)
         /\ Seen(c, DataOf(s, r, k)) = DataOf(s, r, k) /\ DataOf(s, r, k) \in SamplesOf(s, k)
<1>1. PICK t, n, data : t = TypeOf(s, k) /\ n = s.layout[k].n /\ data = DataOf(s, r, k)
  OBVIOUS
<1>2. t \in Types /\ n \in Nat /\ data \in Samples(t, n)
  BY <1>1, Layout, DataTyped DEF SamplesOf
<1>3. Converted(cpu, data, t) = data
  BY <1>2, ConvertedIsThere
<1>4. Seen(c, data) = data
  <2>1. CASE c.round = 0
    BY <1>2, <2>1, Lossless DEF Seen
  <2>2. CASE IsRaw(c)
    BY <2>2 DEF Seen, IsRaw
  <2> QED
    BY <2>1, <2>2
<1> QED
  BY <1>1, <1>2, <1>3, <1>4 DEF SamplesOf

RawData(cpu, body) ==
  [o \in DOMAIN body |->
     [hdr |-> body[o].hdr,
      data |-> Converted(cpu, body[o].data,
                         convert_subservice_to_cmp_data_type(body[o].hdr.sub))]]

\* All collections of a chunk that is not compressed.
LEMMA RawDataIs ==
  ASSUME NEW s \in Settings, ~ s.rdcu, NEW r \in 1 .. MaxEntities + 1, NEW c, IsRaw(c),
         NEW b, NEW m, NEW S, NEW q, BodyOk(s, r, c, b, m, S, Count(s), q),
         1 .. Count(s) \subseteq S, NEW cpu
  PROVE  IsLossy(s, r, c, RawData(cpu, b))
<1>1. PICK w : w = RawData(cpu, b)
  OBVIOUS
<1>2. \A k \in 1 .. Count(s) : q[k] = Offsets(s)[k]
  <2>1. Count(s) \in Nat
    BY Layout
  <2> QED
    BY <2>1 DEF BodyOk
<1>3. DOMAIN b = Places(s)
  BY <1>2 DEF BodyOk, Places
<1>4. DOMAIN w = Places(s) /\ w = [o \in DOMAIN w |-> w[o]]
  BY <1>1, <1>3 DEF RawData
<1>5. ASSUME NEW k \in 1 .. Count(s)
      PROVE  /\ w[Offsets(s)[k]] = Column(HdrOf(s, r, k), Seen(c, DataOf(s, r, k)))
             /\ w[Offsets(s)[k]].data \in SamplesOf(s, k)
  <2>1. /\ q[k] \in DOMAIN b /\ b[q[k]].hdr = HdrOf(s, r, k) /\ b[q[k]].hdr.sub = s.layout[k].sub
        /\ PieceOk(s, r, c, m[k], k \in S, k, b[q[k]])
    BY PieceIs
  <2>2. PICK o, col : o = q[k] /\ col = b[q[k]]
    OBVIOUS
  <2>3. col.data = DataOf(s, r, k)
    BY <2>1, <2>2 DEF PieceOk, Content
  <2>4. convert_subservice_to_cmp_data_type(col.hdr.sub) = TypeOf(s, k)
    BY <2>1, <2>2 DEF TypeOf
  <2>5. PICK x : x = Converted(cpu, col.data, TypeOf(s, k))
    OBVIOUS
  <2>6. x = DataOf(s, r, k) /\ Seen(c, DataOf(s, r, k)) = DataOf(s, r, k)
        /\ DataOf(s, r, k) \in SamplesOf(s, k)
    BY <2>3, <2>5, StoredIs
  <2>7. w[o] = [hdr |-> col.hdr, data |-> x]
    BY <1>1, <2>1, <2>2, <2>4, <2>5 DEF RawData
  <2>8. o = Offsets(s)[k]
    BY <1>2, <2>2
  <2>9. w[o] = Column(HdrOf(s, r, k), x)
    BY <2>1, <2>2, <2>7 DEF Column
  <2> QED
    BY <2>6, <2>8, <2>9, ColIs
<1>6. IsBuffer(s, w)
  BY <1>4, <1>5 DEF IsBuffer
<1> QED
  BY <1>1, <1>4, <1>5, <1>6 DEF IsLossy

\* The model of a side is not used outside model mode.
LEMMA AfterRaw ==
  ASSUME NEW s \in Settings, NEW r, NEW c, ~ Mod(c), NEW a, NEW g, NEW m, NEW S, NEW spoilt,
         After(s, r, c, a, g, m, S, {}, spoilt), NEW h, IsLossy(s, r, c, h.data)
  PROVE  After(s, r, c, a, h, m, S, 1 .. Count(s), spoilt)
<1>1. ~ spoilt /\ IsLossy(s, r, c, a.model)
  BY DEF After
<1>2. \A k \in 1 .. Count(s) :
        /\ Offsets(s)[k] \in DOMAIN h.data
        /\ h.data[Offsets(s)[k]] = Column(HdrOf(s, r, k), Seen(c, DataOf(s, r, k)))
  BY PlacesIs DEF IsLossy
<1>3. TrustAfter(s, r, c, a, h, m, S, 1 .. Count(s))
  BY <1>2 DEF TrustAfter
<1> QED
  BY <1>1, <1>2, <1>3 DEF After

\* A raw chunk copied to the output keeps the invariant.
LEMMA RawLinks ==
  ASSUME SenderInv, LinkInv, RawChunk
  PROVE  LinkInv'
<1>1. /\ pc = "raw chunk" /\ pc \in Decoding /\ Return
      /\ ground' = [ground EXCEPT !.data =
                      IF null_dst THEN ground.data ELSE RawData(setting.ground, ent.body)]
      /\ UNCHANGED <<setting, reading, icu, cfg, dst_size, read_bytes, info, ent, dcfg, i,
                     null_dst, spoiled>>
  BY Zenon DEF RawChunk, RawData, Decoding, caller, sender, history
<1>2. PICK s, c, g : s = setting /\ c = cfg /\ g = ground
  OBVIOUS
<1>3. /\ s \in Settings /\ reading \in 1 .. MaxEntities + 1 /\ IsIcu(icu) /\ IsGround(g)
      /\ Side(s, g) /\ IsBuffer(s, g.data) /\ null_dst \in BOOLEAN
      /\ Flow(s, pc, c, ent, dcfg, null_dst, i)
  BY <1>1, <1>2, DecodingIs
<1>4. PICK m, S, d, q :
        /\ Stage(s, reading, pc, c, dst_size, read_bytes, info, ent, m, S, d, q)
        /\ d = Count(s)
        /\ After(s, reading, c, icu, g, m, S, DoneOf(s, pc, null_dst, i), spoiled)
  BY <1>1, <1>2, DecodingIs
<1>5. ~ s.rdcu /\ IsRaw(c) /\ i = 0
  BY <1>1, <1>3 DEF Flow
<1>6. DoneOf(s, pc, null_dst, i) = {}
  BY <1>1, <1>5, EmptyRange, Zenon DEF DoneOf
<1>7. PICK p : p = pc'
  OBVIOUS
<1>8. /\ p \in Received /\ Flow(s, p, c, ent, dcfg, null_dst, i)
      /\ DoneOf(s, p, null_dst, i) = IF null_dst THEN {} ELSE 1 .. Count(s)
  BY <1>1, <1>2, <1>7, Returning
<1>9. PICK h : h = ground'
  OBVIOUS
<1>10. /\ After(s, reading, c, icu, h, m, S, DoneOf(s, p, null_dst, i), spoiled)
       /\ IsGround(h) /\ Side(s, h) /\ IsBuffer(s, h.data)
  <2>1. CASE null_dst
    <3>1. h = g
      <4>1. h = [g EXCEPT !.data = g.data]
        BY <1>1, <1>2, <1>9, <2>1
      <4> QED
        BY <1>3, <4>1 DEF IsGround
    <3> QED
      BY <1>3, <1>4, <1>6, <1>8, <2>1, <3>1
  <2>2. CASE ~ null_dst
    <3>1. PICK w : w = RawData(setting.ground, ent.body)
      OBVIOUS
    <3>2. h = [g EXCEPT !.data = w]
      BY <1>1, <1>2, <1>9, <2>2, <3>1
    <3>3. h.data = w /\ h.model = g.model /\ h.updated = g.updated /\ IsGround(h)
      BY <1>3, <3>2 DEF IsGround
    <3>4. BodyOk(s, reading, c, ent.body, m, S, Count(s), q) /\ 1 .. Count(s) \subseteq S
      BY <1>4, <1>5 DEF Stage, Coding
    <3>5. IsLossy(s, reading, c, w)
      BY <1>3, <1>5, <3>1, <3>4, RawDataIs
    <3>6. ~ Mod(c)
      BY <1>5 DEF IsRaw, Mod, model_mode_is_used, CMP_MODE_RAW, CMP_MODE_MODEL_ZERO,
         CMP_MODE_MODEL_MULTI
    <3>7. After(s, reading, c, icu, h, m, S, 1 .. Count(s), spoiled)
      BY <1>3, <1>4, <1>6, <3>3, <3>5, <3>6, AfterRaw
    <3>8. Side(s, h) /\ IsBuffer(s, h.data)
      BY <1>3, <3>3, <3>5 DEF Side, IsLossy
    <3> QED
      BY <1>8, <2>2, <3>3, <3>7, <3>8
  <2> QED
    BY <1>3, <2>1, <2>2
<1> QED
  BY <1>1, <1>2, <1>4, <1>7, <1>8, <1>9, <1>10, DecodingSteps

\* What the ground has behind a collection.
PlacedIn(s, r, c, g, k, w, v, null) ==
  [(IF Mod(c) THEN UpdatedOf(s, g, Offsets(s)[k], Column(HdrOf(s, r, k), w)) ELSE g) EXCEPT
     !.data = IF null THEN g.data ELSE With(g.data, Offsets(s)[k], Column(HdrOf(s, r, k), v))]
More(null, done, k) == IF null THEN {} ELSE done \cup {k}
Ahead(s, r, c, a, h, m, S, done, spoilt) ==
  After(s, r, c, a, h, m, S, done, spoilt) /\ IsGround(h) /\ Side(s, h) /\ IsBuffer(s, h.data)

\* A collection finds its way into the ground's memory.
LEMMA CollectionPlaced ==
  ASSUME NEW s \in Settings, NEW r, NEW c, NEW a, NEW g, NEW m, NEW S, NEW spoilt, NEW done,
         done \subseteq 1 .. Count(s), After(s, r, c, a, g, m, S, done, spoilt),
         IsGround(g), Side(s, g), IsBuffer(s, g.data),
         NEW k \in 1 .. Count(s), NEW w, Mod(c) => w \in SamplesOf(s, k),
         NEW v \in SamplesOf(s, k), ~ spoilt /\ Mod(c) => w = NewOf(s, r, c, m[k], k \in S, k),
         NEW null \in BOOLEAN, null => done = {} /\ k \in S,
         ~ null /\ ~ spoilt => v = Seen(c, DataOf(s, r, k))
  PROVE  Ahead(s, r, c, a, PlacedIn(s, r, c, g, k, w, v, null), m, S, More(null, done, k), spoilt)
<1>0. PICK y, z, h, more :
        /\ y = IF Mod(c) THEN UpdatedOf(s, g, Offsets(s)[k], Column(HdrOf(s, r, k), w)) ELSE g
        /\ z = IF null THEN g.data ELSE With(g.data, Offsets(s)[k], Column(HdrOf(s, r, k), v))
        /\ h = [y EXCEPT !.data = z] /\ more = IF null THEN {} ELSE done \cup {k}
  OBVIOUS
<1>1. PICK up, col : up = Column(HdrOf(s, r, k), w) /\ col = Column(HdrOf(s, r, k), v)
  OBVIOUS
<1>2. up.data = w /\ col.data = v
  BY <1>1, ColIs
<1>3. /\ IsGround(y) /\ Side(s, y) /\ y.data = g.data
      /\ Mod(c) => UpdatedAt(s, y, g, k, up) /\ DOMAIN y.model = DOMAIN g.model
      /\ ~ Mod(c) => y = g
  <2>1. CASE Mod(c)
    <3>1. y = UpdatedOf(s, g, Offsets(s)[k], up) /\ up.data \in SamplesOf(s, k)
      BY <1>0, <1>1, <1>2, <2>1
    <3>2. DOMAIN g.model = Places(s)
      BY <2>1 DEF After
    <3>3. /\ Side(s, y) /\ UpdatedAt(s, y, g, k, up) /\ DOMAIN y.model = DOMAIN g.model
          /\ IsGround(y) /\ y.data = g.data
      BY <3>1, <3>2, UpdatedSide
    <3> QED
      BY <2>1, <3>3
  <2>2. CASE ~ Mod(c)
    BY <1>0, <2>2
  <2> QED
    BY <2>1, <2>2
<1>4. /\ h.data = z /\ h.model = y.model /\ h.updated = y.updated /\ IsGround(h)
  BY <1>0, <1>3 DEF IsGround
<1>5. Side(s, h)
  BY <1>3, <1>4 DEF Side
<1>6. /\ IsBuffer(s, z)
      /\ ~ null => Placed(s, z, g.data, k, col)
  <2>1. CASE null
    BY <1>0, <2>1
  <2>2. CASE ~ null
    <3>1. z = With(g.data, Offsets(s)[k], col) /\ col.data \in SamplesOf(s, k)
      BY <1>0, <1>1, <1>2, <2>2
    <3>2. IsWith(s, z, g.data, k, col)
      BY <3>1, WithGives
    <3> QED
      BY <3>2 DEF IsWith, Placed
  <2> QED
    BY <2>1, <2>2
<1>7. IF Mod(c) THEN /\ UpdatedAt(s, h, g, k, up) /\ DOMAIN h.model = DOMAIN g.model
      ELSE h.model = g.model /\ h.updated = g.updated
  <2>1. CASE Mod(c)
    BY <1>3, <1>4, <2>1 DEF UpdatedAt, Target
  <2>2. CASE ~ Mod(c)
    BY <1>3, <1>4, <2>2
  <2> QED
    BY <2>1, <2>2
<1>8. \/ /\ more = done \cup {k} /\ Placed(s, h.data, g.data, k, col)
         /\ ~ spoilt => v = Seen(c, DataOf(s, r, k))
      \/ more = {} /\ done = {} /\ k \in S
  BY <1>0, <1>4, <1>6
<1>9. After(s, r, c, a, h, m, S, more, spoilt)
  <2>1. IF Mod(c) THEN /\ UpdatedAt(s, h, g, k, Column(HdrOf(s, r, k), w))
                       /\ DOMAIN h.model = DOMAIN g.model
        ELSE h.model = g.model /\ h.updated = g.updated
    BY <1>1, <1>7, Zenon
  <2>2. \/ /\ more = done \cup {k} /\ Placed(s, h.data, g.data, k, Column(HdrOf(s, r, k), v))
           /\ ~ spoilt => v = Seen(c, DataOf(s, r, k))
        \/ more = {} /\ done = {} /\ k \in S
    BY <1>1, <1>8, Zenon
  <2> QED
    BY <2>1, <2>2, AfterGrows
<1>10. Ahead(s, r, c, a, h, m, S, more, spoilt)
  BY <1>4, <1>5, <1>6, <1>9 DEF Ahead
<1> QED
  BY <1>0, <1>10, Zenon DEF PlacedIn, More

\* Decoding gives the data and the updated model, if both sides have the same model.
Recovered(s, r, c, k, x, y, v, w) ==
  /\ v \in SamplesOf(s, k) /\ (Mod(c) => w \in SamplesOf(s, k))
  /\ x = y \/ ~ Mod(c) => v = Seen(c, DataOf(s, r, k))
  /\ x = y /\ Mod(c) => w = UpModels(c, DataOf(s, r, k), x)

\* What the decoder makes of a collection.
LEMMA DecodedIs ==
  ASSUME NEW s \in Settings, NEW r \in 1 .. MaxEntities + 1, NEW c, c.round \in 0 .. 3,
         c.model_value \in Nat, ~ IsRaw(c), NEW dc, DecoderCfg(s, c, dc),
         NEW k \in 1 .. Count(s), NEW x \in SamplesOf(s, k), NEW y \in SamplesOf(s, k),
         NEW words, words = Encode(c, TypeOf(s, k), DataOf(s, r, k), x),
         NEW v, v = Decode(dc, TypeOf(s, k), words, y, s.layout[k].n)
  PROVE  /\ Recovered(s, r, c, k, x, y, v, UpModels(dc, v, y))
         /\ ~ TooShort(TypeOf(s, k), words, s.layout[k].n)
<1>0. PICK w : w = UpModels(dc, v, y)
  OBVIOUS
<1>1. PICK t, n, data : t = TypeOf(s, k) /\ n = s.layout[k].n /\ data = DataOf(s, r, k)
  OBVIOUS
<1>2. /\ t \in Types /\ n \in Nat /\ data \in Samples(t, n) /\ x \in Samples(t, n)
      /\ y \in Samples(t, n)
  BY <1>1, Layout, DataTyped DEF SamplesOf
<1>3. /\ Alike(c, dc, t) /\ dc.round = c.round /\ (Mod(c) => dc.model_value = c.model_value)
  BY <1>1 DEF DecoderCfg
<1>4. words = Encode(c, t, data, x) /\ v = Decode(dc, t, words, y, n)
  BY <1>1
<1>5. v \in Samples(t, n)
  <2>1. Decode(dc, t, Encode(c, t, data, x), y, n) \in Samples(t, n)
    BY <1>2, <1>3, DecodeTypes
  <2> QED
    BY <1>4, <2>1
<1>6. Mod(c) => w \in Samples(t, n)
  BY <1>0, <1>2, <1>3, <1>5, UpModelsTypes
<1>7. ASSUME x = y \/ ~ Mod(c) PROVE v = LossySamples(c, data)
  <2>1. Encode(c, t, data, x) = Encode(c, t, data, y)
    <3>1. CASE x = y
      BY <3>1
    <3>2. CASE ~ Mod(c)
      BY <3>2, EncodeNoModel DEF Mod
    <3> QED
      BY <1>7, <3>1, <3>2
  <2>2. Decode(dc, t, Encode(c, t, data, y), y, n) = LossySamples(c, data)
    BY <1>2, <1>3, DecodeInverse
  <2> QED
    BY <1>4, <2>1, <2>2
<1>8. Seen(c, data) = LossySamples(c, data)
  BY DEF Seen, IsRaw
<1>9. ASSUME x = y, Mod(c) PROVE w = UpModels(c, data, x)
  <2>1. UpModels(dc, LossySamples(c, data), x) = UpModels(c, data, x)
    BY <1>2, <1>3, <1>9, UpModelsAgree
  <2> QED
    BY <1>0, <1>7, <1>9, <2>1
<1>10. ~ TooShort(t, words, n)
  BY <1>2, <1>4, LongEnough
<1>11. Recovered(s, r, c, k, x, y, v, w)
  BY <1>1, <1>5, <1>6, <1>7, <1>8, <1>9 DEF SamplesOf, Recovered
<1> QED
  BY <1>0, <1>1, <1>10, <1>11

\* The decompressor takes the configuration and has a model.
LEMMA DecoderAccepts ==
  ASSUME NEW s \in Settings, NEW c, GenericValid(c), ~ IsRaw(c), NEW dc, DecoderCfg(s, c, dc),
         NEW k \in 1 .. Count(s), SpecificValid(c, TypeOf(s, k)), NEW g,
         Mod(c) => DOMAIN g.model = Places(s)
  PROVE  GenericValid(dc) /\ SpecificValid(dc, TypeOf(s, k)) /\ HasModel(dc, g)
<1>1. /\ dc.cmp_mode = c.cmp_mode /\ dc.round = c.round /\ (Mod(c) => dc.model_value = c.model_value)
      /\ Alike(c, dc, TypeOf(s, k))
  BY DEF DecoderCfg
<1>2. GenericValid(dc)
  BY <1>1 DEF GenericValid, Mod
<1>3. SpecificValid(dc, TypeOf(s, k))
  BY <1>1 DEF SpecificValid, Alike, IsRaw
<1>4. HasModel(dc, g)
  <2>1. Places(s) # {}
    BY PlacesIs
  <2> QED
    BY <1>1, <2>1, NoBufferIs DEF HasModel, Mod
<1> QED
  BY <1>2, <1>3, <1>4

\* The step for a collection, by what is decoded.
Taking(o, c, t, n, stored, decoded, up) ==
  IF Malformed(c, o, t) \/ (c.size < c.hdr.len /\ Undecodable(t, c, n))
  THEN pc' = "rejected"
  ELSE /\ i' = i + 1 /\ pc' = pc
       /\ IF c.size = c.hdr.len
          THEN ground' = [(IF Mod(dcfg) THEN Updated(ground, o, stored) ELSE ground) EXCEPT
                            !.data = Decompressed(o, stored)]
          ELSE IF null_dst THEN ground' = ground
          ELSE ground' = [(IF Mod(dcfg) THEN Updated(ground, o, up) ELSE ground) EXCEPT
                            !.data = Decompressed(o, decoded)]

UpCol(h, dc, v, y) == [hdr |-> h, data |-> UpModels(dc, Column(h, v).data, y)]

\* The collection the ground's model gets.
LEMMA UpColIs ==
  ASSUME NEW h, NEW dc, NEW v, NEW y
  PROVE  UpCol(h, dc, v, y) = Column(h, UpModels(dc, v, y))
<1>1. PICK col : col = Column(h, v)
  OBVIOUS
<1>2. col.data = v
  BY <1>1, ColIs
<1> QED
  BY <1>1, <1>2, Zenon DEF UpCol, Column

\* What DecompressCollection does with the collection it takes.
LEMMA TakingIs ==
  ASSUME DecompressCollection,
         NEW o, o = Place(i).o, NEW c, c = ent.body[Place(i).p],
         NEW t, t = convert_subservice_to_cmp_data_type(c.hdr.sub),
         NEW n, n = c.hdr.len \div size_of_a_sample(t),
         NEW x, x = Converted(setting.ground, c.data, t),
         NEW y, y = At(ground.model, o, t, n),
         NEW v, v = Decode(dcfg, t, c.words, y, n)
  PROVE  /\ pc = "chunk" /\ i < get_num_of_chunks
         /\ Taking(o, c, t, n, Column(c.hdr, x), Column(c.hdr, v), UpCol(c.hdr, dcfg, v, y))
         /\ UNCHANGED <<setting, reading, icu, cfg, dst_size, read_bytes, info, ent, dcfg, null_dst,
                        spoiled>>
<1> DEFINE O == Place(i).o
           C == ent.body[Place(i).p]
           T == convert_subservice_to_cmp_data_type(C.hdr.sub)
           N == C.hdr.len \div size_of_a_sample(T)
           stored == [hdr |-> C.hdr, data |-> Converted(setting.ground, C.data, T)]
           Y == At(ground.model, O, T, N)
           decoded == [hdr |-> C.hdr, data |-> Decoded(T, C, O, N)]
           up == [hdr |-> C.hdr, data |-> UpModels(dcfg, decoded.data, Y)]
<1>1. /\ pc = "chunk" /\ i < get_num_of_chunks
      /\ IF Malformed(C, O, T) \/ (C.size < C.hdr.len /\ Undecodable(T, C, N))
         THEN pc' = "rejected" /\ UNCHANGED <<i, ground>>
         ELSE /\ i' = i + 1 /\ UNCHANGED pc
              /\ IF C.size = C.hdr.len
                 THEN ground' = [(IF model_mode_is_used(dcfg.cmp_mode)
                                  THEN Updated(ground, O, stored) ELSE ground) EXCEPT
                                   !.data = Decompressed(O, stored)]
                 ELSE IF null_dst THEN UNCHANGED ground
                 ELSE ground' = [(IF model_mode_is_used(dcfg.cmp_mode)
                                  THEN Updated(ground, O, up) ELSE ground) EXCEPT
                                   !.data = Decompressed(O, decoded)]
      /\ UNCHANGED <<caller, sender, ent, dcfg, null_dst, asked, history>>
  BY Zenon DEF DecompressCollection
<1> HIDE DEF O, C, T, N, stored, Y, decoded, up
<1>2. O = o /\ C = c
  BY Zenon DEF O, C
<1>3. T = t
  BY <1>2, Zenon DEF T
<1>4. N = n
  BY <1>2, <1>3, Zenon DEF N
<1>5. Y = y
  BY <1>2, <1>3, <1>4, Zenon DEF Y
<1>6. stored = Column(c.hdr, x)
  BY <1>2, <1>3, Zenon DEF stored, Column
<1>7. decoded = Column(c.hdr, v)
  BY <1>2, <1>3, <1>4, <1>5, Zenon DEF decoded, Column, Decoded, Y
<1>8. up = UpCol(c.hdr, dcfg, v, y)
  BY <1>2, <1>5, <1>7, Zenon DEF up, UpCol
<1>9. Taking(O, C, T, N, stored, decoded, up)
  BY <1>1, Zenon DEF Taking, Mod
<1>10. Taking(o, c, t, n, Column(c.hdr, x), Column(c.hdr, v), UpCol(c.hdr, dcfg, v, y))
  BY <1>2, <1>3, <1>4, <1>6, <1>7, <1>8, <1>9, Zenon
<1>11. UNCHANGED <<setting, reading, icu, cfg, dst_size, read_bytes, info, ent, dcfg, null_dst,
                   spoiled>>
  <2>1. UNCHANGED <<caller, sender, ent, dcfg, null_dst, asked, history>>
    BY <1>1, Zenon
  <2> QED
    BY <2>1 DEF caller, sender, history
<1> QED
  BY <1>1, <1>10, <1>11, Zenon

\* A collection of the entity is well formed.
LEMMA WellFormed ==
  ASSUME NEW s \in Settings, ~ s.rdcu, NEW k \in 1 .. Count(s), NEW c,
         cmp_ent_get_original_size(ent.h) = SizeOf(s),
         c.size \in 0 .. LengthOf(s, k), c.hdr.len = LengthOf(s, k)
  PROVE  /\ ~ Malformed(c, Offsets(s)[k], TypeOf(s, k))
         /\ c.hdr.len \div size_of_a_sample(TypeOf(s, k)) = s.layout[k].n
<1>1. PICK n \in Nat, z \in Nat \ {0} : n = s.layout[k].n /\ z = size_of_a_sample(TypeOf(s, k))
  BY Layout
<1>2. LengthOf(s, k) = n * z + 0 /\ LengthOf(s, k) \in Nat
  BY <1>1, Layout DEF LengthOf
<1>3. LengthOf(s, k) \div z = n /\ LengthOf(s, k) % z = 0
  <2>1. (n * z + 0) \div z = n /\ (n * z + 0) % z = 0
    <3>1. n \in Int /\ 0 \in 0 .. z - 1
      BY <1>1
    <3> QED
      BY <3>1, DivModUnique
  <2> QED
    BY <1>2, <2>1
<1>4. Offsets(s)[k] + LengthOf(s, k) + COLLECTION_HDR_SIZE <= SizeOf(s)
  <2>1. Count(s) + 1 \in k + 1 .. Count(s) + 1 /\ Count(s) \in Nat
    BY Layout
  <2>2. /\ Offsets(s)[k] \in Nat /\ Offsets(s)[Count(s) + 1] \in Nat
        /\ Offsets(s)[k] + HeaderOf(s) + LengthOf(s, k) <= Offsets(s)[Count(s) + 1]
    BY <2>1, OffsetsGrow
  <2>3. HeaderOf(s) = COLLECTION_HDR_SIZE /\ COLLECTION_HDR_SIZE \in Nat
    BY SizesAre DEF HeaderOf
  <2> QED
    BY <1>2, <2>2, <2>3 DEF SizeOf
<1>5. Offsets(s)[k] \in Nat /\ SizeOf(s) \in Nat /\ COLLECTION_HDR_SIZE \in Nat
  <2>1. k \in 1 .. Count(s) + 1
    BY Layout
  <2> QED
    BY <2>1, SizeTypes, SizesAre
<1>6. c.size <= c.hdr.len /\ c.size \in Nat
  BY <1>2
<1> QED
  BY <1>1, <1>2, <1>3, <1>4, <1>5, <1>6 DEF Malformed

\* A collection that was stored is copied.
LEMMA PieceStored ==
  ASSUME NEW s \in Settings, NEW r \in 1 .. MaxEntities + 1, NEW c, c.round = 0 \/ IsRaw(c),
         NEW a, NEW g, NEW m, NEW S, NEW spoilt, NEW done,
         done \subseteq 1 .. Count(s), After(s, r, c, a, g, m, S, done, spoilt),
         IsGround(g), Side(s, g), IsBuffer(s, g.data),
         NEW k \in 1 .. Count(s), k \in S, NEW cpu,
         NEW x, x = Converted(cpu, DataOf(s, r, k), TypeOf(s, k)),
         NEW null \in BOOLEAN, null => done = {}
  PROVE  Ahead(s, r, c, a, PlacedIn(s, r, c, g, k, x, x, null), m, S, More(null, done, k), spoilt)
<1>1. /\ x = DataOf(s, r, k) /\ Seen(c, DataOf(s, r, k)) = DataOf(s, r, k)
      /\ DataOf(s, r, k) \in SamplesOf(s, k)
  BY StoredIs
<1>2. x \in SamplesOf(s, k) /\ x = Seen(c, DataOf(s, r, k))
  BY <1>1
<1>3. Mod(c) => x \in SamplesOf(s, k)
  BY <1>2
<1>4. ~ spoilt /\ Mod(c) => x = NewOf(s, r, c, m[k], k \in S, k)
  BY <1>1 DEF NewOf
<1>5. null => done = {} /\ k \in S
  OBVIOUS
<1>6. ~ null /\ ~ spoilt => x = Seen(c, DataOf(s, r, k))
  BY <1>2
<1> QED
  BY <1>2, <1>3, <1>4, <1>5, <1>6, CollectionPlaced

\* The decoder takes a collection that was coded.
LEMMA PieceTaken ==
  ASSUME NEW s \in Settings, NEW r \in 1 .. MaxEntities + 1, NEW c, c.round \in 0 .. 3,
         c.model_value \in Nat, ~ IsRaw(c), GenericValid(c), NEW dc, DecoderCfg(s, c, dc),
         NEW g, Side(s, g), Mod(c) => DOMAIN g.model = Places(s),
         NEW k \in 1 .. Count(s), SpecificValid(c, TypeOf(s, k)), NEW x \in SamplesOf(s, k),
         NEW words, words = Encode(c, TypeOf(s, k), DataOf(s, r, k), x)
  PROVE  /\ GenericValid(dc) /\ SpecificValid(dc, TypeOf(s, k)) /\ HasModel(dc, g)
         /\ ~ TooShort(TypeOf(s, k), words, s.layout[k].n)
<1>1. GenericValid(dc) /\ SpecificValid(dc, TypeOf(s, k)) /\ HasModel(dc, g)
  BY DecoderAccepts
<1>2. PICK v : v = Decode(dc, TypeOf(s, k), words, x, s.layout[k].n)
  OBVIOUS
<1>3. ~ TooShort(TypeOf(s, k), words, s.layout[k].n)
  BY <1>2, DecodedIs
<1> QED
  BY <1>1, <1>3

\* A collection that was coded is decoded.
LEMMA PieceDecoded ==
  ASSUME NEW s \in Settings, NEW r \in 1 .. MaxEntities + 1, NEW c, c.round \in 0 .. 3,
         c.model_value \in Nat, ~ IsRaw(c), NEW dc, DecoderCfg(s, c, dc),
         NEW a, NEW g, NEW m, NEW S, NEW spoilt, NEW done,
         done \subseteq 1 .. Count(s), After(s, r, c, a, g, m, S, done, spoilt),
         IsGround(g), Side(s, g), IsBuffer(s, g.data),
         NEW k \in 1 .. Count(s), k \notin S, k \notin done, m[k] \in SamplesOf(s, k),
         NEW words, words = Encode(c, TypeOf(s, k), DataOf(s, r, k), m[k]),
         NEW x, x = ModelAt(s, g.model, k),
         NEW v, v = Decode(dc, TypeOf(s, k), words, x, s.layout[k].n),
         NEW w, w = UpModels(dc, v, x)
  PROVE  Ahead(s, r, c, a, PlacedIn(s, r, c, g, k, w, v, FALSE), m, S, done \cup {k}, spoilt)
<1>1. PICK u : u = m[k]
  OBVIOUS
<1>2. u \in SamplesOf(s, k) /\ words = Encode(c, TypeOf(s, k), DataOf(s, r, k), u)
  BY <1>1
<1>3. x \in SamplesOf(s, k)
  <2>1. IsBuffer(s, g.model)
    BY DEF Side
  <2> QED
    BY <2>1, ModelAtIs
<1>4. ~ spoilt /\ Mod(c) => u = x
  BY <1>1 DEF After, TrustAfter
<1>5. /\ v \in SamplesOf(s, k) /\ (Mod(c) => w \in SamplesOf(s, k))
      /\ u = x \/ ~ Mod(c) => v = Seen(c, DataOf(s, r, k))
      /\ u = x /\ Mod(c) => w = UpModels(c, DataOf(s, r, k), u)
  <2>1. Recovered(s, r, c, k, u, x, v, w)
    BY <1>2, <1>3, DecodedIs
  <2> QED
    BY <2>1 DEF Recovered
<1>6. Mod(c) => w \in SamplesOf(s, k)
  BY <1>5
<1>7. ~ spoilt /\ Mod(c) => w = NewOf(s, r, c, m[k], k \in S, k)
  BY <1>1, <1>4, <1>5 DEF NewOf
<1>8. PICK null \in BOOLEAN : null = FALSE
  OBVIOUS
<1>9. ~ null /\ ~ spoilt => v = Seen(c, DataOf(s, r, k))
  BY <1>4, <1>5
<1>10. v \in SamplesOf(s, k) /\ (null => done = {} /\ k \in S)
  BY <1>5, <1>8
<1>11. Ahead(s, r, c, a, PlacedIn(s, r, c, g, k, w, v, null), m, S, More(null, done, k), spoilt)
  BY <1>6, <1>7, <1>9, <1>10, CollectionPlaced
<1>12. More(null, done, k) = done \cup {k}
  BY <1>8 DEF More
<1> QED
  BY <1>8, <1>11, <1>12, Zenon

\* One collection more than before.
LEMMA OneMore ==
  ASSUME NEW x \in Nat, NEW k, k = x + 1, NEW null \in BOOLEAN, NEW s
  PROVE  /\ More(null, DoneOf(s, "chunk", null, x), k) = DoneOf(s, "chunk", null, k)
         /\ k \notin DoneOf(s, "chunk", null, x)
         /\ null => DoneOf(s, "chunk", null, x) = {}
         /\ x \in 0 .. Count(s) /\ Count(s) \in Nat => DoneOf(s, "chunk", null, x) \subseteq 1 .. Count(s)
<1>1. DoneOf(s, "chunk", null, x) = IF null THEN {} ELSE 1 .. x
  BY Zenon DEF DoneOf
<1>2. DoneOf(s, "chunk", null, k) = IF null THEN {} ELSE 1 .. k
  BY Zenon DEF DoneOf
<1>3. (1 .. x) \cup {k} = 1 .. k /\ k \notin 1 .. x
  OBVIOUS
<1>4. More(null, DoneOf(s, "chunk", null, x), k) = DoneOf(s, "chunk", null, k)
  <2>1. CASE null
    BY <1>1, <1>2, <2>1, Zenon DEF More
  <2>2. CASE ~ null
    BY <1>1, <1>2, <1>3, <2>2, Zenon DEF More
  <2> QED
    BY <2>1, <2>2
<1>5. PICK done : done = DoneOf(s, "chunk", null, x)
  OBVIOUS
<1>6. done = IF null THEN {} ELSE 1 .. x
  BY <1>1, <1>5, Zenon
<1>7. k \notin done /\ (null => done = {})
  BY <1>3, <1>6
<1>8. x \in 0 .. Count(s) /\ Count(s) \in Nat => done \subseteq 1 .. Count(s)
  BY <1>6
<1> QED
  BY <1>4, <1>5, <1>7, <1>8, Zenon

\* The k-th collection, found behind the x-th.
NextCollection(s, x, k, m, S, col) ==
  /\ x \in Nat /\ x \in 0 .. Count(s) /\ k \in 1 .. Count(s) /\ ~ s.rdcu /\ ~ IsRaw(cfg)
  /\ Place(x).o = Offsets(s)[k] /\ col.hdr = HdrOf(s, reading, k)
  /\ TypeOf(s, k) = convert_subservice_to_cmp_data_type(col.hdr.sub)
  /\ s.layout[k].n = col.hdr.len \div size_of_a_sample(TypeOf(s, k))
  /\ ~ Malformed(col, Offsets(s)[k], TypeOf(s, k))
  /\ (k \in S <=> col.size = col.hdr.len)
  /\ (col.size = col.hdr.len \/ col.size < col.hdr.len)
  /\ Content(s, reading, cfg, m[k], k \in S, k, col)
  /\ m[k] \in SamplesOf(s, k) /\ SpecificValid(cfg, TypeOf(s, k)) /\ cfg.round = 0

\* What is behind the next place.
LEMMA CollectionThere ==
  ASSUME SenderInv, LinkInv, pc = "chunk", NEW x, x = i, x < get_num_of_chunks,
         NEW s, s = setting, NEW k, k = x + 1, NEW m, NEW S, NEW d, NEW q,
         Stage(s, reading, pc, cfg, dst_size, read_bytes, info, ent, m, S, d, q), d = Count(s),
         NEW col, col = ent.body[Place(x).p]
  PROVE  NextCollection(s, x, k, m, S, col)
<1>1. pc \in Decoding /\ pc \in Received /\ pc # "collections"
  BY DEF Decoding, Received
<1>2. s \in Settings /\ Flow(s, pc, cfg, ent, dcfg, null_dst, i)
  BY <1>1, DecodingIs
<1>3. x \in 0 .. Count(s) /\ ~ s.rdcu /\ ~ IsRaw(cfg)
  BY <1>2 DEF Flow
<1>4. get_num_of_chunks = Count(s) /\ cmp_ent_get_original_size(ent.h) = SizeOf(s)
  BY <1>1, <1>3, ChunkReceived
<1>5. Count(s) \in Nat
  BY <1>2, Layout
<1>6. x \in Nat /\ k \in 1 .. Count(s)
  BY <1>3, <1>4, <1>5
<1>7. BodyOk(s, reading, cfg, ent.body, m, S, Count(s), q) /\ Coding(s, cfg, m, S, Count(s))
  BY <1>3 DEF Stage
<1>8. Place(x) = Spot(q[x + 1], Offsets(s)[x + 1])
  <2>1. \A l \in 0 .. Count(s) : Place(l) = Spot(q[l + 1], Offsets(s)[l + 1])
    BY <1>2, <1>3, <1>7, PlaceIs
  <2> QED
    BY <1>3, <2>1, Zenon
<1>9. Place(x).p = q[k] /\ Place(x).o = Offsets(s)[k]
  BY <1>8, SpotIs
<1>10. /\ PieceOk(s, reading, cfg, m[k], k \in S, k, col) /\ col.hdr = HdrOf(s, reading, k)
       /\ col.hdr.len = LengthOf(s, k) /\ col.hdr.sub = s.layout[k].sub
       /\ col.size \in 0 .. LengthOf(s, k)
  <2>1. PICK b : b = ent.body
    OBVIOUS
  <2>2. col = b[q[k]] /\ BodyOk(s, reading, cfg, b, m, S, Count(s), q)
    BY <1>7, <1>9, <2>1
  <2> QED
    BY <1>2, <1>3, <1>6, <2>2, PieceIs
<1>11. /\ ~ Malformed(col, Offsets(s)[k], TypeOf(s, k))
       /\ col.hdr.len \div size_of_a_sample(TypeOf(s, k)) = s.layout[k].n
  BY <1>2, <1>3, <1>4, <1>6, <1>10, WellFormed
<1>12. TypeOf(s, k) = convert_subservice_to_cmp_data_type(col.hdr.sub)
  BY <1>3, <1>10 DEF TypeOf
<1>13. LengthOf(s, k) \in Nat
  BY <1>2, <1>6, Layout
<1>14. /\ k \in S <=> col.size = col.hdr.len
       /\ col.size = col.hdr.len \/ col.size < col.hdr.len
  BY <1>10, <1>13 DEF PieceOk
<1>15. Content(s, reading, cfg, m[k], k \in S, k, col)
  BY <1>10 DEF PieceOk
<1>16. m[k] \in SamplesOf(s, k) /\ SpecificValid(cfg, TypeOf(s, k)) /\ cfg.round = 0
  BY <1>3, <1>6, <1>7 DEF Coding
<1> QED
  BY <1>3, <1>6, <1>9, <1>10, <1>11, <1>12, <1>14, <1>15, <1>16 DEF NextCollection

\* A stored and a decoded collection in the ground's memory.
LaidOut(dc, g, o, up, col, null) ==
  [(IF Mod(dc) THEN Updated(g, o, up) ELSE g) EXCEPT
     !.data = IF null THEN g.data ELSE With(g.data, o, col)]

\* The ground after one collection was decompressed.
LEMMA GroundPlaced ==
  ASSUME NEW c, NEW dc, dc.cmp_mode = c.cmp_mode, NEW s, s = setting, NEW g, NEW r, NEW k, NEW w, NEW v,
         NEW null \in BOOLEAN
  PROVE  LaidOut(dc, g, Offsets(s)[k], Column(HdrOf(s, r, k), w), Column(HdrOf(s, r, k), v), null)
           = PlacedIn(s, r, c, g, k, w, v, null)
<1>1. PICK o, x : o = Offsets(s)[k] /\ x = Column(HdrOf(s, r, k), w)
  OBVIOUS
<1>2. Mod(dc) <=> Mod(c)
  BY DEF Mod
<1>3. Updated(g, o, x) = UpdatedOf(s, g, o, x)
  BY UpdatedIs
<1>4. Updated(g, Offsets(s)[k], Column(HdrOf(s, r, k), w))
        = UpdatedOf(s, g, Offsets(s)[k], Column(HdrOf(s, r, k), w))
  BY <1>1, <1>3, Zenon
<1>5. CASE Mod(c)
  <2>1. Mod(dc)
    BY <1>2, <1>5
  <2> QED
    BY <1>4, <1>5, <2>1, Zenon DEF PlacedIn, LaidOut
<1>6. CASE ~ Mod(c)
  <2>1. ~ Mod(dc)
    BY <1>2, <1>6
  <2> QED
    BY <1>6, <2>1, Zenon DEF PlacedIn, LaidOut
<1> QED
  BY <1>5, <1>6

\* The decoder takes every collection.
LEMMA Decodable ==
  ASSUME NEW n, NEW t, NEW col, GenericValid(dcfg), SpecificValid(dcfg, t), HasModel(dcfg, ground),
         ~ TooShort(t, col.words, n)
  PROVE  ~ Undecodable(t, col, n)
BY Zenon DEF Undecodable

\* What the ground has after a collection.
LEMMA CollectionStep ==
  ASSUME SenderInv, LinkInv, DecompressCollection,
         NEW m, NEW S, NEW d, NEW q,
         Stage(setting, reading, pc, cfg, dst_size, read_bytes, info, ent, m, S, d, q),
         d = Count(setting),
         After(setting, reading, cfg, icu, ground, m, S, DoneOf(setting, pc, null_dst, i), spoiled)
  PROVE  /\ pc = "chunk" /\ pc' = "chunk" /\ i' = i + 1 /\ i' \in 1 .. Count(setting)
         /\ Ahead(setting, reading, cfg, icu, ground', m, S,
                  DoneOf(setting, "chunk", null_dst, i'), spoiled)
         /\ UNCHANGED <<setting, reading, icu, cfg, dst_size, read_bytes, info, ent, dcfg, null_dst,
                        spoiled>>
<1>1. pc = "chunk" /\ i < get_num_of_chunks
  BY Zenon DEF DecompressCollection
<1>2. PICK s, x, o, col, t, n, st, y, v :
        /\ s = setting /\ x = i /\ o = Place(i).o /\ col = ent.body[Place(i).p]
        /\ t = convert_subservice_to_cmp_data_type(col.hdr.sub)
        /\ n = col.hdr.len \div size_of_a_sample(t)
        /\ st = Converted(setting.ground, col.data, t)
        /\ y = At(ground.model, o, t, n) /\ v = Decode(dcfg, t, col.words, y, n)
  BY Zenon
<1>3. /\ Taking(o, col, t, n, Column(col.hdr, st), Column(col.hdr, v), UpCol(col.hdr, dcfg, v, y))
      /\ UNCHANGED <<setting, reading, icu, cfg, dst_size, read_bytes, info, ent, dcfg, null_dst,
                     spoiled>>
  BY <1>2, TakingIs
<1>4. PICK k : k = x + 1
  OBVIOUS
<1>5. /\ x \in Nat /\ x \in 0 .. Count(s) /\ k \in 1 .. Count(s) /\ ~ s.rdcu /\ ~ IsRaw(cfg)
      /\ Place(x).o = Offsets(s)[k] /\ col.hdr = HdrOf(s, reading, k)
      /\ TypeOf(s, k) = convert_subservice_to_cmp_data_type(col.hdr.sub)
      /\ s.layout[k].n = col.hdr.len \div size_of_a_sample(TypeOf(s, k))
      /\ ~ Malformed(col, Offsets(s)[k], TypeOf(s, k))
      /\ k \in S <=> col.size = col.hdr.len
      /\ col.size = col.hdr.len \/ col.size < col.hdr.len
      /\ Content(s, reading, cfg, m[k], k \in S, k, col)
      /\ m[k] \in SamplesOf(s, k) /\ SpecificValid(cfg, TypeOf(s, k)) /\ cfg.round = 0
  <2>1. x < get_num_of_chunks /\ col = ent.body[Place(x).p]
    BY <1>1, <1>2
  <2>2. Stage(s, reading, pc, cfg, dst_size, read_bytes, info, ent, m, S, d, q) /\ d = Count(s)
    BY <1>2
  <2>3. NextCollection(s, x, k, m, S, col)
    BY <1>1, <1>2, <1>4, <2>1, <2>2, CollectionThere
  <2> QED
    BY <2>3, Zenon DEF NextCollection
<1>6. o = Offsets(s)[k] /\ t = TypeOf(s, k) /\ n = s.layout[k].n
  <2>1. o = Offsets(s)[k]
    BY <1>2, <1>5, Zenon
  <2>2. t = TypeOf(s, k)
    BY <1>2, <1>5, Zenon
  <2> QED
    BY <1>2, <1>5, <2>1, <2>2, Zenon
<1>7. /\ s \in Settings /\ reading \in 1 .. MaxEntities + 1 /\ IsIcu(icu) /\ IsGround(ground)
      /\ Side(s, ground) /\ IsBuffer(s, ground.data) /\ null_dst \in BOOLEAN
      /\ DecoderCfg(s, cfg, dcfg)
      /\ cfg.round \in 0 .. 3 /\ cfg.model_value \in Nat /\ GenericValid(cfg)
  <2>1. pc \in Decoding
    BY <1>1 DEF Decoding
  <2> QED
    BY <1>2, <2>1, DecodingIs
<1>8. dcfg.cmp_mode = cfg.cmp_mode
  BY <1>7 DEF DecoderCfg
<1>9. y = ModelAt(s, ground.model, k)
  BY <1>2, <1>6, Zenon DEF ModelAt
<1>10. PICK done : done = DoneOf(s, "chunk", null_dst, x)
  OBVIOUS
<1>11. /\ done \subseteq 1 .. Count(s) /\ k \notin done /\ (null_dst => done = {})
       /\ More(null_dst, done, k) = DoneOf(s, "chunk", null_dst, k)
  <2>1. Count(s) \in Nat
    BY <1>7, Layout
  <2> QED
    BY <1>4, <1>5, <1>7, <1>10, <2>1, OneMore
<1>12. After(s, reading, cfg, icu, ground, m, S, done, spoiled)
  BY <1>1, <1>2, <1>10
<1>13. Mod(cfg) => DOMAIN ground.model = Places(s)
  BY <1>12 DEF After
<1>14. Column(col.hdr, st) = Column(HdrOf(s, reading, k), st) /\
       Column(col.hdr, v) = Column(HdrOf(s, reading, k), v) /\
       UpCol(col.hdr, dcfg, v, y) = Column(HdrOf(s, reading, k), UpModels(dcfg, v, y))
  <2>1. UpCol(col.hdr, dcfg, v, y) = Column(col.hdr, UpModels(dcfg, v, y))
    BY UpColIs
  <2> QED
    BY <1>5, <2>1
<1>15. k \notin S => ~ Undecodable(t, col, n)
  <2>1. HAVE k \notin S
  <2>2. PICK words, u : words = col.words /\ u = m[k]
    OBVIOUS
  <2>3. words = Encode(cfg, TypeOf(s, k), DataOf(s, reading, k), u) /\ u \in SamplesOf(s, k)
    BY <1>5, <2>1, <2>2 DEF Content
  <2>4. /\ GenericValid(dcfg) /\ SpecificValid(dcfg, TypeOf(s, k)) /\ HasModel(dcfg, ground)
        /\ ~ TooShort(TypeOf(s, k), words, s.layout[k].n)
    BY <1>5, <1>7, <1>13, <2>3, PieceTaken
  <2>5. SpecificValid(dcfg, t) /\ ~ TooShort(t, col.words, n)
    BY <1>6, <2>2, <2>4, Zenon
  <2> QED
    BY <2>4, <2>5, Decodable
<1>16. ~ Malformed(col, o, t)
  BY <1>5, <1>6, Zenon
<1>17. ~ (Malformed(col, o, t) \/ (col.size < col.hdr.len /\ Undecodable(t, col, n)))
  <2>1. CASE k \in S
    <3>1. ~ (col.size < col.hdr.len)
      <4>1. col.size = col.hdr.len /\ LengthOf(s, k) \in Nat
        BY <1>5, <1>7, <2>1, Layout
      <4>2. col.hdr.len = LengthOf(s, k)
        BY <1>5 DEF HdrOf
      <4> QED
        BY <4>1, <4>2
    <3> QED
      BY <1>16, <3>1, Zenon
  <2>2. CASE k \notin S
    BY <1>15, <1>16, <2>2, Zenon
  <2> QED
    BY <2>1, <2>2
<1> DEFINE kept == IF Mod(dcfg) THEN Updated(ground, o, Column(HdrOf(s, reading, k), st)) ELSE ground
           coded == IF Mod(dcfg)
                    THEN Updated(ground, o, Column(HdrOf(s, reading, k), UpModels(dcfg, v, y)))
                    ELSE ground
<1>18. /\ i' = i + 1 /\ pc' = pc
       /\ IF col.size = col.hdr.len
          THEN ground' = [kept EXCEPT !.data = Decompressed(o, Column(HdrOf(s, reading, k), st))]
          ELSE IF null_dst THEN ground' = ground
          ELSE ground' = [coded EXCEPT !.data = Decompressed(o, Column(HdrOf(s, reading, k), v))]
  BY <1>3, <1>14, <1>17, Zenon DEF Taking
<1>19. s = setting /\ null_dst \in BOOLEAN
  BY <1>2, <1>7, Zenon
<1>20. PICK h : h = ground'
  OBVIOUS
<1>21. Ahead(s, reading, cfg, icu, h, m, S, DoneOf(s, "chunk", null_dst, k), spoiled)
  <2>1. CASE k \in S
    <3>1. h = [kept EXCEPT !.data = Decompressed(o, Column(HdrOf(s, reading, k), st))]
      BY <1>5, <1>18, <1>20, <2>1, Zenon
    <3>2. h = PlacedIn(s, reading, cfg, ground, k, st, st, null_dst)
      <4>1. h = LaidOut(dcfg, ground, o, Column(HdrOf(s, reading, k), st),
                        Column(HdrOf(s, reading, k), st), null_dst)
        BY <3>1, Zenon DEF Decompressed, LaidOut
      <4>2. LaidOut(dcfg, ground, Offsets(s)[k], Column(HdrOf(s, reading, k), st),
                    Column(HdrOf(s, reading, k), st), null_dst)
              = PlacedIn(s, reading, cfg, ground, k, st, st, null_dst)
        BY <1>8, <1>19, GroundPlaced
      <4> QED
        BY <1>6, <4>1, <4>2, Zenon
    <3>3. st = Converted(setting.ground, DataOf(s, reading, k), TypeOf(s, k))
      <4>1. col.data = DataOf(s, reading, k)
        BY <1>5, <2>1, Zenon DEF Content
      <4> QED
        BY <1>2, <1>6, <4>1, Zenon
    <3>4. Ahead(s, reading, cfg, icu, PlacedIn(s, reading, cfg, ground, k, st, st, null_dst), m, S,
                More(null_dst, done, k), spoiled)
      BY <1>5, <1>7, <1>11, <1>12, <2>1, <3>3, PieceStored
    <3> QED
      BY <1>11, <3>2, <3>4, Zenon
  <2>2. CASE k \notin S /\ null_dst
    <3>1. h = ground
      BY <1>5, <1>18, <1>20, <2>2, Zenon
    <3>2. done = {} /\ More(null_dst, done, k) = {}
      BY <1>11, <2>2 DEF More
    <3>3. Ahead(s, reading, cfg, icu, h, m, S, done, spoiled)
      BY <1>7, <1>12, <3>1 DEF Ahead
    <3> QED
      BY <1>11, <3>2, <3>3, Zenon
  <2>3. CASE k \notin S /\ ~ null_dst
    <3>1. h = [coded EXCEPT !.data = Decompressed(o, Column(HdrOf(s, reading, k), v))]
      BY <1>5, <1>18, <1>20, <2>3, Zenon
    <3>2. PICK w : w = UpModels(dcfg, v, y)
      OBVIOUS
    <3>3. h = PlacedIn(s, reading, cfg, ground, k, w, v, FALSE)
      <4>1. PICK null \in BOOLEAN : null = FALSE
        OBVIOUS
      <4>2. h = LaidOut(dcfg, ground, o, Column(HdrOf(s, reading, k), w),
                        Column(HdrOf(s, reading, k), v), null)
        BY <2>3, <3>1, <3>2, <4>1, Zenon DEF Decompressed, LaidOut
      <4>3. LaidOut(dcfg, ground, Offsets(s)[k], Column(HdrOf(s, reading, k), w),
                    Column(HdrOf(s, reading, k), v), null)
              = PlacedIn(s, reading, cfg, ground, k, w, v, null)
        BY <1>8, <1>19, GroundPlaced
      <4> QED
        BY <1>6, <4>1, <4>2, <4>3, Zenon
    <3>4. PICK words : words = col.words
      OBVIOUS
    <3>5. /\ words = Encode(cfg, TypeOf(s, k), DataOf(s, reading, k), m[k])
          /\ v = Decode(dcfg, TypeOf(s, k), words, y, s.layout[k].n)
      <4>1. words = Encode(cfg, TypeOf(s, k), DataOf(s, reading, k), m[k])
        BY <1>5, <2>3, <3>4, Zenon DEF Content
      <4>2. v = Decode(dcfg, TypeOf(s, k), words, y, s.layout[k].n)
        BY <1>2, <1>6, <3>4, Zenon
      <4> QED
        BY <4>1, <4>2
    <3>6. k \notin S /\ k \notin done
      BY <1>11, <2>3
    <3>7. Ahead(s, reading, cfg, icu, PlacedIn(s, reading, cfg, ground, k, w, v, FALSE), m, S,
                done \cup {k}, spoiled)
      BY <1>5, <1>7, <1>9, <1>11, <1>12, <3>2, <3>5, <3>6, PieceDecoded
    <3>8. More(null_dst, done, k) = done \cup {k}
      BY <2>3 DEF More
    <3> QED
      BY <1>11, <3>3, <3>7, <3>8, Zenon
  <2> QED
    BY <1>7, <2>1, <2>2, <2>3
<1> HIDE DEF kept, coded
<1>22. pc' = "chunk" /\ i' = k /\ i' = i + 1 /\ i' \in 1 .. Count(s)
  BY <1>1, <1>2, <1>4, <1>5, <1>18
<1> QED
  BY <1>1, <1>2, <1>3, <1>20, <1>21, <1>22, Zenon

\* A collection decompressed keeps the invariant.
LEMMA CollectionDecodedLinks ==
  ASSUME SenderInv, LinkInv, DecompressCollection
  PROVE  LinkInv'
<1>1. pc = "chunk" /\ pc \in Decoding
  BY Zenon DEF DecompressCollection, Decoding
<1>2. PICK m, S, d, q :
        /\ Stage(setting, reading, pc, cfg, dst_size, read_bytes, info, ent, m, S, d, q)
        /\ d = Count(setting)
        /\ After(setting, reading, cfg, icu, ground, m, S, DoneOf(setting, pc, null_dst, i),
                 spoiled)
  BY <1>1, DecodingIs
<1>3. /\ pc = "chunk" /\ pc' = "chunk" /\ i' = i + 1 /\ i' \in 1 .. Count(setting)
      /\ Ahead(setting, reading, cfg, icu, ground', m, S,
               DoneOf(setting, "chunk", null_dst, i'), spoiled)
      /\ UNCHANGED <<setting, reading, icu, cfg, dst_size, read_bytes, info, ent, dcfg, null_dst,
                     spoiled>>
  BY <1>2, CollectionStep
<1>4. /\ After(setting, reading, cfg, icu, ground', m, S, DoneOf(setting, pc', null_dst, i'),
               spoiled)
      /\ IsGround(ground') /\ Side(setting, ground') /\ IsBuffer(setting, ground'.data)
  BY <1>3, Zenon DEF Ahead
<1>5. Flow(setting, pc', cfg, ent, dcfg, null_dst, i')
  <2>1. Flow(setting, pc, cfg, ent, dcfg, null_dst, i)
    BY <1>1, DecodingIs
  <2> QED
    BY <1>3, <2>1 DEF Flow
<1>6. pc' \in Received
  BY <1>3 DEF Received
<1> QED
  BY <1>1, <1>2, <1>3, <1>4, <1>5, <1>6, DecodingSteps

\* The end of a chunk keeps the invariant.
LEMMA ChunkDecompressedLinks ==
  ASSUME SenderInv, LinkInv, ChunkDecompressed
  PROVE  LinkInv'
<1>1. /\ pc = "chunk" /\ pc \in Decoding /\ pc \in Received /\ i = get_num_of_chunks /\ Return
      /\ i' = i /\ ground' = ground
      /\ UNCHANGED <<setting, reading, icu, cfg, dst_size, read_bytes, info, ent, dcfg, null_dst,
                     spoiled>>
  BY DEF ChunkDecompressed, Decoding, Received, caller, sender, history
<1>2. PICK m, S, d, q :
        /\ Stage(setting, reading, pc, cfg, dst_size, read_bytes, info, ent, m, S, d, q)
        /\ d = Count(setting)
        /\ After(setting, reading, cfg, icu, ground, m, S, DoneOf(setting, pc, null_dst, i),
                 spoiled)
  BY <1>1, DecodingIs
<1>3. /\ IsGround(ground) /\ Side(setting, ground) /\ IsBuffer(setting, ground.data)
      /\ Flow(setting, pc, cfg, ent, dcfg, null_dst, i)
  BY <1>1, DecodingIs
<1>4. i = Count(setting)
  <2>1. ~ setting.rdcu /\ ~ IsRaw(cfg)
    BY <1>1, <1>3 DEF Flow
  <2> QED
    BY <1>1, <2>1, ChunkReceived
<1>5. /\ pc' \in Received /\ null_dst \in BOOLEAN
      /\ Flow(setting, pc', cfg, ent, dcfg, null_dst, i)
      /\ DoneOf(setting, pc', null_dst, i) = IF null_dst THEN {} ELSE 1 .. Count(setting)
  BY <1>1, Returning
<1>6. DoneOf(setting, pc, null_dst, i) = DoneOf(setting, pc', null_dst, i)
  <2>1. DoneOf(setting, pc, null_dst, i) = IF null_dst THEN {} ELSE 1 .. i
    BY <1>1, Zenon DEF DoneOf
  <2> QED
    BY <1>4, <1>5, <2>1, Zenon
<1>7. After(setting, reading, cfg, icu, ground', m, S, DoneOf(setting, pc', null_dst, i'), spoiled)
  BY <1>1, <1>2, <1>6, Zenon
<1>8. /\ IsGround(ground') /\ Side(setting, ground') /\ IsBuffer(setting, ground'.data)
      /\ Flow(setting, pc', cfg, ent, dcfg, null_dst, i')
  BY <1>1, <1>3, <1>5, Zenon
<1> QED
  BY <1>1, <1>2, <1>5, <1>7, <1>8, DecodingSteps

\* A raw mode uses no model.
LEMMA RawNoModel ==
  ASSUME NEW c, IsRaw(c) PROVE ~ Mod(c)
BY DEF Mod, IsRaw, model_mode_is_used, CMP_MODE_RAW, CMP_MODE_MODEL_ZERO, CMP_MODE_MODEL_MULTI

\* The RDCU has one collection.
LEMMA FirstIsAll ==
  ASSUME SenderInv, setting.rdcu
  PROVE  More(null_dst, {}, 1) = IF null_dst THEN {} ELSE 1 .. Count(setting)
<1>1. {} \cup {1} = 1 .. Count(setting)
  <2>1. Count(setting) = 1
    BY InputIs
  <2> QED
    BY <2>1
<1> QED
  BY <1>1, Zenon DEF More

\* What the ground has behind a bitstream of the RDCU.
BitstreamIn(g, dc, x, y, v, null) ==
  IF IsRaw(dc) THEN LaidOut(dc, g, 0, Column(NoHeader, x), Column(NoHeader, x), null)
  ELSE IF null THEN g
  ELSE LaidOut(dc, g, 0, UpCol(NoHeader, dc, v, y), Column(NoHeader, v), null)

BitstreamOf(col, n) ==
  LET y == At(ground.model, 0, "imagette", n)
  IN  BitstreamIn(ground, dcfg, Converted(setting.ground, col.data, "imagette"), y,
                  Decode(dcfg, "imagette", col.words, y, n), null_dst)

Streaming == {"rdcu", "rdcu data"}
SameStream(col, inf) == col.words = inf.words /\ col.data = inf.data

\* A bitstream of the RDCU is taken.
LEMMA BitstreamPlaced ==
  ASSUME SenderInv, LinkInv, pc \in Streaming, NEW col, NEW n,
         n = setting.layout[1].n, SameStream(col, info),
         NEW m, NEW S, NEW d, NEW q,
         Stage(setting, reading, pc, cfg, dst_size, read_bytes, info, ent, m, S, d, q),
         d = Count(setting),
         After(setting, reading, cfg, icu, ground, m, S, DoneOf(setting, pc, null_dst, i), spoiled)
  PROVE  /\ ~ IsRaw(dcfg) => ~ Undecodable("imagette", col, n)
         /\ Ahead(setting, reading, cfg, icu, BitstreamOf(col, n), m, S, More(null_dst, {}, 1),
                  spoiled)
<1>0. PICK s, x, y, v :
        /\ s = setting /\ x = Converted(setting.ground, col.data, "imagette")
        /\ y = At(ground.model, 0, "imagette", n) /\ v = Decode(dcfg, "imagette", col.words, y, n)
  BY Zenon
<1>1. pc \in Decoding /\ pc \in Received
  BY DEF Decoding, Received, Streaming
<1>2. /\ s \in Settings /\ reading \in 1 .. MaxEntities + 1 /\ IsIcu(icu) /\ IsGround(ground)
      /\ Side(s, ground) /\ IsBuffer(s, ground.data) /\ null_dst \in BOOLEAN
      /\ DecoderCfg(s, cfg, dcfg) /\ Flow(s, pc, cfg, ent, dcfg, null_dst, i)
      /\ cfg.round \in 0 .. 3 /\ cfg.model_value \in Nat /\ GenericValid(cfg)
  BY <1>0, <1>1, DecodingIs
<1>3. s.rdcu /\ i = 0
  BY <1>2 DEF Flow, Streaming
<1>4. Count(s) = 1 /\ Offsets(s)[1] = 0 /\ TypeOf(s, 1) = "imagette"
      /\ HdrOf(s, reading, 1) = NoHeader /\ 1 \in 1 .. Count(s) /\ n = s.layout[1].n
  BY <1>0, <1>3, InputIs DEF TypeOf, HdrOf
<1>5. PICK k : k = 1
  OBVIOUS
<1>6. /\ k \in 1 .. Count(s) /\ 0 = Offsets(s)[k] /\ "imagette" = TypeOf(s, k)
      /\ NoHeader = HdrOf(s, reading, k) /\ n = s.layout[k].n
  <2>1. k \in 1 .. Count(s)
    BY <1>4, <1>5, Zenon
  <2>2. /\ 0 = Offsets(s)[k] /\ "imagette" = TypeOf(s, k) /\ NoHeader = HdrOf(s, reading, k)
        /\ n = s.layout[k].n
    BY <1>4, <1>5, Zenon
  <2> QED
    BY <2>1, <2>2
<1>7. /\ Content(s, reading, cfg, m[k], k \in S, k, info)
      /\ m[k] \in SamplesOf(s, k) /\ SpecificValid(cfg, TypeOf(s, k))
  BY <1>0, <1>1, <1>3, <1>5, <1>6 DEF Streaming, Stage, StreamOk, Coding
<1>8. k \in S <=> IsRaw(cfg)
  BY <1>0, <1>1, <1>3, <1>5 DEF Streaming, Stage, StreamOk
<1>9. PICK done : done = DoneOf(s, pc, null_dst, i)
  OBVIOUS
<1>10. done = {}
  <2>1. pc # "decompressed"
    BY DEF Streaming
  <2> QED
    BY <1>3, <1>9, <2>1, EmptyRange, Zenon DEF DoneOf
<1>11. After(s, reading, cfg, icu, ground, m, S, done, spoiled)
  BY <1>0, <1>9
<1>12. Mod(cfg) => DOMAIN ground.model = Places(s)
  BY <1>11 DEF After
<1>13. dcfg.cmp_mode = cfg.cmp_mode
  BY <1>2 DEF DecoderCfg
<1>14. IsRaw(dcfg) <=> IsRaw(cfg)
  BY <1>13 DEF IsRaw
<1>15. s = setting /\ null_dst \in BOOLEAN
  BY <1>0, <1>2, Zenon
<1>16. PICK more : more = More(null_dst, {}, 1)
  OBVIOUS
<1>17. more = More(null_dst, done, k)
  BY <1>5, <1>10, <1>16, Zenon
<1>18. PICK h : h = BitstreamIn(ground, dcfg, x, y, v, null_dst)
  OBVIOUS
<1>19. BitstreamOf(col, n) = h
  BY <1>0, <1>18, Zenon DEF BitstreamOf
<1>20. done \subseteq 1 .. Count(s) /\ k \notin done /\ (null_dst => done = {})
  BY <1>10
<1>21. CASE IsRaw(cfg)
  <2>1. h = LaidOut(dcfg, ground, 0, Column(NoHeader, x), Column(NoHeader, x), null_dst)
    BY <1>18, <1>21, <1>14, Zenon DEF BitstreamIn
  <2>2. k \in S /\ ~ Mod(dcfg)
    <3>1. ~ Mod(dcfg)
      BY <1>21, <1>14, RawNoModel
    <3> QED
      BY <1>21, <1>8, <3>1, Zenon
  <2>3. h = LaidOut(dcfg, ground, Offsets(s)[k], Column(HdrOf(s, reading, k), x),
                    Column(HdrOf(s, reading, k), x), null_dst)
    BY <1>6, <2>1, Zenon
  <2>4. LaidOut(dcfg, ground, Offsets(s)[k], Column(HdrOf(s, reading, k), x),
                Column(HdrOf(s, reading, k), x), null_dst)
          = PlacedIn(s, reading, cfg, ground, k, x, x, null_dst)
    BY <1>13, <1>15, GroundPlaced
  <2>5. x = Converted(setting.ground, DataOf(s, reading, k), TypeOf(s, k))
    <3>1. col.data = DataOf(s, reading, k)
      BY <1>7, <2>2, Zenon DEF Content, SameStream
    <3> QED
      BY <1>0, <1>6, <3>1, Zenon
  <2>6. Ahead(s, reading, cfg, icu, PlacedIn(s, reading, cfg, ground, k, x, x, null_dst), m, S,
              More(null_dst, done, k), spoiled)
    BY <1>2, <1>6, <1>11, <1>20, <1>21, <2>2, <2>5, PieceStored
  <2> QED
    BY <1>16, <1>17, <1>18, <1>21, <1>14, <1>15, <1>19, <2>3, <2>4, <2>6, Zenon
<1>22. CASE ~ IsRaw(cfg)
  <2>1. PICK words, u : words = info.words /\ u = m[k] /\ words = col.words
    BY Zenon DEF SameStream
  <2>2. words = Encode(cfg, TypeOf(s, k), DataOf(s, reading, k), u) /\ u \in SamplesOf(s, k)
        /\ k \notin S
    BY <1>7, <1>22, <1>8, <2>1, Zenon DEF Content
  <2>3. ~ Undecodable("imagette", col, n)
    <3>1. /\ GenericValid(dcfg) /\ SpecificValid(dcfg, TypeOf(s, k)) /\ HasModel(dcfg, ground)
          /\ ~ TooShort(TypeOf(s, k), words, s.layout[k].n)
      BY <1>2, <1>6, <1>7, <1>12, <1>22, <2>2, PieceTaken
    <3>2. SpecificValid(dcfg, "imagette") /\ ~ TooShort("imagette", col.words, n)
      BY <1>6, <2>1, <3>1, Zenon
    <3> QED
      BY <3>1, <3>2, Decodable
  <2>4. h = IF null_dst THEN ground
            ELSE LaidOut(dcfg, ground, 0, UpCol(NoHeader, dcfg, v, y), Column(NoHeader, v), null_dst)
    BY <1>18, <1>22, <1>14, Zenon DEF BitstreamIn
  <2>5. CASE null_dst
    <3>1. h = ground
      BY <2>4, <2>5
    <3>2. Ahead(s, reading, cfg, icu, h, m, S, done, spoiled)
      BY <1>2, <1>11, <3>1 DEF Ahead
    <3>3. done = more
      BY <1>10, <1>17, <2>5, Zenon DEF More
    <3> QED
      BY <1>16, <1>18, <1>15, <1>19, <2>3, <3>2, <3>3, Zenon
  <2>6. CASE ~ null_dst
    <3>1. PICK w : w = UpModels(dcfg, v, y)
      OBVIOUS
    <3>2. UpCol(NoHeader, dcfg, v, y) = Column(NoHeader, w)
      BY <3>1, UpColIs
    <3>3. PICK null \in BOOLEAN : null = FALSE
      OBVIOUS
    <3>4. h = LaidOut(dcfg, ground, Offsets(s)[k], Column(HdrOf(s, reading, k), w),
                      Column(HdrOf(s, reading, k), v), null)
      <4>0. null = null_dst
        BY <1>2, <2>6, <3>3
      <4>1. h = LaidOut(dcfg, ground, 0, UpCol(NoHeader, dcfg, v, y), Column(NoHeader, v), null)
        BY <2>4, <2>6, <4>0, Zenon
      <4> QED
        BY <1>6, <3>2, <4>1, Zenon
    <3>5. LaidOut(dcfg, ground, Offsets(s)[k], Column(HdrOf(s, reading, k), w),
                  Column(HdrOf(s, reading, k), v), null)
            = PlacedIn(s, reading, cfg, ground, k, w, v, null)
      BY <1>13, <1>15, GroundPlaced
    <3>6. PlacedIn(s, reading, cfg, ground, k, w, v, null)
            = PlacedIn(s, reading, cfg, ground, k, w, v, FALSE)
      BY <3>3, Zenon
    <3>7. /\ words = Encode(cfg, TypeOf(s, k), DataOf(s, reading, k), m[k])
          /\ y = ModelAt(s, ground.model, k)
          /\ v = Decode(dcfg, TypeOf(s, k), words, y, s.layout[k].n)
      <4>1. words = Encode(cfg, TypeOf(s, k), DataOf(s, reading, k), m[k])
        BY <2>1, <2>2, Zenon
      <4>2. y = ModelAt(s, ground.model, k)
        BY <1>0, <1>6, Zenon DEF ModelAt
      <4>3. v = Decode(dcfg, TypeOf(s, k), words, y, s.layout[k].n)
        BY <1>0, <1>6, <2>1, Zenon
      <4> QED
        BY <4>1, <4>2, <4>3
    <3>8. Ahead(s, reading, cfg, icu, PlacedIn(s, reading, cfg, ground, k, w, v, FALSE), m, S,
                done \cup {k}, spoiled)
      BY <1>2, <1>6, <1>7, <1>11, <1>20, <1>22, <2>2, <3>1, <3>7, PieceDecoded
    <3>9. done \cup {k} = more
      BY <1>17, <2>6, Zenon DEF More
    <3> QED
      BY <1>16, <1>18, <1>15, <1>19, <2>3, <3>4, <3>5, <3>6, <3>8, <3>9, Zenon
  <2> QED
    BY <1>2, <2>5, <2>6
<1> QED
  BY <1>21, <1>22

\* A bitstream with all its code words is decompressed in one step.
LEMMA BitstreamStep ==
  ASSUME NEW col, NEW n, FromRdcu(col, n),
         ~ IsRaw(dcfg) => ~ Undecodable("imagette", col, n)
  PROVE  Return /\ ground' = BitstreamOf(col, n)
<1> DEFINE Y == At(ground.model, 0, "imagette", n)
           V == Decode(dcfg, "imagette", col.words, Y, n)
           X == Converted(setting.ground, col.data, "imagette")
<1>1. IF dcfg.cmp_mode = CMP_MODE_RAW
      THEN Return /\ ground' = [ground EXCEPT !.data = Decompressed(0, [hdr |-> NoHeader, data |-> X])]
      ELSE IF Undecodable("imagette", col, n) THEN pc' = "rejected" /\ UNCHANGED <<ground, asked>>
      ELSE /\ Return
           /\ IF null_dst THEN UNCHANGED ground
              ELSE ground' = [IF model_mode_is_used(dcfg.cmp_mode)
                              THEN Updated(ground, 0, [hdr |-> NoHeader,
                                     data |-> UpModels(dcfg, [hdr |-> NoHeader, data |-> V].data, Y)])
                              ELSE ground
                              EXCEPT !.data = Decompressed(0, [hdr |-> NoHeader, data |-> V])]
  BY Zenon DEF FromRdcu, Decoded
<1> HIDE DEF Y, V, X
<1>2. CASE IsRaw(dcfg)
  <2>1. Return /\ ground' = [ground EXCEPT !.data = Decompressed(0, Column(NoHeader, X))]
    BY <1>1, <1>2, Zenon DEF IsRaw, Column
  <2>2. ~ Mod(dcfg)
    BY <1>2, RawNoModel
  <2>3. ground' = LaidOut(dcfg, ground, 0, Column(NoHeader, X), Column(NoHeader, X), null_dst)
    BY <2>1, <2>2, Zenon DEF LaidOut, Decompressed
  <2> QED
    BY <1>2, <2>1, <2>3, Zenon DEF BitstreamOf, BitstreamIn, X
<1>3. CASE ~ IsRaw(dcfg)
  <2>1. /\ Return
        /\ IF null_dst THEN ground' = ground
           ELSE ground' = [IF Mod(dcfg) THEN Updated(ground, 0, UpCol(NoHeader, dcfg, V, Y))
                           ELSE ground
                           EXCEPT !.data = Decompressed(0, Column(NoHeader, V))]
    BY <1>1, <1>3, Zenon DEF IsRaw, Column, UpCol, Mod
  <2>2. IF null_dst THEN ground' = ground
        ELSE ground' = LaidOut(dcfg, ground, 0, UpCol(NoHeader, dcfg, V, Y), Column(NoHeader, V),
                               null_dst)
    BY <2>1, Zenon DEF LaidOut, Decompressed
  <2> QED
    BY <1>3, <2>1, <2>2, Zenon DEF BitstreamOf, BitstreamIn, V, Y
<1> QED
  BY <1>2, <1>3, Zenon

\* The decompressed imagettes of the RDCU keep the invariant.
LEMMA BitstreamLinks ==
  ASSUME SenderInv, LinkInv, \/ DecompressRdcuEntity \/ DecompressRdcuData
  PROVE  LinkInv'
<1>1. /\ pc \in Streaming /\ i' = i
      /\ UNCHANGED <<setting, reading, icu, cfg, dst_size, read_bytes, info, ent, dcfg, null_dst,
                     spoiled>>
  BY DEF Streaming, DecompressRdcuEntity, DecompressRdcuData, caller, sender, history
<1>2. pc \in Decoding /\ pc \in Received
  BY <1>1 DEF Decoding, Received, Streaming
<1>3. PICK m, S, d, q :
        /\ Stage(setting, reading, pc, cfg, dst_size, read_bytes, info, ent, m, S, d, q)
        /\ d = Count(setting)
        /\ After(setting, reading, cfg, icu, ground, m, S, DoneOf(setting, pc, null_dst, i),
                 spoiled)
  BY <1>2, DecodingIs
<1>4. Flow(setting, pc, cfg, ent, dcfg, null_dst, i)
  BY <1>2, DecodingIs
<1>5. setting.rdcu
  BY <1>1, <1>4 DEF Flow, Streaming
<1>6. PICK col, n : FromRdcu(col, n) /\ n = setting.layout[1].n /\ SameStream(col, info)
  <2>1. CASE DecompressRdcuEntity
    <3>1. pc = "rdcu" /\ FromRdcu(ent.body[0], cmp_ent_get_original_size(ent.h) \div 2)
      BY <2>1, Zenon DEF DecompressRdcuEntity
    <3>2. ent # NoEntity
      BY <1>4, <3>1 DEF Flow
    <3>3. cmp_ent_get_original_size(ent.h) \div 2 = setting.layout[1].n
      BY <1>2, <1>5, <3>2, RdcuReceived
    <3>4. ent.body[0].words = info.words /\ ent.body[0].data = info.data
      BY <1>3, <1>5, <3>2 DEF Stage, StreamOk
    <3> QED
      BY <3>1, <3>3, <3>4, Zenon DEF SameStream
  <2>2. CASE DecompressRdcuData
    <3>1. FromRdcu([words |-> info.words, data |-> info.data], info.samples)
      BY <2>2, Zenon DEF DecompressRdcuData
    <3>2. info.samples = setting.layout[1].n
      BY <1>2, <1>5, RdcuReceived
    <3>3. PICK col : col = [words |-> info.words, data |-> info.data]
      OBVIOUS
    <3>4. col.words = info.words /\ col.data = info.data
      BY <3>3
    <3> QED
      BY <3>1, <3>2, <3>3, <3>4, Zenon DEF SameStream
  <2> QED
    BY <2>1, <2>2
<1>7. /\ Return
      /\ Ahead(setting, reading, cfg, icu, ground', m, S,
               IF null_dst THEN {} ELSE 1 .. Count(setting), spoiled)
  <2>1. /\ ~ IsRaw(dcfg) => ~ Undecodable("imagette", col, n)
        /\ Ahead(setting, reading, cfg, icu, BitstreamOf(col, n), m, S, More(null_dst, {}, 1),
                 spoiled)
    BY <1>1, <1>3, <1>6, BitstreamPlaced
  <2>2. Return /\ ground' = BitstreamOf(col, n)
    BY <1>6, <2>1, BitstreamStep, Zenon
  <2>3. More(null_dst, {}, 1) = IF null_dst THEN {} ELSE 1 .. Count(setting)
    BY <1>5, FirstIsAll
  <2> QED
    BY <2>1, <2>2, <2>3, Zenon
<1>8. /\ pc' \in Received /\ null_dst \in BOOLEAN
      /\ Flow(setting, pc', cfg, ent, dcfg, null_dst, i)
      /\ DoneOf(setting, pc', null_dst, i) = IF null_dst THEN {} ELSE 1 .. Count(setting)
  BY <1>2, <1>7, Returning
<1>9. /\ After(setting, reading, cfg, icu, ground', m, S, DoneOf(setting, pc', null_dst, i'),
               spoiled)
      /\ IsGround(ground') /\ Side(setting, ground') /\ IsBuffer(setting, ground'.data)
  BY <1>1, <1>7, <1>8, Zenon DEF Ahead
<1>10. Flow(setting, pc', cfg, ent, dcfg, null_dst, i')
  BY <1>1, <1>8, Zenon
<1> QED
  BY <1>1, <1>2, <1>3, <1>8, <1>9, <1>10, DecodingSteps

\* The ground is done: both sides have the model of the next entity.
LEMMA NextChunkLinks ==
  ASSUME SenderInv, LinkInv, NextChunk
  PROVE  LinkInv'
<1>1. /\ pc = "decompressed" /\ pc' = "idle" /\ i' = 0 /\ null_dst' = FALSE
      /\ ground' = [NextModel(ground, dcfg, ground.data) EXCEPT !.data = NoBuffer]
      /\ UNCHANGED <<setting, icu, spoiled>>
  BY DEF NextChunk, history
<1>2. PICK s, g, h : s = setting /\ g = ground /\ h = ground'
  OBVIOUS
<1>3. PICK m, S, d, q :
        /\ Stage(s, reading, pc, cfg, dst_size, read_bytes, info, ent, m, S, d, q)
        /\ Trust(s, reading, pc, icu, g, cfg, null_dst, i, spoiled, m, S, d)
  BY <1>1, <1>2, GoingIs
<1>4. After(s, reading, cfg, icu, g, m, S, 1 .. Count(s), spoiled)
  <2>1. pc \in Received /\ DoneOf(s, pc, null_dst, i) = 1 .. Count(s)
    BY <1>1 DEF Received, DoneOf
  <2> QED
    BY <1>3, <2>1 DEF Trust
<1>5. /\ s \in Settings /\ Side(s, icu) /\ Side(s, g) /\ IsGround(g) /\ IsBuffer(s, g.data)
      /\ IsIcu(icu) /\ spoiled \in BOOLEAN
  BY <1>2, SettingChunk DEF SenderInv, LinkInv, SidesInv, Sides
<1>6. DecoderCfg(s, cfg, dcfg)
  BY <1>1, <1>2 DEF LinkInv, FlowInv, Flow, Received
<1>7. dcfg.cmp_mode = cfg.cmp_mode
  BY <1>6 DEF DecoderCfg
<1>8. h = NextGround(s, g, dcfg)
  <2>1. NextModel(g, dcfg, g.data) = NextModelOf(s, g, dcfg, g.data)
    BY <1>2, NextModelIs
  <2> QED
    BY <1>1, <1>2, <2>1, Zenon DEF NextGround
<1>9. /\ DOMAIN icu.model = DOMAIN h.model /\ Side(s, h) /\ IsGround(h) /\ IsBuffer(s, h.data)
      /\ (~ spoiled => icu.model = h.model)
  <2>1. Ready(s, icu, NextGround(s, g, dcfg), spoiled)
    BY <1>4, <1>5, <1>7, AfterFinished
  <2> QED
    BY <1>8, <2>1, Zenon DEF Ready
<1>10. SidesInv'
  BY <1>1, <1>2, <1>5, <1>9 DEF SidesInv, Sides
<1>11. IdleInv'
  BY <1>1, <1>2, <1>9 DEF IdleInv, IdleOk
<1>12. GoingInv' /\ FlowInv'
  BY <1>1 DEF GoingInv, FlowInv, Received
<1> QED
  BY <1>10, <1>11, <1>12 DEF LinkInv

\* Every step keeps the invariant of the link.
LEMMA LinkSteps ==
  ASSUME SenderInv, LinkInv, [Next]_vars PROVE LinkInv'
<1>1. CASE Compression
  <2>1. CASE \E mode \in CmpMode, start \in Stamps : compress_chunk(mode, start)
    BY <2>1, CompressChunkLinks
  <2>2. CASE \/ RawCollection \/ StoredRaw
             \/ AtCollection /\ \E size \in 0 .. Col.hdr.len : Compressed(size)
    BY <2>2, CollectionLinks
  <2>3. CASE CollectionRefused \/ NoRoomForHeader \/ \E end \in Stamps : HeaderRefused(end)
    BY <2>3, FailureLinks
  <2>4. CASE AtCollection /\ \E n \in 0 .. Len(Col.data) - 1 : SmallBuffer(n)
    BY <2>4, SmallBufferLinks
  <2>5. CASE \E end \in Stamps : cmp_ent_build_chunk_header(end)
    BY <2>5, BuildLinks
  <2>6. CASE \E id \in Ids : compress_chunk_set_model_id_and_counter(id[1], id[2])
    BY <2>6, IdentifiersLink
  <2> QED
    BY <1>1, <2>1, <2>2, <2>3, <2>4, <2>5, <2>6, Zenon DEF Compression
<1>2. CASE RdcuCompression
  <2>1. CASE \E r \in RdcuConfigs, size \in 0 .. ChunkSize :
               size \in Shorter(ChunkSize) \cup {ChunkSize} /\ compress_like_rdcu(r, 8 * size)
    BY <2>1, RdcuLinks
  <2>2. CASE \E r \in RdcuConfigs : compress_like_rdcu_refuses(r)
    BY <2>2, RdcuFailureLinks
  <2>3. CASE \E r \in RdcuConfigs, n \in 0 .. 1 : compress_like_rdcu_small_buffer(r, n)
    BY <2>3, RdcuFailureLinks
  <2>4. CASE \E type \in imagettes, raw \in BOOLEAN : cmp_ent_write_rdcu_cmp_pars(type, raw)
    BY <2>4, WriteLinks
  <2> QED
    BY <1>2, <2>1, <2>2, <2>3, <2>4, Zenon DEF RdcuCompression
<1>3. CASE Decompression
  <2>1. CASE \E null \in BOOLEAN : decompress_cmp_entiy(null) \/ decompress_rdcu_data(null)
    BY <2>1, EntityStarts, DataStarts
  <2>2. CASE RawChunk \/ DecompressCollection \/ ChunkDecompressed
    BY <2>2, RawLinks, CollectionDecodedLinks, ChunkDecompressedLinks
  <2>3. CASE DecompressRdcuEntity \/ DecompressRdcuData
    BY <2>3, BitstreamLinks
  <2> QED
    BY <1>3, <2>1, <2>2, <2>3, Zenon DEF Decompression
<1>4. CASE Send
  BY <1>4, SendLinks
<1>5. CASE NextChunk
  BY <1>5, NextChunkLinks
<1>6. CASE UNCHANGED vars
  <2>1. UNCHANGED <<setting, reading, icu, ground, pc, cfg, dst_size, read_bytes, info, ent, dcfg,
                    null_dst, i, spoiled>>
    BY <1>6 DEF vars, caller, sender, receiver, history
  <2> QED
    BY <2>1 DEF LinkInv, SidesInv, IdleInv, GoingInv, FlowInv
<1> QED
  BY <1>1, <1>2, <1>3, <1>4, <1>5, <1>6 DEF Next, Stop

\* Accepted: whatever the compressor finished and the caller sent, the decompressor takes; it
\* never rejects an entity of its own program.
THEOREM AcceptedCorrect == Spec => []Accepted
<1>1. Init => SenderInv /\ LinkInv
  BY InitSender, InitLink
<1>2. SenderInv /\ LinkInv /\ [Next]_vars => SenderInv' /\ LinkInv'
  BY SenderSteps, LinkSteps
<1>3. LinkInv => Accepted
  BY LinkInvGives
<1> QED
  BY <1>1, <1>2, <1>3, PTL DEF Spec

\* ModelsAgree: between two chunks, the model of the instrument and the one of the ground
\* are the same, unless a failed compression left the instrument's half updated.
THEOREM ModelsAgreeCorrect == Spec => []ModelsAgree
<1>1. Init => SenderInv /\ LinkInv
  BY InitSender, InitLink
<1>2. SenderInv /\ LinkInv /\ [Next]_vars => SenderInv' /\ LinkInv'
  BY SenderSteps, LinkSteps
<1>3. LinkInv => ModelsAgree
  BY LinkInvGives
<1> QED
  BY <1>1, <1>2, <1>3, PTL DEF Spec

\* What was decompressed is what was compressed.
DeliveredAsSent == Delivered /\ ~ spoiled => ground.data = Lossy(cfg, chunk)

\* What is returned is the chunk, as lossy as it was asked.
LEMMA DeliveredAgain ==
  ASSUME SenderInv, LinkInv PROVE DeliveredAsSent
<1> SUFFICES ASSUME pc = "decompressed", ~ spoiled PROVE ground.data = Lossy(cfg, chunk)
  BY DEF DeliveredAsSent, Delivered
<1>1. PICK m, S, d, q :
        /\ Stage(setting, reading, pc, cfg, dst_size, read_bytes, info, ent, m, S, d, q)
        /\ Trust(setting, reading, pc, icu, ground, cfg, null_dst, i, spoiled, m, S, d)
  BY GoingIs
<1>2. After(setting, reading, cfg, icu, ground, m, S, 1 .. Count(setting), spoiled)
  <2>1. pc \in Received /\ DoneOf(setting, pc, null_dst, i) = 1 .. Count(setting)
    BY DEF Received, DoneOf
  <2> QED
    BY <1>1, <2>1 DEF Trust
<1>3. PICK b : b = Lossy(cfg, chunk)
  OBVIOUS
<1>4. IsLossy(setting, reading, cfg, b)
  BY <1>1, <1>3, LossyChunk
<1>5. IsBuffer(setting, ground.data) /\ Side(setting, ground)
  BY DEF LinkInv, SidesInv, Sides
<1>6. ground.data = b
  BY <1>2, <1>4, <1>5, AfterDelivered
<1> QED
  BY <1>3, <1>6

\* Something enters the link.
LEMMA SomethingSent ==
  ASSUME SenderInv, LinkInv, Send PROVE Lossy(cfg, chunk) # NoBuffer
<1>1. pc # "idle" /\ pc # "collections"
  BY DEF Send
<1>2. PICK m, S, d, q :
        Stage(setting, reading, pc, cfg, dst_size, read_bytes, info, ent, m, S, d, q)
  BY <1>1, GoingIs
<1>3. PICK b : b = Lossy(cfg, chunk)
  OBVIOUS
<1>4. DOMAIN b = Places(setting)
  BY <1>1, <1>2, <1>3, LossyChunk DEF IsLossy
<1>5. Places(setting) # {} /\ DOMAIN NoBuffer = {}
  <2>1. setting \in Settings /\ 1 \in 1 .. Count(setting)
    BY SettingChunk, Layout DEF SenderInv
  <2> QED
    BY <2>1, PlacesIs, NoBufferIs
<1> QED
  BY <1>3, <1>4, <1>5

\* Where the chunk is.
LinkPlace == IF InTransit THEN "transit" ELSE IF Delivered THEN "ground" ELSE "instrument"
LinkSent == IF InTransit \/ Delivered THEN Lossy(cfg, chunk) ELSE NoBuffer
LinkGot == IF Delivered THEN ground.data ELSE NoBuffer

\* Where the chunk is, by the state of the program.
LEMMA PlacesOfLink ==
  /\ pc \notin Received => LinkPlace = "instrument" /\ LinkSent = NoBuffer /\ LinkGot = NoBuffer
  /\ pc \in Received \ {"decompressed"} =>
       LinkPlace = "transit" /\ LinkSent = Lossy(cfg, chunk) /\ LinkGot = NoBuffer
  /\ pc = "decompressed" =>
       LinkPlace = "ground" /\ LinkSent = Lossy(cfg, chunk) /\ LinkGot = ground.data
BY DEF Received, LinkPlace, LinkSent, LinkGot, InTransit, Delivered

\* The instrument works on the chunk.
LEMMA InstrumentStep ==
  ASSUME pc \notin Received, pc' \notin Received, reading' = reading,
         spoiled \in BOOLEAN, spoiled' \in BOOLEAN, spoiled => spoiled'
  PROVE  Link!Fail
<1>1. LinkPlace = "instrument" /\ LinkSent = NoBuffer /\ LinkGot = NoBuffer
  BY PlacesOfLink
<1>2. LinkPlace' = "instrument" /\ LinkSent' = NoBuffer /\ LinkGot' = NoBuffer
  BY DEF Received, LinkPlace, LinkSent, LinkGot, InTransit, Delivered
<1>3. (~ spoiled)' \in {~ spoiled, FALSE}
  OBVIOUS
<1> QED
  BY <1>1, <1>2, <1>3 DEF Link!Fail, LinkPlace, LinkSent, LinkGot

\* The initial states are those of the link.
LEMMA InitialLink ==
  ASSUME Init PROVE Link!Init
BY DEF Init, Link!Init, InTransit, Delivered

\* A step of the decompressor: the entity stays, until it is decompressed.
LEMMA DecompressionStays ==
  ASSUME Decompression
  PROVE  /\ pc \in Received \ {"decompressed"} /\ pc' \in Received
         /\ UNCHANGED <<reading, chunk, cfg, spoiled>>
<1>1. CASE \E null \in BOOLEAN : decompress_cmp_entiy(null) \/ decompress_rdcu_data(null)
  <2>1. PICK null \in BOOLEAN : decompress_cmp_entiy(null) \/ decompress_rdcu_data(null)
    BY <1>1
  <2>2. CASE decompress_cmp_entiy(null)
    BY <2>2 DEF decompress_cmp_entiy, Received, caller, sender, history
  <2>3. CASE decompress_rdcu_data(null)
    BY <2>3 DEF decompress_rdcu_data, Received, caller, sender, history
  <2> QED
    BY <2>1, <2>2, <2>3
<1>2. CASE RawChunk
  BY <1>2 DEF RawChunk, Return, Received, caller, sender, history
<1>3. CASE DecompressCollection
  <2>1. pc = "chunk" /\ (pc' = "rejected" \/ pc' = pc) /\ UNCHANGED <<caller, sender, history>>
    BY <1>3, Zenon DEF DecompressCollection
  <2> QED
    BY <2>1 DEF Received, caller, sender, history
<1>4. CASE ChunkDecompressed
  BY <1>4 DEF ChunkDecompressed, Return, Received, caller, sender, history
<1>5. CASE DecompressRdcuEntity \/ DecompressRdcuData
  <2>1. PICK col, n : FromRdcu(col, n)
    BY <1>5, Zenon DEF DecompressRdcuEntity, DecompressRdcuData
  <2>2. pc' = "rejected" \/ Return
    BY <2>1, Zenon DEF FromRdcu
  <2>3. pc \in {"rdcu", "rdcu data"} /\ UNCHANGED <<caller, sender, history>>
    BY <1>5 DEF DecompressRdcuEntity, DecompressRdcuData
  <2> QED
    BY <2>2, <2>3 DEF Return, Received, caller, sender, history
<1> QED
  BY <1>1, <1>2, <1>3, <1>4, <1>5, Zenon DEF Decompression

\* A step of the compressor: nothing is on its way, and a spoiled model stays spoiled.
LEMMA CompressionStays ==
  ASSUME Compression \/ RdcuCompression, spoiled \in BOOLEAN
  PROVE  /\ pc \notin Received /\ pc' \notin Received /\ reading' = reading
         /\ spoiled' \in BOOLEAN /\ (spoiled => spoiled')
<1>1. CASE \E mode \in CmpMode, start \in Stamps : compress_chunk(mode, start)
  <2>1. PICK mode, start : compress_chunk(mode, start)
    BY <1>1
  <2> QED
    BY <2>1 DEF compress_chunk, caller, history, Received
<1>2. CASE \/ RawCollection \/ StoredRaw
           \/ AtCollection /\ \E size \in 0 .. Col.hdr.len : Compressed(size)
  <2>1. pc = "collections"
    BY <1>2 DEF RawCollection, StoredRaw, Compressed, Checked, AtCollection
  <2>2. PICK words, data, size : Finish(words, data, size)
    BY <1>2, Zenon DEF RawCollection, StoredRaw, Compressed
  <2>3. UNCHANGED <<pc, caller, history>>
    BY <2>2 DEF Finish
  <2> QED
    BY <2>1, <2>3 DEF caller, history, Received
<1>3. CASE \/ CollectionRefused \/ NoRoomForHeader \/ \E end \in Stamps : HeaderRefused(end)
           \/ AtCollection /\ \E n \in 0 .. Len(Col.data) - 1 : SmallBuffer(n)
           \/ \E r \in RdcuConfigs : compress_like_rdcu_refuses(r)
           \/ \E r \in RdcuConfigs, n \in 0 .. 1 : compress_like_rdcu_small_buffer(r, n)
  <2>1. pc \in {"collections", "idle"}
    BY <1>3 DEF CollectionRefused, NoRoomForHeader, HeaderRefused, SmallBuffer, Checked, AtCollection,
       compress_like_rdcu_refuses, compress_like_rdcu_small_buffer, AtInput
  <2>2. PICK c, touched : Fails(c, touched)
    BY <1>3, Zenon DEF CollectionRefused, NoRoomForHeader, HeaderRefused, SmallBuffer,
       compress_like_rdcu_refuses, compress_like_rdcu_small_buffer
  <2>3. /\ pc' = "idle" /\ UNCHANGED caller
        /\ spoiled' = (spoiled \/ (touched /\ setting.update = "in_place"
                                   /\ model_mode_is_used(c.cmp_mode)))
    BY <2>2 DEF Fails
  <2> QED
    BY <2>1, <2>3 DEF caller, Received
<1>4. CASE \E end \in Stamps : cmp_ent_build_chunk_header(end)
  <2>1. PICK end : cmp_ent_build_chunk_header(end)
    BY <1>4
  <2> QED
    BY <2>1 DEF cmp_ent_build_chunk_header, caller, history, Received
<1>5. CASE \E id \in Ids : compress_chunk_set_model_id_and_counter(id[1], id[2])
  <2>1. PICK id, counter : compress_chunk_set_model_id_and_counter(id, counter)
    BY <1>5
  <2> QED
    BY <2>1 DEF compress_chunk_set_model_id_and_counter, caller, history, Received
<1>6. CASE \E r \in RdcuConfigs, size \in 0 .. ChunkSize :
             size \in Shorter(ChunkSize) \cup {ChunkSize} /\ compress_like_rdcu(r, 8 * size)
  <2>1. PICK r, bits : compress_like_rdcu(r, bits)
    BY <1>6
  <2>2. AtInput /\ pc' = "compressed" /\ UNCHANGED <<caller, history>>
    BY <2>1, Zenon DEF compress_like_rdcu
  <2> QED
    BY <2>2 DEF AtInput, caller, history, Received
<1>7. CASE \E type \in imagettes, raw \in BOOLEAN : cmp_ent_write_rdcu_cmp_pars(type, raw)
  <2>1. PICK type, raw : cmp_ent_write_rdcu_cmp_pars(type, raw)
    BY <1>7
  <2>2. pc = "compressed" /\ pc' = "built" /\ UNCHANGED <<caller, history>>
    BY <2>1, Zenon DEF cmp_ent_write_rdcu_cmp_pars
  <2> QED
    BY <2>2 DEF caller, history, Received
<1> QED
  BY <1>1, <1>2, <1>3, <1>4, <1>5, <1>6, <1>7, Zenon DEF Compression, RdcuCompression

\* Every step of the two sides is a step of the link.
LEMMA LinkImplemented ==
  ASSUME SenderInv, LinkInv, DeliveredAsSent', [Next]_vars
  PROVE  [Link!Next]_(Link!vars)
<1>0. spoiled \in BOOLEAN
  BY DEF LinkInv, SidesInv
<1>1. CASE Compression \/ RdcuCompression
  <2>1. Link!Fail
    BY <1>0, <1>1, CompressionStays, InstrumentStep
  <2> QED
    BY <2>1 DEF Link!Next
<1>2. CASE Send
  <2>1. /\ pc \notin Received /\ pc' = "received" /\ UNCHANGED <<reading, chunk, cfg>>
        /\ spoiled' = (spoiled /\ model_mode_is_used(cfg.cmp_mode))
    BY <1>2 DEF Send, Received, caller
  <2>2. LinkPlace = "instrument" /\ LinkGot = NoBuffer
    BY <2>1, PlacesOfLink
  <2>3. LinkPlace' = "transit" /\ LinkGot' = NoBuffer /\ LinkSent' = Lossy(cfg, chunk)
    BY <2>1 DEF LinkPlace, LinkSent, LinkGot, InTransit, Delivered
  <2>4. Lossy(cfg, chunk) # NoBuffer
    BY <1>2, SomethingSent
  <2>5. (~ spoiled)' \in {~ spoiled, TRUE}
    BY <1>0, <2>1
  <2>6. Link!Send
    BY <2>1, <2>2, <2>3, <2>4, <2>5 DEF Link!Send, LinkPlace, LinkSent, LinkGot
  <2> QED
    BY <2>6 DEF Link!Next
<1>3. CASE Decompression
  <2>1. /\ pc \in Received \ {"decompressed"} /\ pc' \in Received
        /\ UNCHANGED <<reading, chunk, cfg, spoiled>>
    BY <1>3, DecompressionStays
  <2>2. LinkPlace = "transit" /\ LinkSent = Lossy(cfg, chunk) /\ LinkGot = NoBuffer
    BY <2>1, PlacesOfLink
  <2>3. Lossy(cfg, chunk)' = Lossy(cfg, chunk)
    BY <2>1
  <2>4. CASE pc' = "decompressed"
    <3>1. LinkPlace' = "ground" /\ LinkSent' = Lossy(cfg, chunk) /\ LinkGot' = ground.data'
      BY <2>3, <2>4 DEF LinkPlace, LinkSent, LinkGot, InTransit, Delivered
    <3>2. ~ spoiled => ground.data' = Lossy(cfg, chunk)
      BY <2>1, <2>3, <2>4 DEF DeliveredAsSent, Delivered
    <3>3. Link!Deliver
      BY <2>1, <2>2, <3>1, <3>2 DEF Link!Deliver, LinkPlace, LinkSent, LinkGot
    <3> QED
      BY <3>3 DEF Link!Next
  <2>5. CASE pc' # "decompressed"
    <3>1. LinkPlace' = "transit" /\ LinkSent' = Lossy(cfg, chunk) /\ LinkGot' = NoBuffer
      BY <2>1, <2>3, <2>5 DEF Received, LinkPlace, LinkSent, LinkGot, InTransit, Delivered
    <3> QED
      BY <2>1, <2>2, <3>1 DEF Link!vars, LinkPlace, LinkSent, LinkGot
  <2> QED
    BY <2>4, <2>5
<1>4. CASE NextChunk
  <2>1. pc = "decompressed" /\ pc' = "idle" /\ reading' = reading + 1 /\ UNCHANGED spoiled
    BY <1>4 DEF NextChunk, history
  <2>2. LinkPlace = "ground"
    BY <2>1, PlacesOfLink
  <2>3. LinkPlace' = "instrument" /\ LinkSent' = NoBuffer /\ LinkGot' = NoBuffer
    BY <2>1 DEF LinkPlace, LinkSent, LinkGot, InTransit, Delivered
  <2>4. Link!Done
    BY <2>1, <2>2, <2>3 DEF Link!Done, LinkPlace, LinkSent, LinkGot
  <2> QED
    BY <2>4 DEF Link!Next
<1>5. CASE UNCHANGED vars
  <2>1. UNCHANGED <<reading, chunk, pc, cfg, ground, spoiled>>
    BY <1>5 DEF vars, caller, sender, receiver, history
  <2> QED
    BY <2>1 DEF Link!vars, InTransit, Delivered
<1> QED
  BY <1>1, <1>2, <1>3, <1>4, <1>5 DEF Next, Stop

\* Delivers: compression, transport and decompression implement the link of DataLink, which
\* returns the chunk that was sent, as lossy as it was asked, as long as its model is
\* trusted.
THEOREM DeliversCorrect == Spec => Delivers
<1>1. Init => SenderInv /\ LinkInv /\ Link!Init
  BY InitSender, InitLink, InitialLink
<1>2. SenderInv /\ LinkInv /\ [Next]_vars => SenderInv' /\ LinkInv'
  BY SenderSteps, LinkSteps
<1>3. SenderInv /\ LinkInv => DeliveredAsSent
  BY DeliveredAgain
<1>4. SenderInv /\ LinkInv /\ DeliveredAsSent' /\ [Next]_vars => [Link!Next]_(Link!vars)
  BY LinkImplemented
<1> QED
  BY <1>1, <1>2, <1>3, <1>4, PTL DEF Spec, Delivers, Link!Spec
=============================================================================
