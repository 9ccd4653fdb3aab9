--------------------------- MODULE SessionsProofs ---------------------------
(***************************************************************************)
(* For every number of streams, slots, channels, tokens and publishers, a  *)
(* relay or not: a session's state, identity, slot, subscriptions and      *)
(* references stay its own, and nothing of it outlives it.                 *)
(***************************************************************************)
EXTENDS Sessions, FiniteSetTheorems, SequenceTheorems, TLAPS

-----------------------------------------------------------------------------
\* The inductive invariant.

Early  == {"new", "pop", "bump", "rollback", "repop"}
Unreg  == Early \union {"register"}
Up     == {"serve", "cleanup"}
Bound  == Up \union {"unsubscribe"}
Ending == {"free", "clear", "append"}
Pcs    == Unreg \union Bound \union {"upstream", "gone"} \union Ending

Subjects == {NoSubject} \union { t.subject : t \in Tokens }
FinChans == { S \in SUBSET Chans : IsFiniteSet(S) }
States   == [auth : BOOLEAN, subject : Subjects, subs : FinChans]
Ids      == [n : Nat, gen : Nat]
Sess     == [pc : Pcs, slot : 0 .. MaxSlots, id : Ids, done : BOOLEAN,
             authTimer : {"off", "armed", "running"}, expiry : {"off", "armed"},
             allow : SUBSET Chans, up : SUBSET Chans]

Types ==
  /\ sess \in [All -> Sess]
  /\ heap \in [All -> States] /\ slots \in [Slots -> States]
  /\ arena \in [offset : Nat, free : Seq(Slots), inFree : SUBSET Slots]
  /\ gen \in [Slots -> Nat]
  /\ arr \in [Slots -> [gen : Nat, conn : All \union {NoConn}]]
  /\ overflow \subseteq [id : Ids, conn : All]
  /\ nextID \in [grpc : Nat, ws : Nat]
  /\ engine \in [Chans -> SUBSET Ids] /\ refs \in [Chans -> Int]
  /\ count \in [grpc : Int, ws : Int]
  /\ pub \in [Pubs -> SUBSET Ids]
  /\ stop \in {"running", "wsDown", "draining", "closed"}
  /\ who \in [All -> Subjects]
  /\ stray \in BOOLEAN /\ late \in BOOLEAN

\* What a session has at each point of its handler.
Local(c) ==
  /\ c \in WsConns => sess[c].slot = 0 /\ sess[c].pc \in {"new", "gone"} \union Bound
  /\ sess[c].pc \in Early => sess[c].slot = 0
  /\ sess[c].pc \in Ending => sess[c].slot # 0
  /\ sess[c].pc = "upstream" => Hooked(c)
  /\ sess[c].pc \in Unreg => sess[c].id = NoId /\ who[c] = NoSubject /\ heap[c] = Clean
  /\ ~Hooked(c) \/ sess[c].pc \notin Bound \union {"upstream"} => sess[c].up = {}

Holds(c, i) == sess[c].slot = i /\ sess[c].pc # "gone"
Listed(i)   == \E k \in 1 .. Len(arena.free) : arena.free[k] = i
Rolling     == { c \in Conns : sess[c].pc = "rollback" }

\* A slot is with one session, or on the free list once, or above the bump
\* pointer; the guard marks what is listed or about to be.
SlotPlaced(i) ==
  /\ \A c, d \in Conns : Holds(c, i) /\ Holds(d, i) => c = d
  /\ \A c \in Conns : Holds(c, i) => ~Listed(i) /\ i <= arena.offset
  /\ Listed(i) => i <= arena.offset
  /\ i <= arena.offset => Listed(i) \/ \E c \in Conns : Holds(c, i)
  /\ i \in arena.inFree <=>
       Listed(i) \/ \E c \in Conns : Holds(c, i) /\ sess[c].pc \in {"clear", "append"}

ListedOnce ==
  \A k, l \in 1 .. Len(arena.free) : arena.free[k] = arena.free[l] => k = l

\* The pointer is past the end by those that have to take it back.
Overshoot ==
  IF Rolling = {} THEN arena.offset <= MaxSlots
                  ELSE arena.offset = MaxSlots + Cardinality(Rolling)

Placed == (\A i \in Slots : SlotPlaced(i)) /\ ListedOnce /\ Overshoot

Named == { c \in Conns : sess[c].pc \notin Unreg }

\* Slots, the counter above them and the websocket range give apart identities.
IdOf(c) ==
  sess[c].pc \notin Unreg =>
    IF c \in Conns
    THEN \/ /\ sess[c].id.n \in Slots /\ sess[c].id.gen \in 1 .. gen[sess[c].id.n]
            /\ sess[c].pc # "gone" => sess[c].slot = sess[c].id.n
         \/ /\ sess[c].id.n \in MaxSlots + 1 .. nextID.grpc /\ sess[c].id.gen = 0
            /\ sess[c].pc # "gone" => sess[c].slot = 0
    ELSE sess[c].id.n \in WsOffset + 1 .. nextID.ws /\ sess[c].id.gen = 0

\* No generation and no counter gets further than the sessions named.
Counted ==
  /\ nextID.grpc <= MaxSlots + Cardinality(Named)
  /\ MaxSlots <= nextID.grpc /\ WsOffset <= nextID.ws
  /\ \A i \in Slots : gen[i] <= Cardinality(Named)

Apart ==
  \A c, d \in All :
    sess[c].pc \notin Unreg /\ sess[d].pc \notin Unreg /\ sess[c].id = sess[d].id => c = d

Identified == (\A c \in All : IdOf(c)) /\ Counted /\ Apart

\* The store has exactly the sessions that are up.
Found(c) ==
  sess[c].pc \in Up =>
    IF Flat(sess[c].id)
    THEN arr[sess[c].id.n] = [gen |-> sess[c].id.gen, conn |-> c]
    ELSE [id |-> sess[c].id, conn |-> c] \in overflow

Stored ==
  /\ \A c \in All : Found(c)
  /\ \A i \in Slots : arr[i].conn # NoConn =>
       /\ sess[arr[i].conn].pc \in Up
       /\ sess[arr[i].conn].id = [n |-> i, gen |-> arr[i].gen]
  /\ \A e \in overflow :
       sess[e.conn].pc \in Up /\ sess[e.conn].id = e.id /\ ~Flat(e.id)

\* Memory nobody has registered with is clean.
Wiped ==
  \A i \in Slots :
    (\A c \in Conns : Holds(c, i) => sess[c].pc \in {"register", "append"}) => slots[i] = Clean

\* The session's own books: who it is, what it listens to.
Books(c) ==
  Serving(c) =>
    /\ State(c).auth = (who[c] # NoSubject)
    /\ State(c).subject = who[c]
    /\ State(c).subs = { ch \in Chans : sess[c].id \in engine[ch] }
    /\ Hooked(c) => sess[c].up = State(c).subs

Listening ==
  \A ch \in Chans : \A id \in engine[ch] : \E c \in All :
    sess[c].id = id /\ sess[c].pc \in Bound

Holders(ch) == { c \in Conns : ch \in sess[c].up }

RefsCounted ==
  \A ch \in Chans : refs[ch] = IF ch \in Relayed THEN Cardinality(Holders(ch)) ELSE 0

Connected == { c \in Conns : sess[c].pc \in Up }

ConnsCounted == count.grpc = Cardinality(Connected)

\* No identity in flight asks for generation zero of a slot.
Addressed == ~stray /\ \A p \in Pubs : \A id \in pub[p] : id.n \in Slots => id.gen # 0

Quiesced == stop = "closed" => \A c \in Conns : sess[c].pc \in {"new", "gone"}

IInv ==
  /\ Types
  /\ \A c \in All : Local(c)
  /\ Placed /\ Identified /\ Stored
  /\ Wiped /\ \A c \in All : Books(c)
  /\ Listening /\ RefsCounted /\ ConnsCounted /\ Addressed /\ Quiesced

-----------------------------------------------------------------------------
\* Initially.

LEMMA EmptyIsFinite == {} \in FinChans
BY FS_EmptySet DEF FinChans

LEMMA CleanIsState == Clean \in States
BY EmptyIsFinite DEF Clean, States, Subjects

LEMMA InitTypes == Init => Types
<1> SUFFICES ASSUME Init PROVE Types
  OBVIOUS
<1>1. Fresh \in Sess
  BY SessionsAssumption DEF Fresh, Sess, NoId, Ids, Pcs, Unreg, Early
<1>2. sess \in [All -> Sess] /\ heap \in [All -> States] /\ slots \in [Slots -> States]
  BY <1>1, CleanIsState DEF Init
<1>3. arena \in [offset : Nat, free : Seq(Slots), inFree : SUBSET Slots]
  BY DEF Init
<1>4. gen \in [Slots -> Nat] /\ arr \in [Slots -> [gen : Nat, conn : All \union {NoConn}]]
  BY DEF Init, NoEntry
<1>5. nextID \in [grpc : Nat, ws : Nat] /\ count \in [grpc : Int, ws : Int]
  BY SessionsAssumption DEF Init, FirstID
<1>6. /\ overflow \subseteq [id : Ids, conn : All]
      /\ engine \in [Chans -> SUBSET Ids] /\ refs \in [Chans -> Int]
      /\ pub \in [Pubs -> SUBSET Ids]
      /\ stop \in {"running", "wsDown", "draining", "closed"}
  BY DEF Init
<1>7. who \in [All -> Subjects]
  BY DEF Init, Subjects
<1>8. stray \in BOOLEAN /\ late \in BOOLEAN
  BY DEF Init
<1> QED BY <1>2, <1>3, <1>4, <1>5, <1>6, <1>7, <1>8 DEF Types

LEMMA InitHolds == Init => IInv
<1> SUFFICES ASSUME Init PROVE IInv
  OBVIOUS
<1>1. Types
  BY InitTypes
<1>2. \A c \in All : /\ sess[c].pc = "new" /\ sess[c].slot = 0 /\ sess[c].id = NoId
                     /\ sess[c].up = {} /\ who[c] = NoSubject /\ heap[c] = Clean
  BY DEF Init, Fresh
<1>3. \A c \in Conns : c \in All
  BY DEF All
<1>4. ASSUME NEW c \in All PROVE Local(c) /\ IdOf(c) /\ Found(c) /\ Books(c)
  BY <1>2 DEF Local, IdOf, Found, Books, Serving, Early, Unreg, Up, Bound, Ending
<1>5. Rolling = {} /\ Named = {} /\ Connected = {} /\ \A ch \in Chans : Holders(ch) = {}
  BY <1>2, <1>3 DEF Rolling, Named, Connected, Holders, Unreg, Early, Up
<1>6. Cardinality({}) = 0
  BY FS_EmptySet
<1>7. Placed
  <2>1. arena.free = <<>> /\ arena.offset = 0 /\ arena.inFree = {}
    BY DEF Init
  <2>2. \A i \in Slots : i # 0 /\ ~(i <= 0)
    BY SessionsAssumption DEF Slots
  <2>3. \A i \in Slots, c \in Conns : ~Holds(c, i)
    BY <1>2, <1>3, <2>2 DEF Holds
  <2>4. \A i \in Slots : SlotPlaced(i)
    BY <2>1, <2>2, <2>3 DEF SlotPlaced, Listed
  <2>5. ListedOnce /\ Overshoot
    BY <2>1, <1>5, SessionsAssumption DEF ListedOnce, Overshoot
  <2> QED BY <2>4, <2>5 DEF Placed
<1>8. Identified
  <2>1. Counted
    BY <1>5, <1>6, SessionsAssumption DEF Init, Counted, FirstID
  <2>2. Apart
    BY <1>2 DEF Apart, Unreg, Early
  <2> QED BY <1>4, <2>1, <2>2 DEF Identified
<1>9. Stored
  BY <1>4 DEF Stored, Init, NoEntry
<1>10. Wiped /\ Listening /\ Addressed /\ Quiesced
  BY DEF Init, Wiped, Listening, Addressed, Quiesced
<1>11. RefsCounted /\ ConnsCounted
  BY <1>5, <1>6 DEF Init, RefsCounted, ConnsCounted
<1> QED BY <1>1, <1>4, <1>7, <1>8, <1>9, <1>10, <1>11 DEF IInv

-----------------------------------------------------------------------------
\* What the invariant says about the properties.

\* What a generation that is not zero asks the store for.
LEMMA LookupFlat ==
  ASSUME NEW id \in Ids, Flat(id), id.gen # 0
  PROVE  Lookup(id) = IF id.gen = arr[id.n].gen THEN arr[id.n].conn ELSE NoConn
BY DEF Lookup

\* Whoever the store finds has the identity it was asked for.
LEMMA FoundHasIdentity ==
  ASSUME Types, Stored, NEW id \in Ids, id.n \in Slots => id.gen # 0, Lookup(id) # NoConn
  PROVE  Lookup(id) \in All /\ sess[Lookup(id)].id = id /\ sess[Lookup(id)].pc \in Up
<1>1. CASE Flat(id)
  <2>1. id.gen = arr[id.n].gen /\ Lookup(id) = arr[id.n].conn /\ id.n \in Slots
    BY <1>1, LookupFlat DEF Flat
  <2>2. arr[id.n].conn \in All
    BY <2>1 DEF Types
  <2>3. id = [n |-> id.n, gen |-> id.gen]
    BY DEF Ids
  <2> QED BY <2>1, <2>2, <2>3 DEF Stored
<1>2. CASE ~Flat(id)
  <2> DEFINE e == CHOOSE x \in overflow : x.id = id
  <2>1. \E x \in overflow : x.id = id
    BY <1>2 DEF Lookup
  <2>2. e \in overflow /\ e.id = id
    BY <2>1
  <2>3. Lookup(id) = e.conn
    BY <1>2, <2>1 DEF Lookup
  <2>4. e.conn \in All
    BY <2>2 DEF Types
  <2> QED BY <2>2, <2>3, <2>4 DEF Stored
<1> QED BY <1>1, <1>2

\* A session's identity on a slot has a generation.
LEMMA NamedHasGeneration ==
  ASSUME Types, Identified, NEW c \in All, sess[c].pc \notin Unreg
  PROVE  sess[c].id \in Ids /\ (sess[c].id.n \in Slots => sess[c].id.gen # 0)
<1>1. sess[c].id \in Ids
  BY DEF Types, Sess
<1>2. IdOf(c)
  BY DEF Identified
<1>3. CASE c \in Conns
  <2>1. CASE sess[c].id.n \in Slots /\ sess[c].id.gen \in 1 .. gen[sess[c].id.n]
    BY <1>1, <2>1 DEF Types
  <2>2. CASE sess[c].id.n \in MaxSlots + 1 .. nextID.grpc
    BY <1>1, <2>2, SessionsAssumption DEF Slots, Types
  <2> QED BY <1>2, <1>3, <2>1, <2>2 DEF IdOf
<1>4. CASE c \notin Conns
  <2>1. sess[c].id.n \in WsOffset + 1 .. nextID.ws
    BY <1>2, <1>4 DEF IdOf
  <2>2. WsOffset > MaxSlots
    BY SessionsAssumption, FS_CardinalityType
  <2> QED BY <1>1, <2>1, <2>2, SessionsAssumption DEF Slots, Types
<1> QED BY <1>3, <1>4

LEMMA DeliveredFromInv == IInv => DeliveredToItsSession
<1> SUFFICES ASSUME IInv PROVE DeliveredToItsSession
  OBVIOUS
<1>0. Types /\ Identified /\ Stored /\ ~stray
  BY DEF IInv, Addressed
<1>1. ASSUME NEW c \in All, sess[c].pc \in Up PROVE Lookup(sess[c].id) = c
  <2>0. c # NoConn
    BY SessionsAssumption DEF All
  <2>1. sess[c].id \in Ids /\ (sess[c].id.n \in Slots => sess[c].id.gen # 0)
    BY <1>0, <1>1, NamedHasGeneration DEF Unreg, Early, Up
  <2>2. Found(c)
    BY <1>0 DEF Stored
  <2>3. Lookup(sess[c].id) # NoConn
    <3>1. CASE Flat(sess[c].id)
      BY <1>1, <2>0, <2>1, <2>2, <3>1, LookupFlat DEF Found, Flat
    <3>2. CASE ~Flat(sess[c].id)
      <4> DEFINE e == CHOOSE x \in overflow : x.id = sess[c].id
      <4>1. [id |-> sess[c].id, conn |-> c] \in overflow
        BY <1>1, <2>2, <3>2 DEF Found
      <4>2. \E x \in overflow : x.id = sess[c].id
        BY <4>1
      <4>3. e \in overflow
        BY <4>2
      <4>4. e.conn \in All
        BY <1>0, <4>3 DEF Types
      <4>5. Lookup(sess[c].id) = e.conn
        BY <3>2, <4>2 DEF Lookup
      <4> QED BY <4>4, <4>5, SessionsAssumption DEF All
    <3> QED BY <3>1, <3>2
  <2>4. /\ Lookup(sess[c].id) \in All /\ sess[Lookup(sess[c].id)].id = sess[c].id
        /\ sess[Lookup(sess[c].id)].pc \in Up
    BY <1>0, <2>1, <2>3, FoundHasIdentity
  <2> QED BY <1>0, <1>1, <2>4 DEF Identified, Apart, Up, Unreg, Early
<1>2. ASSUME NEW c \in All, At(c, "gone") PROVE Lookup(sess[c].id) = NoConn
  <2>1. sess[c].id \in Ids /\ (sess[c].id.n \in Slots => sess[c].id.gen # 0)
    BY <1>0, <1>2, NamedHasGeneration DEF At, Unreg, Early
  <2>2. SUFFICES ASSUME Lookup(sess[c].id) # NoConn PROVE FALSE
    OBVIOUS
  <2>3. /\ Lookup(sess[c].id) \in All /\ sess[Lookup(sess[c].id)].id = sess[c].id
        /\ sess[Lookup(sess[c].id)].pc \in Up
    BY <1>0, <2>1, <2>2, FoundHasIdentity
  <2>4. Lookup(sess[c].id) = c
    BY <1>0, <1>2, <2>3 DEF Identified, Apart, At, Up, Unreg, Early
  <2> QED BY <1>2, <2>3, <2>4 DEF At, Up
<1> QED BY <1>0, <1>1, <1>2 DEF DeliveredToItsSession, Serving, At, Up

LEMMA SlotsFromInv == IInv => SlotsAccounted
<1> SUFFICES ASSUME IInv PROVE SlotsAccounted
  OBVIOUS
<1>0. Types /\ Placed /\ Quiesced
  BY DEF IInv
<1>1. ASSUME NEW i \in Slots
      PROVE  Cardinality({ c \in Conns : sess[c].slot = i /\ sess[c].pc # "gone" })
               + Cardinality({ k \in DOMAIN arena.free : arena.free[k] = i })
             = (IF i <= arena.offset THEN 1 ELSE 0)
  <2> DEFINE owners == { c \in Conns : sess[c].slot = i /\ sess[c].pc # "gone" }
             listed == { k \in DOMAIN arena.free : arena.free[k] = i }
  <2>1. SlotPlaced(i) /\ ListedOnce
    BY <1>0 DEF Placed
  <2>2. DOMAIN arena.free = 1 .. Len(arena.free)
    BY <1>0 DEF Types
  <2>3. \A c : c \in owners <=> c \in Conns /\ Holds(c, i)
    BY DEF Holds
  <2>4. Listed(i) <=> listed # {}
    BY <2>2 DEF Listed
  <2>5. \A k, l \in listed : k = l
    BY <2>1, <2>2 DEF ListedOnce
  <2>6. \A c, d \in owners : c = d
    BY <2>1, <2>3 DEF SlotPlaced
  <2> HIDE DEF owners, listed
  <2>7. Cardinality({}) = 0 /\ \A x : Cardinality({x}) = 1
    BY FS_EmptySet, FS_Singleton
  <2>8. CASE i <= arena.offset
    <3>1. CASE Listed(i)
      <4>1. owners = {}
        BY <2>1, <2>3, <3>1 DEF SlotPlaced
      <4>2. PICK k : listed = {k}
        BY <2>4, <2>5, <3>1
      <4>3. Cardinality(owners) = 0 /\ Cardinality(listed) = 1
        BY <2>7, <4>1, <4>2
      <4> QED BY <2>8, <4>3 DEF owners, listed
    <3>2. CASE ~Listed(i)
      <4>1. owners # {}
        BY <2>1, <2>3, <2>8, <3>2 DEF SlotPlaced
      <4>2. PICK c : owners = {c}
        BY <2>6, <4>1
      <4>3. listed = {}
        BY <2>4, <3>2
      <4> QED BY <2>7, <2>8, <4>2, <4>3 DEF owners, listed
    <3> QED BY <3>1, <3>2
  <2>9. CASE ~(i <= arena.offset)
    <3>1. owners = {} /\ listed = {}
      BY <2>1, <2>3, <2>4, <2>9 DEF SlotPlaced
    <3> QED BY <2>7, <2>9, <3>1 DEF owners, listed
  <2> QED BY <2>8, <2>9
<1>2. (\A c \in Conns : ~At(c, "rollback")) => arena.offset <= MaxSlots
  <2>1. (\A c \in Conns : ~At(c, "rollback")) => Rolling = {}
    BY DEF At, Rolling
  <2> QED BY <1>0, <2>1 DEF Placed, Overshoot
<1> QED BY <1>0, <1>1, <1>2 DEF SlotsAccounted, Quiesced

LEMMA BooksFromInv == IInv => IdentityIsItsOwn /\ BooksBalance
<1> SUFFICES ASSUME IInv PROVE IdentityIsItsOwn /\ BooksBalance
  OBVIOUS
<1>1. \A c \in All : Books(c)
  BY DEF IInv
<1>2. IdentityIsItsOwn
  BY <1>1 DEF IdentityIsItsOwn, Books
<1>3. \A ch \in Chans : Holders(ch) = { c \in Conns : ch \in sess[c].up }
  BY DEF Holders
<1>4. Connected = { c \in Conns : Serving(c) \/ At(c, "cleanup") }
  BY DEF Connected, Serving, At, Up
<1>5. \A ch \in Chans : \A id \in engine[ch] : \E c \in All :
        sess[c].id = id /\ (Serving(c) \/ sess[c].pc \in {"cleanup", "unsubscribe"})
  BY DEF IInv, Listening, Serving, Bound, Up
<1>6. \A c \in All : Serving(c) =>
        /\ State(c).subs = { ch \in Chans : sess[c].id \in engine[ch] }
        /\ Hooked(c) => sess[c].up = State(c).subs
  BY <1>1 DEF Books
<1>7. RefsCounted /\ ConnsCounted
  BY DEF IInv
<1> QED BY <1>2, <1>3, <1>4, <1>5, <1>6, <1>7 DEF BooksBalance, RefsCounted, ConnsCounted

-----------------------------------------------------------------------------
\* What each part of the invariant depends on.

LEMMA ConnIsOne == \A c \in Conns : c \in All /\ c \notin WsConns
BY SessionsAssumption DEF All

\* Field by field, what the types say of one session.
LEMMA SessFields ==
  ASSUME Types, NEW c \in All
  PROVE  /\ sess[c] \in Sess
         /\ sess[c].pc \in Pcs /\ sess[c].slot \in 0 .. MaxSlots /\ sess[c].id \in Ids
         /\ sess[c].up \subseteq Chans /\ sess[c].allow \subseteq Chans
BY DEF Types, Sess

LEMMA SessUpdate ==
  ASSUME Types, NEW c \in All, NEW x \in Sess, sess' = [sess EXCEPT ![c] = x]
  PROVE  /\ sess' \in [All -> Sess] /\ sess'[c] = x
         /\ \A d \in All \ {c} : sess'[d] = sess[d]
BY DEF Types

LEMMA SlotsAreNumbers ==
  /\ \A i \in Slots : i \in Nat /\ i # 0 /\ i <= MaxSlots
  /\ \A i \in 0 .. MaxSlots : i # 0 => i \in Slots
BY SessionsAssumption DEF Slots

LEMMA SetsFinite ==
  /\ IsFiniteSet(Rolling) /\ IsFiniteSet(Named) /\ IsFiniteSet(Connected)
  /\ \A ch : IsFiniteSet(Holders(ch))
  /\ Cardinality(Rolling) \in Nat /\ Cardinality(Named) \in Nat /\ Cardinality(Connected) \in Nat
  /\ \A ch : Cardinality(Holders(ch)) \in Nat
<1>1. IsFiniteSet(Conns)
  BY SessionsAssumption
<1>2. Rolling \subseteq Conns /\ Named \subseteq Conns /\ Connected \subseteq Conns
  BY DEF Rolling, Named, Connected
<1>3. \A ch : Holders(ch) \subseteq Conns
  BY DEF Holders
<1>4. IsFiniteSet(Rolling) /\ IsFiniteSet(Named) /\ IsFiniteSet(Connected)
  BY <1>1, <1>2, FS_Subset
<1>5. \A ch : IsFiniteSet(Holders(ch))
  BY <1>1, <1>3, FS_Subset
<1> QED BY <1>4, <1>5, FS_CardinalityType

LEMMA PlacedFrame ==
  ASSUME Placed, arena' = arena,
         \A c \in Conns :
           /\ \A i \in Slots : Holds(c, i)' <=> Holds(c, i)
           /\ sess'[c].pc = "rollback" <=> sess[c].pc = "rollback"
           /\ sess'[c].pc \in {"clear", "append"} <=> sess[c].pc \in {"clear", "append"}
  PROVE  Placed'
<1>1. Rolling' = Rolling
  BY DEF Rolling
<1>2. ASSUME NEW i \in Slots PROVE SlotPlaced(i)'
  <2>1. SlotPlaced(i)
    BY DEF Placed
  <2>2. Listed(i)' <=> Listed(i)
    BY DEF Listed
  <2>3. \A c \in Conns :
          /\ Holds(c, i)' <=> Holds(c, i)
          /\ sess'[c].pc \in {"clear", "append"} <=> sess[c].pc \in {"clear", "append"}
    OBVIOUS
  <2> QED BY <2>1, <2>2, <2>3 DEF SlotPlaced
<1>3. ListedOnce'
  BY DEF Placed, ListedOnce
<1>4. Overshoot'
  BY <1>1 DEF Placed, Overshoot
<1> QED BY <1>2, <1>3, <1>4 DEF Placed

LEMMA IdentifiedFrame ==
  ASSUME Identified, gen' = gen, nextID' = nextID,
         \A c \in All :
           /\ sess'[c].id = sess[c].id
           /\ sess'[c].pc \in Unreg <=> sess[c].pc \in Unreg
           /\ sess'[c].pc # "gone" => sess[c].pc # "gone" /\ sess'[c].slot = sess[c].slot
  PROVE  Identified'
<1>1. Named' = Named
  BY ConnIsOne DEF Named
<1>2. Counted'
  BY <1>1 DEF Identified, Counted
<1>3. Apart'
  BY DEF Identified, Apart
<1>4. ASSUME NEW c \in All PROVE IdOf(c)'
  BY DEF Identified, IdOf
<1> QED BY <1>2, <1>3, <1>4 DEF Identified

LEMMA StoredFrame ==
  ASSUME Types, Stored, arr' = arr, overflow' = overflow,
         \A c \in All :
           /\ sess[c].pc \in Up \/ sess'[c].pc \in Up => sess'[c].id = sess[c].id
           /\ sess'[c].pc \in Up <=> sess[c].pc \in Up
  PROVE  Stored'
<1>1. ASSUME NEW c \in All PROVE Found(c)'
  BY DEF Stored, Found, Flat
<1>2. \A i \in Slots : arr[i].conn # NoConn => arr[i].conn \in All
  BY DEF Types
<1>3. \A e \in overflow : e.conn \in All
  BY DEF Types
<1> QED BY <1>1, <1>2, <1>3 DEF Stored, Flat

LEMMA WipedFrame ==
  ASSUME Wiped, slots' = slots,
         \A c \in Conns, i \in Slots :
           Holds(c, i) /\ sess[c].pc \notin {"register", "append"}
             => Holds(c, i)' /\ sess'[c].pc \notin {"register", "append"}
  PROVE  Wiped'
BY DEF Wiped

LEMMA BooksFrame ==
  ASSUME NEW c \in All, Books(c), sess'[c].pc = "serve" => sess[c].pc = "serve",
         sess'[c].slot = sess[c].slot, sess'[c].id = sess[c].id, sess'[c].up = sess[c].up,
         heap'[c] = heap[c], sess[c].slot # 0 => slots'[sess[c].slot] = slots[sess[c].slot],
         who'[c] = who[c],
         \A ch \in Chans : sess[c].id \in engine'[ch] <=> sess[c].id \in engine[ch]
  PROVE  Books(c)'
<1> SUFFICES ASSUME Serving(c)' PROVE Books(c)'
  BY DEF Books
<1>1. Serving(c)
  BY DEF Serving
<1>2. State(c)' = State(c)
  BY DEF State
<1>3. { ch \in Chans : sess'[c].id \in engine'[ch] } = { ch \in Chans : sess[c].id \in engine[ch] }
  OBVIOUS
<1>4. Hooked(c)' <=> Hooked(c)
  BY DEF Hooked
<1> QED BY <1>1, <1>2, <1>3, <1>4 DEF Books

LEMMA ListeningFrame ==
  ASSUME Types, Listening, \A ch \in Chans : engine'[ch] \subseteq engine[ch],
         \A c \in All : sess[c].pc \in Bound => sess'[c].pc \in Bound /\ sess'[c].id = sess[c].id
  PROVE  Listening'
BY DEF Listening

LEMMA RefsFrame ==
  ASSUME RefsCounted, refs' = refs, \A c \in Conns : sess'[c].up = sess[c].up
  PROVE  RefsCounted'
<1>1. \A ch \in Chans : Holders(ch)' = Holders(ch)
  BY DEF Holders
<1> QED BY <1>1 DEF RefsCounted

LEMMA ConnsFrame ==
  ASSUME ConnsCounted, count' = count, \A c \in Conns : sess'[c].pc \in Up <=> sess[c].pc \in Up
  PROVE  ConnsCounted'
<1>1. Connected' = Connected
  BY DEF Connected
<1> QED BY <1>1 DEF ConnsCounted

LEMMA QuiescedFrame ==
  ASSUME Quiesced, stop' = stop,
         \A c \in Conns : sess[c].pc \in {"new", "gone"} => sess'[c].pc \in {"new", "gone"}
  PROVE  Quiesced'
BY DEF Quiesced

LEMMA AddressedFrame ==
  ASSUME Addressed, pub' = pub, stray' = stray
  PROVE  Addressed'
BY DEF Addressed

-----------------------------------------------------------------------------
\* Steps that move no resource.

\* A step that leaves every session where it is, with what it has.
LEMMA QuietKeeps ==
  ASSUME IInv, Types',
         \A c \in All : /\ sess'[c].pc = sess[c].pc /\ sess'[c].slot = sess[c].slot
                        /\ sess'[c].id = sess[c].id /\ sess'[c].up = sess[c].up,
         UNCHANGED <<heap, slots, arena, storeVars, busVars, who>>,
         Addressed', Quiesced'
  PROVE  IInv'
<1> USE DEF storeVars, busVars
<1>0. \A c \in Conns : c \in All
  BY ConnIsOne
<1>1. ASSUME NEW c \in All PROVE Local(c)' /\ Books(c)'
  <2>1. Local(c) /\ Books(c)
    BY DEF IInv
  <2>2. Local(c)'
    BY <2>1 DEF Local, Hooked
  <2> QED BY <2>1, <2>2, BooksFrame
<1>2. \A c \in Conns, i \in Slots : Holds(c, i)' <=> Holds(c, i)
  BY <1>0 DEF Holds
<1>3. Placed'
  BY <1>0, <1>2, PlacedFrame DEF IInv
<1>4. Identified'
  BY IdentifiedFrame DEF IInv
<1>5. Stored'
  BY StoredFrame DEF IInv
<1>6. Wiped'
  BY <1>0, <1>2, WipedFrame DEF IInv
<1>7. Listening'
  BY ListeningFrame DEF IInv
<1>8. RefsCounted' /\ ConnsCounted'
  BY <1>0, RefsFrame, ConnsFrame DEF IInv
<1> QED BY <1>1, <1>3, <1>4, <1>5, <1>6, <1>7, <1>8 DEF IInv

\* The points a handler passes without taking or giving anything.
Passes == { <<"new", "pop">>, <<"new", "register">>, <<"pop", "bump">>,
            <<"repop", "register">>, <<"serve", "cleanup">> }

LEMMA PassKeeps ==
  ASSUME IInv, NEW c \in All, NEW to, <<sess[c].pc, to>> \in Passes, Goto(c, to),
         c \in Conns \/ sess[c].pc = "serve",
         sess[c].pc = "new" => stop # "closed",
         UNCHANGED <<heap, slots, arena, storeVars, busVars, pub, stop, ghosts>>
  PROVE  IInv'
<1> USE DEF storeVars, busVars, ghosts
<1>0. Types /\ Local(c) /\ \A d \in Conns : d \in All
  BY ConnIsOne DEF IInv
<1>1. /\ sess[c].pc \in {"new", "pop", "repop", "serve"}
      /\ to \in {"pop", "register", "bump", "cleanup"} /\ to \in Pcs
      /\ sess[c].pc = "serve" <=> to = "cleanup"
  BY DEF Passes, Pcs, Unreg, Early, Bound, Up
<1>2. /\ sess' \in [All -> Sess] /\ sess'[c] = [sess[c] EXCEPT !.pc = to]
      /\ \A d \in All \ {c} : sess'[d] = sess[d]
  <2>1. sess[c] \in Sess /\ [sess[c] EXCEPT !.pc = to] \in Sess
    BY <1>0, <1>1, SessFields DEF Sess
  <2>2. sess' = [sess EXCEPT ![c] = [sess[c] EXCEPT !.pc = to]]
    BY DEF Goto
  <2> QED BY <1>0, <2>1, <2>2, SessUpdate
<1>3. /\ sess'[c].pc = to /\ sess'[c].slot = sess[c].slot
      /\ sess'[c].id = sess[c].id /\ sess'[c].up = sess[c].up
  BY <1>0, <1>2, SessFields DEF Sess
<1> HIDE DEF Goto
<1>4. Types'
  BY <1>0, <1>2 DEF Types
<1>5. \A d \in All : /\ sess'[d].slot = sess[d].slot /\ sess'[d].id = sess[d].id
                     /\ sess'[d].up = sess[d].up
  BY <1>2, <1>3
<1>6. to # "register" \/ sess[c].slot = 0
  BY <1>0, <1>1 DEF Local, Passes, Early
<1>7. \A d \in All : /\ sess'[d].pc \in Unreg <=> sess[d].pc \in Unreg
                     /\ sess'[d].pc \in Up <=> sess[d].pc \in Up
                     /\ sess'[d].pc \in Bound <=> sess[d].pc \in Bound
                     /\ sess'[d].pc = "gone" <=> sess[d].pc = "gone"
                     /\ sess'[d].pc = "rollback" <=> sess[d].pc = "rollback"
                     /\ sess'[d].pc \in {"clear", "append"} <=> sess[d].pc \in {"clear", "append"}
                     /\ sess'[d].pc = "serve" => sess[d].pc = "serve"
  BY <1>1, <1>2, <1>3 DEF Unreg, Early, Up, Bound
<1>8. ASSUME NEW d \in All PROVE Local(d)' /\ Books(d)'
  <2>1. Local(d) /\ Books(d)
    BY DEF IInv
  <2>2. Local(d)'
    <3>1. CASE d = c
      <4>1. c \notin WsConns \/ to = "cleanup"
        BY <1>1, ConnIsOne
      <4>2. sess[c].pc = "serve" \/ sess[c].pc \in Early
        BY <1>1 DEF Early
      <4> QED BY <1>0, <1>1, <1>3, <3>1, <4>1, <4>2
              DEF Local, Hooked, Early, Unreg, Bound, Up, Ending
    <3>2. CASE d # c
      BY <1>2, <2>1, <3>2 DEF Local, Hooked
    <3> QED BY <3>1, <3>2
  <2> QED BY <1>5, <1>7, <2>1, <2>2, BooksFrame
<1>9. \A d \in Conns, i \in Slots : Holds(d, i)' <=> Holds(d, i)
  BY <1>0, <1>5, <1>7 DEF Holds
<1>10. Placed'
  BY <1>0, <1>7, <1>9, PlacedFrame DEF IInv
<1>11. Identified'
  BY <1>5, <1>7, IdentifiedFrame DEF IInv
<1>12. Stored'
  BY <1>0, <1>5, <1>7, StoredFrame DEF IInv
<1>13. Wiped'
  <2>1. ASSUME NEW d \in Conns, NEW i \in Slots, Holds(d, i),
               sess[d].pc \notin {"register", "append"}
        PROVE  Holds(d, i)' /\ sess'[d].pc \notin {"register", "append"}
    <3>1. i # 0
      BY SlotsAreNumbers
    <3>2. CASE d = c
      BY <1>1, <1>3, <1>6, <1>9, <2>1, <3>1, <3>2 DEF Holds
    <3>3. CASE d # c
      BY <1>0, <1>2, <1>9, <2>1, <3>3
    <3> QED BY <3>2, <3>3
  <2> QED BY <2>1, WipedFrame DEF IInv
<1>14. Listening'
  BY <1>0, <1>5, <1>7, ListeningFrame DEF IInv
<1>15. RefsCounted' /\ ConnsCounted'
  BY <1>0, <1>5, <1>7, RefsFrame, ConnsFrame DEF IInv
<1>16. Addressed'
  BY AddressedFrame DEF IInv
<1>17. Quiesced'
  <2>1. CASE sess[c].pc = "new"
    BY <2>1 DEF Quiesced
  <2>2. CASE sess[c].pc # "new"
    <3>1. \A d \in Conns : sess[d].pc \in {"new", "gone"} => sess'[d].pc \in {"new", "gone"}
      BY <1>0, <1>1, <1>2, <2>2
    <3> QED BY <3>1, QuiescedFrame DEF IInv
  <2> QED BY <2>1, <2>2
<1> QED BY <1>4, <1>8, <1>10, <1>11, <1>12, <1>13, <1>14, <1>15, <1>16, <1>17 DEF IInv

\* The timers and the writer only cancel.
LEMMA CancelKeeps ==
  ASSUME IInv, NEW c \in All, NEW done \in BOOLEAN,
         NEW auth \in {"off", "armed", "running"}, NEW expiry \in {"off", "armed"},
         sess' = [sess EXCEPT ![c] = [sess[c] EXCEPT !.done = done, !.authTimer = auth,
                                                     !.expiry = expiry]],
         late' \in BOOLEAN,
         UNCHANGED <<heap, slots, arena, storeVars, busVars, pub, stop, who, stray>>
  PROVE  IInv'
<1> USE DEF storeVars, busVars
<1> DEFINE x == [sess[c] EXCEPT !.done = done, !.authTimer = auth, !.expiry = expiry]
<1>0. Types
  BY DEF IInv
<1>1. sess[c] \in Sess
  BY <1>0, SessFields
<1>2. x \in Sess /\ x.pc = sess[c].pc /\ x.slot = sess[c].slot /\ x.id = sess[c].id /\ x.up = sess[c].up
  BY <1>1 DEF Sess
<1>3. sess' = [sess EXCEPT ![c] = x]
  OBVIOUS
<1> HIDE DEF x
<1>4. sess' \in [All -> Sess] /\ sess'[c] = x /\ \A d \in All \ {c} : sess'[d] = sess[d]
  BY <1>0, <1>2, <1>3, SessUpdate
<1>5. Types'
  BY <1>0, <1>4 DEF Types
<1>6. \A d \in All : /\ sess'[d].pc = sess[d].pc /\ sess'[d].slot = sess[d].slot
                     /\ sess'[d].id = sess[d].id /\ sess'[d].up = sess[d].up
  BY <1>2, <1>4
<1>7. Addressed'
  BY AddressedFrame DEF IInv
<1>8. Quiesced'
  BY <1>6, ConnIsOne, QuiescedFrame DEF IInv
<1> QED BY <1>5, <1>6, <1>7, <1>8, QuietKeeps

LEMMA TimersKeep ==
  ASSUME IInv, NEW c \in All, TimerStep(c) \/ WsGiveUp(c)
  PROVE  IInv'
<1>0. Types /\ late \in BOOLEAN
  BY DEF IInv, Types
<1>1. /\ sess[c] \in Sess /\ sess[c].done \in BOOLEAN
      /\ sess[c].authTimer \in {"off", "armed", "running"} /\ sess[c].expiry \in {"off", "armed"}
      /\ sess \in [All -> Sess]
  BY <1>0, SessFields DEF Sess, Types
<1>2. CASE WsGiveUp(c)
  <2>1. sess' = [sess EXCEPT ![c] = [sess[c] EXCEPT !.done = TRUE, !.authTimer = sess[c].authTimer,
                                                    !.expiry = sess[c].expiry]]
    BY <1>1, <1>2 DEF WsGiveUp, Sess
  <2> QED BY <1>0, <1>1, <1>2, <2>1, CancelKeeps DEF WsGiveUp, envVars, ghosts
<1>3. CASE AuthFires(c)
  <2>1. sess' = [sess EXCEPT ![c] = [sess[c] EXCEPT !.done = sess[c].done, !.authTimer = "running",
                                                    !.expiry = sess[c].expiry]]
    BY <1>1, <1>3 DEF AuthFires, Sess
  <2> QED BY <1>0, <1>1, <1>3, <2>1, CancelKeeps DEF AuthFires, envVars, ghosts
<1>4. CASE AuthDeadline(c)
  <2> DEFINE dn == sess[c].done \/ ~State(c).auth
  <2>1. sess' = [sess EXCEPT ![c] = [sess[c] EXCEPT !.done = dn, !.authTimer = "off",
                                                    !.expiry = sess[c].expiry]]
    BY <1>1, <1>4 DEF AuthDeadline, Sess
  <2>2. dn \in BOOLEAN /\ late' \in BOOLEAN
    BY <1>4 DEF AuthDeadline
  <2> HIDE DEF dn
  <2> QED BY <1>0, <1>1, <1>4, <2>1, <2>2, CancelKeeps DEF AuthDeadline, envVars
<1>5. CASE ExpiryFires(c)
  <2>1. sess' = [sess EXCEPT ![c] = [sess[c] EXCEPT !.done = TRUE, !.authTimer = sess[c].authTimer,
                                                    !.expiry = "off"]]
    BY <1>1, <1>5 DEF ExpiryFires, Sess
  <2> QED BY <1>0, <1>1, <1>5, <2>1, CancelKeeps DEF ExpiryFires, envVars, ghosts
<1> QED BY <1>2, <1>3, <1>4, <1>5 DEF TimerStep

LEMMA StutterKeeps == ASSUME IInv, UNCHANGED vars PROVE IInv'
<1> USE DEF vars
<1>1. Types' /\ Addressed' /\ Quiesced'
  BY DEF IInv, Types, Addressed, Quiesced
<1> QED BY <1>1, QuietKeeps DEF storeVars, busVars

LEMMA StopKeeps ==
  ASSUME IInv, StopWs \/ StopStep
  PROVE  IInv'
<1> USE DEF storeVars, busVars, ghosts, StopTo
<1>1. /\ UNCHANGED <<sess, heap, slots, arena, storeVars, busVars, pub, ghosts>>
      /\ stop' \in {"running", "wsDown", "draining", "closed"}
      /\ stop' = "closed" => \A c \in Conns : sess[c].pc \in {"new", "gone"}
  BY DEF StopWs, StopStep, StopCancel, StopArena
<1>2. Types'
  BY <1>1 DEF IInv, Types
<1>3. Addressed'
  BY <1>1, AddressedFrame DEF IInv
<1>4. Quiesced'
  BY <1>1 DEF Quiesced
<1> QED BY <1>1, <1>2, <1>3, <1>4, QuietKeeps

LEMMA PublishKeeps ==
  ASSUME IInv, NEW p \in Pubs, PubDeliver(p) \/ \E ch \in Chans : PubLoad(p, ch)
  PROVE  IInv'
<1> USE DEF storeVars, busVars, ghosts
<1>0. Types /\ Identified /\ Stored /\ Addressed /\ Listening /\ Quiesced
  BY DEF IInv
<1>1. UNCHANGED <<sess, heap, slots, arena, storeVars, busVars, stop, who, late>>
  BY DEF PubDeliver, PubLoad
<1>2. pub' \in [Pubs -> SUBSET Ids] /\ stray' \in BOOLEAN /\ Addressed'
  <2>1. CASE PubDeliver(p)
    <3>1. PICK id \in pub[p] :
            /\ pub' = [pub EXCEPT ![p] = @ \ {id}]
            /\ stray' = (stray \/ (Lookup(id) # NoConn /\ sess[Lookup(id)].id # id))
      BY <2>1 DEF PubDeliver
    <3>2. id \in Ids /\ (id.n \in Slots => id.gen # 0)
      BY <1>0 DEF Types, Addressed
    <3>3. Lookup(id) # NoConn => sess[Lookup(id)].id = id
      BY <1>0, <3>2, FoundHasIdentity
    <3>4. ~stray'
      BY <1>0, <3>1, <3>3 DEF Addressed
    <3>5. pub' \in [Pubs -> SUBSET Ids] /\ \A q \in Pubs : pub'[q] \subseteq pub[q]
      BY <1>0, <3>1 DEF Types
    <3>6. Addressed'
      BY <1>0, <3>4, <3>5 DEF Addressed
    <3>7. stray' \in BOOLEAN
      BY <3>1
    <3> QED BY <3>5, <3>6, <3>7
  <2>2. CASE \E ch \in Chans : PubLoad(p, ch)
    <3>1. PICK ch \in Chans : PubLoad(p, ch)
      BY <2>2
    <3>2. stray' = stray /\ pub' = [pub EXCEPT ![p] = engine[ch]]
      BY <3>1 DEF PubLoad
    <3>3. pub' \in [Pubs -> SUBSET Ids]
      BY <1>0, <3>2 DEF Types
    <3>4. ASSUME NEW id \in engine[ch] PROVE id.n \in Slots => id.gen # 0
      <4>1. PICK c \in All : sess[c].id = id /\ sess[c].pc \in Bound
        BY <1>0 DEF Listening
      <4> QED BY <1>0, <4>1, NamedHasGeneration DEF Bound, Up, Unreg, Early
    <3>5. \A q \in Pubs : \A id \in pub'[q] : id.n \in Slots => id.gen # 0
      BY <1>0, <3>2, <3>4 DEF Types, Addressed
    <3>6. Addressed'
      BY <1>0, <3>2, <3>5 DEF Addressed
    <3>7. stray' \in BOOLEAN
      BY <1>0, <3>2 DEF Types
    <3> QED BY <3>3, <3>6, <3>7
  <2> QED BY <2>1, <2>2
<1>3. Types'
  BY <1>0, <1>1, <1>2 DEF Types
<1>4. Quiesced'
  BY <1>0, <1>1, QuiescedFrame
<1> QED BY <1>1, <1>2, <1>3, <1>4, QuietKeeps

LEMMA OpenKeeps ==
  ASSUME IInv, NEW c \in Conns, Open(c)
  PROVE  IInv'
<1>1. /\ c \in All /\ sess[c].pc = "new" /\ stop # "closed"
      /\ UNCHANGED <<heap, slots, arena, storeVars, busVars, pub, stop, ghosts>>
      /\ Goto(c, IF MaxSlots = 0 THEN "register" ELSE "pop")
  BY ConnIsOne DEF Open, At
<1>2. <<sess[c].pc, IF MaxSlots = 0 THEN "register" ELSE "pop">> \in Passes
  BY <1>1 DEF Passes
<1> QED BY <1>1, <1>2, PassKeeps

LEMMA LeaveKeeps ==
  ASSUME IInv, NEW c \in All, EndOfStream(c) \/ Leave(c) \/ WsLeave(c)
  PROVE  IInv'
<1>1. /\ sess[c].pc = "serve" /\ Goto(c, "cleanup")
      /\ UNCHANGED <<heap, slots, arena, storeVars, busVars, pub, stop, ghosts>>
  BY DEF EndOfStream, Leave, WsLeave, Serving, envVars
<1>2. <<sess[c].pc, "cleanup">> \in Passes
  BY <1>1 DEF Passes
<1> QED BY <1>1, <1>2, PassKeeps

-----------------------------------------------------------------------------
\* The arena's Alloc.

\* Until it registers, a session has nothing but, at the end, its slot.
LEMMA AllocFrame ==
  ASSUME IInv, NEW c \in Conns, sess[c].pc \in Early \ {"new"},
         NEW s \in 0 .. MaxSlots, NEW to \in {"register", "rollback", "repop"},
         to # "register" => s = 0,
         sess' = [sess EXCEPT ![c] = [sess[c] EXCEPT !.slot = s, !.pc = to]],
         arena' \in [offset : Nat, free : Seq(Slots), inFree : SUBSET Slots],
         UNCHANGED <<heap, slots, storeVars, busVars, envVars, ghosts>>,
         (\A d \in Conns : \A i \in Slots :
            Holds(d, i)' <=> (Holds(d, i) \/ (d = c /\ i = s))) => Placed'
  PROVE  IInv'
<1> USE DEF storeVars, busVars, envVars, ghosts
<1> DEFINE x == [sess[c] EXCEPT !.slot = s, !.pc = to]
<1>0. Types /\ Local(c) /\ c \in All /\ c \notin WsConns /\ \A d \in Conns : d \in All
  BY ConnIsOne DEF IInv
<1>1. sess[c] \in Sess /\ sess[c].slot = 0 /\ sess[c].pc \in Unreg
  BY <1>0, SessFields DEF Local, Unreg
<1>2. x \in Sess /\ x.pc = to /\ x.slot = s /\ x.id = sess[c].id /\ x.up = sess[c].up
  BY <1>1 DEF Sess, Pcs, Unreg, Early
<1>3. sess' = [sess EXCEPT ![c] = x]
  OBVIOUS
<1> HIDE DEF x
<1>4. sess' \in [All -> Sess] /\ sess'[c] = x /\ \A d \in All \ {c} : sess'[d] = sess[d]
  BY <1>0, <1>2, <1>3, SessUpdate
<1>5. Types'
  BY <1>0, <1>4 DEF Types
<1>6. \A d \in All : /\ sess'[d].id = sess[d].id /\ sess'[d].up = sess[d].up
                     /\ sess'[d].pc \in Unreg <=> sess[d].pc \in Unreg
                     /\ sess'[d].pc \in Unreg \/ sess'[d].slot = sess[d].slot
                     /\ sess'[d].pc \in Up <=> sess[d].pc \in Up
                     /\ sess'[d].pc \in Bound <=> sess[d].pc \in Bound
                     /\ sess'[d].pc = "gone" <=> sess[d].pc = "gone"
                     /\ sess'[d].pc = "serve" <=> sess[d].pc = "serve"
  BY <1>1, <1>2, <1>4 DEF Unreg, Early, Up, Bound
<1>7. ASSUME NEW d \in All PROVE Local(d)' /\ Books(d)'
  <2>1. Local(d) /\ Books(d)
    BY DEF IInv
  <2>2. CASE d = c
    <3>1. Local(c)'
      BY <1>0, <1>1, <1>2, <1>4 DEF Local, Hooked, Early, Unreg, Bound, Up, Ending
    <3>2. Books(c)'
      BY <1>2, <1>4 DEF Books, Serving
    <3> QED BY <2>2, <3>1, <3>2
  <2>3. CASE d # c
    <3>1. Local(d)'
      BY <1>4, <2>1, <2>3 DEF Local, Hooked
    <3> QED BY <1>4, <2>1, <2>3, <3>1, BooksFrame
  <2> QED BY <2>2, <2>3
<1>8. \A d \in Conns : \A i \in Slots : Holds(d, i)' <=> (Holds(d, i) \/ (d = c /\ i = s))
  BY <1>0, <1>1, <1>2, <1>4, SlotsAreNumbers DEF Holds
<1>9. Placed'
  BY <1>8
<1>10. Identified'
  <2>1. Named' = Named
    BY <1>0, <1>6 DEF Named
  <2>2. Counted' /\ Apart'
    BY <1>6, <2>1 DEF IInv, Identified, Counted, Apart
  <2>3. ASSUME NEW d \in All PROVE IdOf(d)'
    BY <1>6 DEF IInv, Identified, IdOf
  <2> QED BY <2>2, <2>3 DEF Identified
<1>11. Stored'
  BY <1>0, <1>6, StoredFrame DEF IInv
<1>12. Wiped'
  <2>1. \A d \in Conns, i \in Slots : Holds(d, i) => d # c
    BY <1>1, SlotsAreNumbers DEF Holds
  <2> QED BY <1>0, <1>4, <1>8, <2>1, WipedFrame DEF IInv
<1>13. Listening'
  BY <1>0, <1>6, ListeningFrame DEF IInv
<1>14. RefsCounted' /\ ConnsCounted'
  BY <1>0, <1>6, RefsFrame, ConnsFrame DEF IInv
<1>15. Addressed'
  BY AddressedFrame DEF IInv
<1>16. Quiesced'
  <2>1. sess[c].pc \notin {"new", "gone"}
    BY DEF Early
  <2> QED BY <1>0, <1>4, <2>1, QuiescedFrame DEF IInv
<1> QED BY <1>5, <1>7, <1>9, <1>10, <1>11, <1>12, <1>13, <1>14, <1>15, <1>16 DEF IInv

LEMMA PopFreeKeeps ==
  ASSUME IInv, NEW c \in Conns, sess[c].pc \in Early \ {"new"}, sess[c].pc # "rollback",
         arena.free # <<>>, PopFree(c),
         UNCHANGED <<heap, slots, storeVars, busVars, envVars, ghosts>>
  PROVE  IInv'
<1> DEFINE n == Len(arena.free)
           s == Last(arena.free)
<1>0. Types /\ Placed /\ c \in All /\ Local(c)
  BY ConnIsOne DEF IInv
<1>1. arena.free \in Seq(Slots) /\ arena.offset \in Nat /\ arena.inFree \subseteq Slots /\ n \in Nat
  BY <1>0 DEF Types
<1>2. n >= 1 /\ s = arena.free[n] /\ s \in Slots
  BY <1>1, EmptySeq DEF Last
<1>3. /\ Front(arena.free) \in Seq(Slots) /\ Len(Front(arena.free)) = n - 1
      /\ \A k \in 1 .. n - 1 : Front(arena.free)[k] = arena.free[k]
  <2>1. \A k \in 1 .. n - 1 : arena.free[k] \in Slots
    BY <1>1
  <2>2. Front(arena.free) = SubSeq(arena.free, 1, n - 1)
    BY DEF Front
  <2> QED BY <1>1, <1>2, <2>1, <2>2, SubSeqProperties
<1>4. /\ arena'.free = Front(arena.free) /\ arena'.offset = arena.offset
      /\ arena'.inFree = arena.inFree \ {s}
      /\ arena' \in [offset : Nat, free : Seq(Slots), inFree : SUBSET Slots]
  <2>1. arena' = [arena EXCEPT !.free = Front(arena.free), !.inFree = arena.inFree \ {s}]
    BY DEF PopFree
  <2>2. arena \in [offset : Nat, free : Seq(Slots), inFree : SUBSET Slots]
    BY <1>0 DEF Types
  <2> QED BY <1>3, <2>1, <2>2
<1>5. sess' = [sess EXCEPT ![c] = [sess[c] EXCEPT !.slot = s, !.pc = "register"]]
  BY DEF PopFree
<1>6. s \in 0 .. MaxSlots /\ s \in Nat /\ s # 0
  BY <1>2, SessionsAssumption DEF Slots
<1>7. ASSUME \A d \in Conns : \A i \in Slots :
               Holds(d, i)' <=> (Holds(d, i) \/ (d = c /\ i = s))
      PROVE  Placed'
  <2>0. /\ \A d \in Conns \ {c} : sess'[d] = sess[d]
        /\ sess'[c].pc = "register" /\ sess[c].slot = 0
    <3>1. sess[c] \in Sess /\ sess \in [All -> Sess]
      BY <1>0, SessFields DEF Types
    <3>2. sess'[c].pc = "register"
      BY <1>0, <1>5, <3>1 DEF Sess
    <3> QED BY <1>0, <1>5, <3>1, <3>2, ConnIsOne DEF Local
  <2>1. \A i \in Slots : Listed(i)' <=> Listed(i) /\ i # s
    <3>1. \A k \in 1 .. n : k \in 1 .. n - 1 \/ k = n
      BY <1>1
    <3>2. \A k \in 1 .. n - 1 : k \in 1 .. n /\ k # n
      BY <1>1
    <3>3. n \in 1 .. n
      BY <1>1, <1>2
    <3>4. \A k \in 1 .. n - 1 : arena.free[k] # s
      BY <1>0, <1>2, <3>2, <3>3 DEF Placed, ListedOnce
    <3> QED BY <1>2, <1>3, <1>4, <3>1, <3>2, <3>4 DEF Listed
  <2>2. Listed(s)
    BY <1>1, <1>2 DEF Listed
  <2>3. ASSUME NEW i \in Slots PROVE SlotPlaced(i)'
    <3>1. SlotPlaced(i)
      BY <1>0 DEF Placed
    <3>2. \A d \in Conns : Holds(d, i) => d # c
      BY <2>0, SlotsAreNumbers DEF Holds
    <3>3. CASE i = s
      BY <1>4, <1>7, <2>0, <2>1, <2>2, <3>1, <3>2, <3>3 DEF SlotPlaced
    <3>4. CASE i # s
      BY <1>4, <1>7, <2>0, <2>1, <3>1, <3>2, <3>4 DEF SlotPlaced
    <3> QED BY <3>3, <3>4
  <2>4. ListedOnce'
    <3>1. 1 .. n - 1 \subseteq 1 .. n
      BY <1>1
    <3> QED BY <1>0, <1>3, <1>4, <3>1 DEF Placed, ListedOnce
  <2>5. Overshoot'
    <3>1. Rolling' = Rolling
      BY <2>0 DEF Rolling
    <3> QED BY <1>0, <1>4, <3>1 DEF Placed, Overshoot
  <2> QED BY <2>3, <2>4, <2>5 DEF Placed
<1> HIDE DEF s, n
<1> QED BY <1>4, <1>5, <1>6, <1>7, AllocFrame

LEMMA AllocListKeeps ==
  ASSUME IInv, NEW c \in Conns, AllocPop(c) \/ AllocRepop(c)
  PROVE  IInv'
<1>0. c \in All
  BY ConnIsOne
<1>1. CASE arena.free # <<>>
  <2>1. /\ PopFree(c) /\ sess[c].pc \in {"pop", "repop"}
        /\ UNCHANGED <<heap, slots, storeVars, busVars, envVars, ghosts>>
    BY <1>1 DEF AllocPop, AllocRepop, At
  <2> QED BY <1>1, <2>1, PopFreeKeeps DEF Early
<1>2. CASE arena.free = <<>> /\ AllocPop(c)
  <2>1. /\ Goto(c, "bump") /\ sess[c].pc = "pop"
        /\ UNCHANGED <<heap, slots, arena, storeVars, busVars, pub, stop, ghosts>>
    BY <1>2 DEF AllocPop, At, envVars
  <2>2. <<sess[c].pc, "bump">> \in Passes
    BY <2>1 DEF Passes
  <2> QED BY <1>0, <2>1, <2>2, PassKeeps
<1>3. CASE arena.free = <<>> /\ AllocRepop(c)
  <2>1. /\ Goto(c, "register") /\ sess[c].pc = "repop"
        /\ UNCHANGED <<heap, slots, arena, storeVars, busVars, pub, stop, ghosts>>
    BY <1>3 DEF AllocRepop, At, envVars
  <2>2. <<sess[c].pc, "register">> \in Passes
    BY <2>1 DEF Passes
  <2> QED BY <1>0, <2>1, <2>2, PassKeeps
<1> QED BY <1>1, <1>2, <1>3

LEMMA AllocBumpKeeps ==
  ASSUME IInv, NEW c \in Conns, AllocBump(c)
  PROVE  IInv'
<1>0. Types /\ Placed /\ c \in All /\ Local(c) /\ sess[c].pc = "bump"
  BY ConnIsOne DEF IInv, AllocBump, At
<1>1. sess[c] \in Sess /\ sess \in [All -> Sess] /\ sess[c].slot = 0
  BY <1>0, SessFields DEF Types, Local, Early
<1>2. arena \in [offset : Nat, free : Seq(Slots), inFree : SUBSET Slots]
  BY <1>0 DEF Types
<1>3. /\ arena' \in [offset : Nat, free : Seq(Slots), inFree : SUBSET Slots]
      /\ arena'.offset = arena.offset + 1 /\ arena'.free = arena.free
      /\ arena'.inFree = arena.inFree /\ arena.offset \in Nat
  BY <1>2 DEF AllocBump
<1>4. \A i \in Slots : Listed(i)' <=> Listed(i)
  BY <1>3 DEF Listed
<1>5. ListedOnce'
  BY <1>0, <1>3 DEF Placed, ListedOnce
<1>6. UNCHANGED <<heap, slots, storeVars, busVars, envVars, ghosts>> /\ sess[c].pc \in Early \ {"new"}
  BY <1>0 DEF AllocBump, Early
<1>7. CASE arena.offset < MaxSlots
  <2> DEFINE s == arena.offset + 1
  <2>1. sess' = [sess EXCEPT ![c] = [sess[c] EXCEPT !.slot = s, !.pc = "register"]]
    BY <1>7 DEF AllocBump
  <2>2. s \in 0 .. MaxSlots /\ s \in Slots /\ s = arena'.offset
    BY <1>3, <1>7, SessionsAssumption DEF Slots
  <2>3. /\ \A d \in Conns \ {c} : sess'[d] = sess[d]
        /\ sess'[c].pc = "register"
    <3>1. sess'[c].pc = "register"
      BY <1>0, <1>1, <2>1 DEF Sess
    <3> QED BY <1>0, <1>1, <2>1, <3>1, ConnIsOne
  <2> HIDE DEF s
  <2>4. ASSUME \A d \in Conns : \A i \in Slots :
                 Holds(d, i)' <=> (Holds(d, i) \/ (d = c /\ i = s))
        PROVE  Placed'
    <3>1. ASSUME NEW i \in Slots PROVE SlotPlaced(i)'
      <4>1. SlotPlaced(i)
        BY <1>0 DEF Placed
      <4>2. \A d \in Conns : Holds(d, i) => d # c
        BY <1>1, SlotsAreNumbers DEF Holds
      <4>3. /\ i = s => ~(i <= arena.offset) /\ i <= arena'.offset
            /\ i # s => (i <= arena'.offset <=> i <= arena.offset)
        BY <1>3, <2>2, SlotsAreNumbers
      <4>4. CASE i = s
        BY <1>3, <1>4, <2>3, <2>4, <4>1, <4>2, <4>3, <4>4 DEF SlotPlaced
      <4>5. CASE i # s
        BY <1>3, <1>4, <2>3, <2>4, <4>1, <4>2, <4>3, <4>5 DEF SlotPlaced
      <4> QED BY <4>4, <4>5
    <3>2. Rolling' = Rolling
      BY <1>0, <2>3 DEF Rolling
    <3>3. Rolling = {}
      BY <1>0, <1>3, <1>7, SetsFinite, SessionsAssumption DEF Placed, Overshoot
    <3>4. Overshoot'
      BY <1>3, <1>7, <3>2, <3>3, SessionsAssumption DEF Overshoot
    <3> QED BY <1>5, <3>1, <3>4 DEF Placed
  <2> QED BY <1>3, <1>6, <2>1, <2>2, <2>4, AllocFrame
<1>8. CASE ~(arena.offset < MaxSlots)
  <2>1. sess' = [sess EXCEPT ![c] = [sess[c] EXCEPT !.slot = 0, !.pc = "rollback"]]
    BY <1>1, <1>8 DEF AllocBump, Sess
  <2>2. /\ \A d \in Conns \ {c} : sess'[d] = sess[d]
        /\ sess'[c].pc = "rollback"
    <3>1. sess'[c].pc = "rollback"
      BY <1>0, <1>1, <2>1 DEF Sess
    <3> QED BY <1>0, <1>1, <2>1, <3>1, ConnIsOne
  <2>3. 0 \in 0 .. MaxSlots
    BY SessionsAssumption
  <2>4. ASSUME \A d \in Conns : \A i \in Slots :
                 Holds(d, i)' <=> (Holds(d, i) \/ (d = c /\ i = 0))
        PROVE  Placed'
    <3>1. ASSUME NEW i \in Slots PROVE SlotPlaced(i)'
      <4>1. SlotPlaced(i)
        BY <1>0 DEF Placed
      <4>2. \A d \in Conns : Holds(d, i)' <=> Holds(d, i)
        BY <2>4, SlotsAreNumbers
      <4>3. \A d \in Conns : Holds(d, i) => d # c
        BY <1>1, SlotsAreNumbers DEF Holds
      <4>4. i <= arena.offset /\ i <= arena'.offset
        BY <1>3, <1>8, SlotsAreNumbers, SessionsAssumption
      <4> QED BY <1>3, <1>4, <2>2, <4>1, <4>2, <4>3, <4>4 DEF SlotPlaced
    <3>2. Rolling' = Rolling \union {c} /\ c \notin Rolling
      BY <1>0, <2>2 DEF Rolling
    <3>3. Cardinality(Rolling') = Cardinality(Rolling) + 1
      BY <3>2, SetsFinite, FS_AddElement
    <3>4. arena.offset = MaxSlots + Cardinality(Rolling)
      <4>1. CASE Rolling = {}
        BY <1>0, <1>3, <1>8, <4>1, FS_EmptySet, SessionsAssumption DEF Placed, Overshoot
      <4>2. CASE Rolling # {}
        BY <1>0, <4>2 DEF Placed, Overshoot
      <4> QED BY <4>1, <4>2
    <3>5. Overshoot'
      BY <1>3, <3>2, <3>3, <3>4, SetsFinite, SessionsAssumption DEF Overshoot
    <3> QED BY <1>5, <3>1, <3>5 DEF Placed
  <2> QED BY <1>3, <1>6, <2>1, <2>3, <2>4, AllocFrame
<1> QED BY <1>7, <1>8

LEMMA AllocRollbackKeeps ==
  ASSUME IInv, NEW c \in Conns, AllocRollback(c)
  PROVE  IInv'
<1>0. Types /\ Placed /\ c \in All /\ Local(c) /\ sess[c].pc = "rollback"
  BY ConnIsOne DEF IInv, AllocRollback, At
<1>1. sess[c] \in Sess /\ sess \in [All -> Sess] /\ sess[c].slot = 0
  BY <1>0, SessFields DEF Types, Local, Early
<1>2. arena \in [offset : Nat, free : Seq(Slots), inFree : SUBSET Slots]
  BY <1>0 DEF Types
<1>3. c \in Rolling /\ arena.offset = MaxSlots + Cardinality(Rolling)
  BY <1>0 DEF Placed, Overshoot, Rolling
<1>4. /\ Cardinality(Rolling \ {c}) = Cardinality(Rolling) - 1
      /\ Cardinality(Rolling \ {c}) \in Nat /\ Cardinality(Rolling) \in Nat
  BY <1>3, SetsFinite, FS_RemoveElement, FS_CardinalityType
<1>5. /\ arena'.offset = MaxSlots + Cardinality(Rolling \ {c}) /\ arena'.offset \in Nat
      /\ arena'.free = arena.free /\ arena'.inFree = arena.inFree
      /\ arena' \in [offset : Nat, free : Seq(Slots), inFree : SUBSET Slots]
  <2>1. arena' = [arena EXCEPT !.offset = arena.offset - 1]
    BY DEF AllocRollback
  <2>2. arena.offset - 1 = MaxSlots + Cardinality(Rolling \ {c}) /\ arena.offset - 1 \in Nat
    BY <1>3, <1>4, SessionsAssumption
  <2> QED BY <1>2, <2>1, <2>2
<1>6. sess' = [sess EXCEPT ![c] = [sess[c] EXCEPT !.slot = 0, !.pc = "repop"]]
  BY <1>1 DEF AllocRollback, Goto, Sess
<1>7. /\ \A d \in Conns \ {c} : sess'[d] = sess[d]
      /\ sess'[c].pc = "repop"
  <2>1. sess'[c].pc = "repop"
    BY <1>0, <1>1, <1>6 DEF Sess
  <2> QED BY <1>0, <1>1, <1>6, <2>1, ConnIsOne
<1>8. 0 \in 0 .. MaxSlots
  BY SessionsAssumption
<1>9. ASSUME \A d \in Conns : \A i \in Slots :
               Holds(d, i)' <=> (Holds(d, i) \/ (d = c /\ i = 0))
      PROVE  Placed'
  <2>1. ASSUME NEW i \in Slots PROVE SlotPlaced(i)'
    <3>1. SlotPlaced(i)
      BY <1>0 DEF Placed
    <3>2. \A d \in Conns : Holds(d, i)' <=> Holds(d, i)
      BY <1>9, SlotsAreNumbers
    <3>3. \A d \in Conns : Holds(d, i) => d # c
      BY <1>1, SlotsAreNumbers DEF Holds
    <3>4. i <= arena.offset /\ i <= arena'.offset
      BY <1>3, <1>4, <1>5, SlotsAreNumbers, SessionsAssumption
    <3>5. Listed(i)' <=> Listed(i)
      BY <1>5 DEF Listed
    <3> QED BY <1>5, <1>7, <3>1, <3>2, <3>3, <3>4, <3>5 DEF SlotPlaced
  <2>2. Rolling' = Rolling \ {c}
    BY <1>7 DEF Rolling
  <2>3. Overshoot'
    <3>1. CASE Rolling \ {c} = {}
      <4>1. Cardinality(Rolling \ {c}) = 0
        BY <3>1, FS_EmptySet
      <4> QED BY <1>5, <2>2, <3>1, <4>1, SessionsAssumption DEF Overshoot
    <3>2. CASE Rolling \ {c} # {}
      BY <1>5, <2>2, <3>2 DEF Overshoot
    <3> QED BY <3>1, <3>2
  <2>4. ListedOnce'
    BY <1>0, <1>5 DEF Placed, ListedOnce
  <2> QED BY <2>1, <2>3, <2>4 DEF Placed
<1>10. UNCHANGED <<heap, slots, storeVars, busVars, envVars, ghosts>> /\ sess[c].pc \in Early \ {"new"}
  BY <1>0 DEF AllocRollback, Early
<1> QED BY <1>5, <1>6, <1>8, <1>9, <1>10, AllocFrame

-----------------------------------------------------------------------------
\* Registration.

\* What createSession needs of the identity it stamps: nobody ever had it, and
\* it is on a slot only if the session has that slot.
NewName(c, id) ==
  /\ id \in Ids
  /\ \A d \in All : sess[d].pc \notin Unreg => sess[d].id # id
  /\ id.n \in Slots => id.gen # 0 /\ c \in Conns /\ sess[c].slot = id.n

LEMMA RegisteredTypes ==
  ASSUME IInv, NEW c \in All, NEW id, NewName(c, id), Registered(c, id),
         nextID' \in [grpc : Nat, ws : Nat],
         UNCHANGED <<heap, slots, arena, busVars, pub, stop, ghosts>>
  PROVE  /\ Types'
         /\ sess'[c].pc = "serve" /\ sess'[c].id = id
         /\ sess'[c].slot = sess[c].slot /\ sess'[c].up = sess[c].up
         /\ \A d \in All \ {c} : sess'[d] = sess[d]
<1> USE DEF busVars, ghosts
<1> DEFINE x == [sess[c] EXCEPT !.id = id, !.authTimer = "armed", !.pc = "serve"]
<1>0. Types
  BY DEF IInv
<1>1. sess[c] \in Sess
  BY <1>0, SessFields
<1>2. x \in Sess /\ x.pc = "serve" /\ x.id = id /\ x.slot = sess[c].slot /\ x.up = sess[c].up
  BY <1>1 DEF Sess, Pcs, Bound, Up, NewName
<1>3. sess' = [sess EXCEPT ![c] = x]
  BY DEF Registered
<1> HIDE DEF x
<1>4. sess' \in [All -> Sess] /\ sess'[c] = x /\ \A d \in All \ {c} : sess'[d] = sess[d]
  BY <1>0, <1>2, <1>3, SessUpdate
<1>5. gen' \in [Slots -> Nat]
  BY <1>0 DEF Registered, Types, Flat, NewName, Ids
<1>6. /\ arr' \in [Slots -> [gen : Nat, conn : All \union {NoConn}]]
      /\ overflow' \subseteq [id : Ids, conn : All]
  <2>1. CASE Flat(id)
    <3>1. [gen |-> id.gen, conn |-> c] \in [gen : Nat, conn : All \union {NoConn}]
      BY DEF NewName, Ids
    <3>2. arr' = [arr EXCEPT ![id.n] = [gen |-> id.gen, conn |-> c]] /\ overflow' = overflow
      BY <2>1 DEF Registered, StoreRegister
    <3> QED BY <1>0, <3>1, <3>2 DEF Types
  <2>2. CASE ~Flat(id)
    <3>1. [id |-> id, conn |-> c] \in [id : Ids, conn : All]
      BY DEF NewName
    <3> QED BY <1>0, <2>2, <3>1 DEF Registered, StoreRegister, Types
  <2> QED BY <2>1, <2>2
<1>7. count' \in [grpc : Int, ws : Int]
  BY <1>0 DEF Registered, Types, Server
<1>8. Types'
  BY <1>0, <1>4, <1>5, <1>6, <1>7 DEF Types
<1> QED BY <1>2, <1>4, <1>8

\* The store gets the session without losing another.
LEMMA RegisteredStored ==
  ASSUME IInv, NEW c \in All, NEW id, NewName(c, id), Registered(c, id),
         sess[c].pc \in Unreg, c \in Conns => sess[c].pc = "register",
         sess'[c].pc = "serve", sess'[c].id = id, \A d \in All \ {c} : sess'[d] = sess[d]
  PROVE  Stored'
<1>0. Types /\ Identified /\ Stored /\ Placed /\ id \in Ids
  BY DEF IInv, NewName
<1>1. StoreRegister(id, c)
  BY DEF Registered
<1>2. sess[c].pc \notin Up
  BY DEF Unreg, Early, Up
<1>3. \A i \in Slots : arr[i].conn # NoConn =>
        /\ arr[i].conn \in All \ {c} /\ sess'[arr[i].conn].pc \in Up
        /\ sess'[arr[i].conn].id = [n |-> i, gen |-> arr[i].gen]
  BY <1>0, <1>2 DEF Types, Stored
<1>4. \A e \in overflow :
        e.conn \in All \ {c} /\ sess'[e.conn].pc \in Up /\ sess'[e.conn].id = e.id /\ ~Flat(e.id)
  BY <1>0, <1>2 DEF Types, Stored
<1>5. CASE Flat(id)
  <2>0. id.n \in Slots /\ c \in Conns /\ sess[c].slot = id.n
    BY <1>5 DEF NewName, Flat
  <2>1. arr' = [arr EXCEPT ![id.n] = [gen |-> id.gen, conn |-> c]] /\ overflow' = overflow
    BY <1>1, <1>5 DEF StoreRegister
  <2>2. arr \in [Slots -> [gen : Nat, conn : All \union {NoConn}]]
    BY <1>0 DEF Types
  <2>3. arr'[id.n] = [gen |-> id.gen, conn |-> c] /\ \A i \in Slots \ {id.n} : arr'[i] = arr[i]
    BY <2>0, <2>1, <2>2
  <2>4. ASSUME NEW d \in All \ {c}, sess[d].pc \in Up PROVE sess[d].id.n # id.n
    <3>1. SUFFICES ASSUME sess[d].id.n = id.n PROVE FALSE
      OBVIOUS
    <3>2. IdOf(d) /\ sess[d].pc \notin Unreg /\ sess[d].pc # "gone"
      BY <1>0, <2>4 DEF Identified, Up, Unreg, Early
    <3>3. id.n \in Nat /\ id.n <= MaxSlots /\ WsOffset > MaxSlots
      BY <2>0, SlotsAreNumbers, SessionsAssumption, FS_CardinalityType
    <3>4. d \in Conns /\ sess[d].slot = id.n
      <4>1. id.n \notin WsOffset + 1 .. nextID.ws
        BY <3>3, SessionsAssumption
      <4>2. id.n \notin MaxSlots + 1 .. nextID.grpc
        BY <3>3, SessionsAssumption
      <4> QED BY <3>1, <3>2, <4>1, <4>2 DEF IdOf
    <3>5. Holds(c, id.n) /\ Holds(d, id.n)
      BY <2>0, <3>2, <3>4 DEF Holds
    <3> QED BY <1>0, <2>0, <3>4, <3>5 DEF Placed, SlotPlaced
  <2>5. ASSUME NEW d \in All PROVE Found(d)'
    <3>1. CASE d = c
      BY <1>5, <2>3, <3>1 DEF Found, Flat
    <3>2. CASE d # c /\ sess[d].pc \in Up
      <4>1. Found(d) /\ sess[d].id.n # id.n /\ sess'[d] = sess[d]
        BY <1>0, <2>4, <3>2 DEF Stored
      <4> QED BY <2>1, <2>3, <3>2, <4>1 DEF Found, Flat
    <3>3. CASE d # c /\ sess[d].pc \notin Up
      BY <3>3 DEF Found
    <3> QED BY <3>1, <3>2, <3>3
  <2>6. id = [n |-> id.n, gen |-> id.gen]
    BY <1>0 DEF Ids
  <2>7. \A i \in Slots : arr'[i].conn # NoConn =>
          sess'[arr'[i].conn].pc \in Up /\ sess'[arr'[i].conn].id = [n |-> i, gen |-> arr'[i].gen]
    <3>1. arr'[id.n].conn = c /\ arr'[id.n].gen = id.gen /\ sess'[c].pc \in Up
      BY <2>3 DEF Up
    <3> QED BY <1>3, <2>3, <2>6, <3>1
  <2> QED BY <1>4, <2>1, <2>5, <2>7 DEF Stored, Flat
<1>6. CASE ~Flat(id)
  <2>1. overflow' = { e \in overflow : e.id # id } \union {[id |-> id, conn |-> c]} /\ arr' = arr
    BY <1>1, <1>6 DEF StoreRegister
  <2>2. ASSUME NEW d \in All PROVE Found(d)'
    <3>1. CASE d = c
      BY <1>6, <2>1, <3>1 DEF Found, Flat
    <3>2. CASE d # c /\ sess[d].pc \in Up
      <4>1. Found(d) /\ sess[d].id # id /\ sess'[d] = sess[d]
        BY <1>0, <3>2 DEF Stored, NewName, Up, Unreg, Early
      <4> QED BY <2>1, <3>2, <4>1 DEF Found, Flat
    <3>3. CASE d # c /\ sess[d].pc \notin Up
      BY <3>3 DEF Found
    <3> QED BY <3>1, <3>2, <3>3
  <2>3. \A e \in overflow' : sess'[e.conn].pc \in Up /\ sess'[e.conn].id = e.id /\ ~Flat(e.id)
    BY <1>4, <1>6, <2>1 DEF Up
  <2> QED BY <1>3, <2>1, <2>2, <2>3 DEF Stored, Flat
<1> QED BY <1>5, <1>6

LEMMA RegisteredKeeps ==
  ASSUME IInv, NEW c \in All, NEW id, NewName(c, id), Registered(c, id), Identified',
         nextID' \in [grpc : Nat, ws : Nat],
         sess[c].pc \in Unreg, sess[c].pc = IF c \in Conns THEN "register" ELSE "new",
         c \in WsConns => stop # "closed",
         UNCHANGED <<heap, slots, arena, busVars, pub, stop, ghosts>>
  PROVE  IInv'
<1> USE DEF busVars, ghosts
<1>0. Types /\ Local(c) /\ Placed /\ \A d \in Conns : d \in All
  BY ConnIsOne DEF IInv
<1>1. /\ Types'
      /\ sess'[c].pc = "serve" /\ sess'[c].id = id
      /\ sess'[c].slot = sess[c].slot /\ sess'[c].up = sess[c].up
      /\ \A d \in All \ {c} : sess'[d] = sess[d]
  BY RegisteredTypes
<1>2. sess[c].id = NoId /\ who[c] = NoSubject /\ heap[c] = Clean /\ sess[c].up = {}
  BY <1>0 DEF Local, Unreg, Early, Bound, Up
<1>3. Stored'
  BY <1>1, RegisteredStored
<1>4. ASSUME NEW d \in All PROVE Local(d)'
  <2>1. Local(d)
    BY DEF IInv
  <2>2. CASE d = c
    BY <1>0, <1>1, <1>2, <2>2 DEF Local, Hooked, Early, Unreg, Bound, Up, Ending
  <2>3. CASE d # c
    BY <1>1, <2>1, <2>3 DEF Local, Hooked
  <2> QED BY <2>2, <2>3
<1>5. \A d \in Conns, i \in Slots : Holds(d, i)' <=> Holds(d, i)
  BY <1>0, <1>1 DEF Holds, Unreg, Early
<1>6. Placed'
  <2>1. \A d \in Conns :
          /\ sess'[d].pc = "rollback" <=> sess[d].pc = "rollback"
          /\ sess'[d].pc \in {"clear", "append"} <=> sess[d].pc \in {"clear", "append"}
    BY <1>0, <1>1
  <2> QED BY <1>0, <1>5, <2>1, PlacedFrame
<1>7. Wiped'
  <2>1. \A d \in Conns, i \in Slots :
          Holds(d, i) /\ sess[d].pc \notin {"register", "append"}
            => Holds(d, i)' /\ sess'[d].pc \notin {"register", "append"}
    BY <1>0, <1>1, <1>5
  <2> QED BY <2>1, WipedFrame DEF IInv
<1>8. \A ch \in Chans : id \notin engine[ch]
  BY DEF IInv, Listening, NewName, Bound, Up, Unreg, Early
<1>9. Books(c)'
  <2>1. State(c)' = Clean
    <3>1. CASE sess[c].slot = 0
      BY <1>1, <1>2, <3>1 DEF State
    <3>2. CASE sess[c].slot # 0
      <4>1. c \in Conns /\ sess[c].slot \in Slots /\ sess[c].pc = "register"
        BY <1>0, <3>2, SessFields, SlotsAreNumbers DEF Local, All
      <4>2. Holds(c, sess[c].slot)
        BY <4>1 DEF Holds
      <4>3. \A d \in Conns : Holds(d, sess[c].slot) => d = c
        BY <1>0, <4>1, <4>2 DEF Placed, SlotPlaced
      <4>4. slots[sess[c].slot] = Clean
        BY <4>1, <4>3 DEF IInv, Wiped
      <4> QED BY <1>1, <3>2, <4>4 DEF State
    <3> QED BY <3>1, <3>2
  <2>2. { ch \in Chans : id \in engine[ch] } = {}
    BY <1>8
  <2>3. Clean.auth = FALSE /\ Clean.subject = NoSubject /\ Clean.subs = {}
    BY DEF Clean
  <2>4. who'[c] = NoSubject /\ engine' = engine
    BY <1>2
  <2>5. State(c)'.auth = (who'[c] # NoSubject) /\ State(c)'.subject = who'[c]
    BY <2>1, <2>3, <2>4
  <2>6. /\ State(c)'.subs = { ch \in Chans : sess'[c].id \in engine'[ch] }
        /\ sess'[c].up = State(c)'.subs
    BY <1>1, <1>2, <2>1, <2>2, <2>3, <2>4
  <2> QED BY <2>5, <2>6 DEF Books
<1>10. ASSUME NEW d \in All PROVE Books(d)'
  <2>1. CASE d = c
    BY <1>9, <2>1
  <2>2. CASE d # c
    BY <1>1, <2>2, BooksFrame DEF IInv
  <2> QED BY <2>1, <2>2
<1>11. Listening'
  <2>1. \A d \in All : sess[d].pc \in Bound => d # c
    BY DEF Unreg, Early, Bound, Up
  <2> QED BY <1>0, <1>1, <2>1, ListeningFrame DEF IInv
<1>12. RefsCounted'
  BY <1>0, <1>1, RefsFrame DEF IInv
<1>13. ConnsCounted'
  <2>0. count \in [grpc : Int, ws : Int] /\ count' = [count EXCEPT ![Server(c)] = @ + 1]
    BY <1>0 DEF Types, Registered
  <2>1. CASE c \in Conns
    <3>1. Connected' = Connected \union {c} /\ c \notin Connected
      BY <1>0, <1>1, <2>1 DEF Connected, Up, Unreg, Early
    <3>2. Cardinality(Connected') = Cardinality(Connected) + 1
      BY <3>1, SetsFinite, FS_AddElement
    <3>3. count'.grpc = count.grpc + 1
      BY <2>0, <2>1 DEF Server
    <3> QED BY <3>2, <3>3 DEF IInv, ConnsCounted
  <2>2. CASE c \notin Conns
    <3>1. Connected' = Connected
      BY <1>0, <1>1, <2>2 DEF Connected
    <3>2. count'.grpc = count.grpc
      BY <2>0, <2>2 DEF Server
    <3> QED BY <3>1, <3>2 DEF IInv, ConnsCounted
  <2> QED BY <2>1, <2>2
<1>14. Addressed'
  BY AddressedFrame DEF IInv
<1>15. Quiesced'
  <2>1. \A d \in Conns : sess[d].pc \in {"new", "gone"} => sess'[d].pc \in {"new", "gone"}
    BY <1>0, <1>1
  <2> QED BY <2>1, QuiescedFrame DEF IInv
<1> QED BY <1>1, <1>3, <1>4, <1>6, <1>7, <1>10, <1>11, <1>12, <1>13, <1>14, <1>15 DEF IInv

LEMMA SmallMod ==
  ASSUME NEW m \in Nat, NEW a \in Nat, a < m
  PROVE  a % m = a
OBVIOUS

\* A slot's next identity was never given out: the generation has not wrapped,
\* since every connection is named once.
LEMMA RegisterKeeps ==
  ASSUME IInv, NEW c \in Conns, Register(c)
  PROVE  IInv'
<1> DEFINE n == IF sess[c].slot = 0 THEN nextID.grpc + 1 ELSE sess[c].slot
           id == Identify(n)
<1>0. /\ Types /\ Local(c) /\ Placed /\ Identified /\ c \in All /\ c \notin WsConns
      /\ sess[c].pc = "register" /\ \A d \in Conns : d \in All
  BY ConnIsOne DEF IInv, Register, At
<1>1. /\ nextID' = (IF sess[c].slot = 0 THEN [nextID EXCEPT !.grpc = @ + 1] ELSE nextID)
      /\ Registered(c, id)
      /\ UNCHANGED <<heap, slots, arena, busVars, pub, stop, ghosts>>
  BY DEF Register, envVars
<1>2. /\ nextID \in [grpc : Nat, ws : Nat] /\ nextID' \in [grpc : Nat, ws : Nat]
      /\ nextID'.ws = nextID.ws /\ nextID.grpc \in Nat
      /\ nextID'.grpc = IF sess[c].slot = 0 THEN nextID.grpc + 1 ELSE nextID.grpc
  <2>1. nextID \in [grpc : Nat, ws : Nat]
    BY <1>0 DEF Types
  <2> QED BY <1>1, <2>1
<1>3. /\ Cardinality(Named) \in Nat /\ Cardinality(Conns) \in Nat
      /\ Cardinality(Named) + 1 <= Cardinality(Conns)
      /\ Cardinality(Named \union {c}) = Cardinality(Named) + 1
  <2>1. c \notin Named /\ Named \union {c} \subseteq Conns
    BY <1>0 DEF Named, Unreg
  <2>2. /\ Cardinality(Named \union {c}) = Cardinality(Named) + 1
        /\ IsFiniteSet(Named \union {c}) /\ IsFiniteSet(Conns)
    BY <2>1, SetsFinite, FS_AddElement, SessionsAssumption
  <2>3. Cardinality(Named \union {c}) <= Cardinality(Conns)
    BY <2>1, <2>2, FS_Subset
  <2> QED BY <2>2, <2>3, SetsFinite, FS_CardinalityType
<1>4. gen \in [Slots -> Nat] /\ \A i \in Slots : gen[i] <= Cardinality(Named)
  BY <1>0 DEF Types, Identified, Counted
<1>5. CASE sess[c].slot # 0
  <2>1. n = sess[c].slot /\ n \in Slots /\ n \in Nat
    BY <1>0, <1>5, SessFields, SlotsAreNumbers
  <2>2. NextGen(n) = gen[n] + 1 /\ gen[n] \in Nat
    <3>1. gen[n] \in Nat /\ gen[n] + 1 < GenLimit
      BY <1>3, <1>4, <2>1, SessionsAssumption
    <3>2. (gen[n] + 1) % GenLimit = gen[n] + 1
      <4>1. gen[n] + 1 \in Nat /\ GenLimit \in Nat
        BY <3>1, SessionsAssumption
      <4> QED BY <3>1, <4>1, SmallMod
    <3> QED BY <3>1, <3>2 DEF NextGen
  <2>3. id = [n |-> n, gen |-> gen[n] + 1]
    BY <2>1, <2>2 DEF Identify
  <2>4. id \in Ids /\ id.n = n /\ id.gen = gen[n] + 1 /\ id.gen # 0 /\ Flat(id)
    BY <2>1, <2>2, <2>3 DEF Ids, Flat
  <2> HIDE DEF n, id
  <2>5. ASSUME NEW d \in All, sess[d].pc \notin Unreg PROVE sess[d].id # id
    <3>1. IdOf(d) /\ sess[d].id.gen \in Nat
      BY <1>0, SessFields DEF Identified, Ids
    <3>2. CASE d \in Conns /\ sess[d].id.n \in Slots /\ sess[d].id.gen \in 1 .. gen[sess[d].id.n]
      <4>1. sess[d].id.n = n => sess[d].id.gen <= gen[n]
        BY <1>4, <2>1, <3>1, <3>2
      <4> QED BY <2>2, <2>4, <3>1, <4>1
    <3>3. CASE sess[d].id.gen = 0
      BY <2>4, <3>3
    <3> QED BY <2>5, <3>1, <3>2, <3>3 DEF IdOf
  <2>6. NewName(c, id)
    BY <2>1, <2>4, <2>5 DEF NewName
  <2>7. /\ sess'[c].pc = "serve" /\ sess'[c].id = id /\ sess'[c].slot = sess[c].slot
        /\ \A d \in All \ {c} : sess'[d] = sess[d]
    BY <1>0, <1>1, <1>2, <2>6, RegisteredTypes
  <2>8. gen'[n] = gen[n] + 1 /\ \A i \in Slots \ {n} : gen'[i] = gen[i]
    BY <1>1, <1>4, <2>1, <2>4 DEF Registered
  <2>9. Named' = Named \union {c}
    BY <1>0, <2>7 DEF Named, Unreg, Early
  <2>10. nextID'.grpc = nextID.grpc /\ nextID'.ws = nextID.ws
    BY <1>2, <1>5
  <2>11. Counted'
    <3>1. \A i \in Slots : gen'[i] <= Cardinality(Named')
      BY <1>3, <1>4, <2>2, <2>8, <2>9
    <3> QED BY <1>0, <1>2, <1>3, <2>9, <2>10, <3>1, SessionsAssumption DEF Identified, Counted
  <2>12. Apart'
    BY <1>0, <2>5, <2>7 DEF Identified, Apart
  <2>13. ASSUME NEW d \in All PROVE IdOf(d)'
    <3>1. CASE d = c
      BY <1>0, <2>1, <2>2, <2>4, <2>7, <2>8, <3>1 DEF IdOf
    <3>2. CASE d # c
      <4>1. \A i \in Slots : \A g \in 1 .. gen[i] : g \in 1 .. gen'[i]
        BY <1>4, <2>2, <2>8
      <4> QED BY <1>0, <2>7, <2>10, <3>2, <4>1 DEF Identified, IdOf
    <3> QED BY <3>1, <3>2
  <2>14. Identified'
    BY <2>11, <2>12, <2>13 DEF Identified
  <2> QED BY <1>0, <1>1, <1>2, <2>6, <2>14, RegisteredKeeps DEF Unreg
<1>6. CASE sess[c].slot = 0
  <2>1. n = nextID.grpc + 1 /\ n \in Nat /\ n > MaxSlots /\ n \notin Slots /\ nextID'.grpc = n
    BY <1>0, <1>2, <1>6, SessionsAssumption DEF Identified, Counted, Slots
  <2>2. id = [n |-> n, gen |-> 0]
    BY <2>1 DEF Identify
  <2>3. id \in Ids /\ id.n = n /\ id.gen = 0 /\ ~Flat(id)
    BY <2>1, <2>2 DEF Ids, Flat
  <2> HIDE DEF n, id
  <2>4. n <= MaxSlots + Cardinality(Named) + 1 /\ n <= WsOffset
    BY <1>0, <1>2, <1>3, <2>1, SessionsAssumption DEF Identified, Counted
  <2>5. ASSUME NEW d \in All, sess[d].pc \notin Unreg PROVE sess[d].id # id
    <3>1. IdOf(d)
      BY <1>0 DEF Identified
    <3>2. n \notin MaxSlots + 1 .. nextID.grpc /\ n \notin WsOffset + 1 .. nextID.ws
      BY <1>2, <2>1, <2>4, SessionsAssumption
    <3> QED BY <2>1, <2>3, <2>5, <3>1, <3>2 DEF IdOf
  <2>6. NewName(c, id)
    BY <2>1, <2>3, <2>5 DEF NewName
  <2>7. /\ sess'[c].pc = "serve" /\ sess'[c].id = id /\ sess'[c].slot = sess[c].slot
        /\ \A d \in All \ {c} : sess'[d] = sess[d]
    BY <1>0, <1>1, <1>2, <2>6, RegisteredTypes
  <2>8. gen' = gen
    BY <1>1, <2>3 DEF Registered
  <2>9. Named' = Named \union {c}
    BY <1>0, <2>7 DEF Named, Unreg, Early
  <2>10. Counted'
    <3>1. \A i \in Slots : gen'[i] <= Cardinality(Named')
      BY <1>3, <1>4, <2>8, <2>9
    <3>2. nextID'.grpc <= MaxSlots + Cardinality(Named')
      BY <1>3, <2>1, <2>4, <2>9, SessionsAssumption
    <3>3. MaxSlots <= nextID'.grpc /\ WsOffset <= nextID'.ws
      BY <1>0, <1>2, <2>1, SessionsAssumption DEF Identified, Counted
    <3> QED BY <3>1, <3>2, <3>3 DEF Counted
  <2>11. Apart'
    BY <1>0, <2>5, <2>7 DEF Identified, Apart
  <2>12. ASSUME NEW d \in All PROVE IdOf(d)'
    <3>1. CASE d = c
      <4>1. n \in MaxSlots + 1 .. nextID'.grpc
        BY <2>1, SessionsAssumption
      <4> QED BY <1>0, <1>6, <2>3, <2>7, <3>1, <4>1 DEF IdOf
    <3>2. CASE d # c
      <4>1. \A k : k \in MaxSlots + 1 .. nextID.grpc => k \in MaxSlots + 1 .. nextID'.grpc
        BY <1>2, <2>1, SessionsAssumption
      <4> QED BY <1>0, <1>2, <2>7, <2>8, <3>2, <4>1 DEF Identified, IdOf
    <3> QED BY <3>1, <3>2
  <2>13. Identified'
    BY <2>10, <2>11, <2>12 DEF Identified
  <2> QED BY <1>0, <1>1, <1>2, <2>6, <2>13, RegisteredKeeps DEF Unreg
<1> QED BY <1>5, <1>6

LEMMA WsOpenKeeps ==
  ASSUME IInv, NEW c \in WsConns, WsOpen(c)
  PROVE  IInv'
<1> DEFINE n == nextID.ws + 1
           id == Identify(n)
<1>0. /\ Types /\ Local(c) /\ Placed /\ Identified /\ c \in All /\ c \notin Conns
      /\ sess[c].pc = "new" /\ \A d \in Conns : d \in All
  BY ConnIsOne, SessionsAssumption DEF IInv, WsOpen, At, All
<1>1. /\ nextID' = [nextID EXCEPT !.ws = n] /\ stop = "running"
      /\ Registered(c, id)
      /\ UNCHANGED <<heap, slots, arena, busVars, pub, stop, ghosts>>
  BY DEF WsOpen
<1>2. /\ nextID \in [grpc : Nat, ws : Nat] /\ nextID' \in [grpc : Nat, ws : Nat]
      /\ nextID'.ws = n /\ nextID'.grpc = nextID.grpc /\ nextID.ws \in Nat /\ nextID.grpc \in Nat
  <2>1. nextID \in [grpc : Nat, ws : Nat]
    BY <1>0 DEF Types
  <2> QED BY <1>1, <2>1
<1>3. /\ Cardinality(Named) \in Nat /\ Cardinality(Conns) \in Nat
      /\ Cardinality(Named) <= Cardinality(Conns)
  <2>1. Named \subseteq Conns /\ IsFiniteSet(Conns)
    BY SessionsAssumption DEF Named
  <2> QED BY <2>1, FS_Subset, FS_CardinalityType
<1>4. /\ n \in Nat /\ n > WsOffset /\ n > MaxSlots /\ n > nextID.grpc /\ n \notin Slots
  BY <1>0, <1>2, <1>3, SessionsAssumption DEF Identified, Counted, Slots
<1>5. id = [n |-> n, gen |-> 0]
  BY <1>4 DEF Identify
<1>6. id \in Ids /\ id.n = n /\ id.gen = 0 /\ ~Flat(id)
  BY <1>4, <1>5 DEF Ids, Flat
<1>7. n = nextID.ws + 1
  OBVIOUS
<1> HIDE DEF n, id
<1>8. ASSUME NEW d \in All, sess[d].pc \notin Unreg PROVE sess[d].id # id
  <2>1. IdOf(d)
    BY <1>0 DEF Identified
  <2>2. n \notin MaxSlots + 1 .. nextID.grpc /\ n \notin WsOffset + 1 .. nextID.ws
    BY <1>2, <1>4, <1>7, SessionsAssumption
  <2> QED BY <1>4, <1>6, <1>8, <2>1, <2>2 DEF IdOf
<1>9. NewName(c, id)
  BY <1>4, <1>6, <1>8 DEF NewName
<1>10. /\ sess'[c].pc = "serve" /\ sess'[c].id = id /\ sess'[c].slot = sess[c].slot
       /\ \A d \in All \ {c} : sess'[d] = sess[d]
  BY <1>0, <1>1, <1>2, <1>9, RegisteredTypes
<1>11. gen' = gen
  BY <1>1, <1>6 DEF Registered
<1>12. Named' = Named
  BY <1>0, <1>10 DEF Named
<1>13. Counted'
  BY <1>0, <1>2, <1>4, <1>11, <1>12, SessionsAssumption DEF Identified, Counted
<1>14. Apart'
  BY <1>0, <1>8, <1>10 DEF Identified, Apart
<1>15. ASSUME NEW d \in All PROVE IdOf(d)'
  <2>1. CASE d = c
    <3>1. n \in WsOffset + 1 .. nextID'.ws
      BY <1>2, <1>4, SessionsAssumption
    <3> QED BY <1>0, <1>6, <1>10, <2>1, <3>1 DEF IdOf
  <2>2. CASE d # c
    <3>1. \A k : k \in WsOffset + 1 .. nextID.ws => k \in WsOffset + 1 .. nextID'.ws
      BY <1>2, <1>7, SessionsAssumption
    <3> QED BY <1>0, <1>2, <1>10, <1>11, <2>2, <3>1 DEF Identified, IdOf
  <2> QED BY <2>1, <2>2
<1>16. Identified'
  BY <1>13, <1>14, <1>15 DEF Identified
<1> QED BY <1>0, <1>1, <1>2, <1>9, <1>16, RegisteredKeeps DEF Unreg, Early

-----------------------------------------------------------------------------
\* Requests.

LEMMA WriteTypes ==
  ASSUME Types, NEW c \in All, NEW st \in States, WriteState(c, st)
  PROVE  /\ heap' \in [All -> States] /\ slots' \in [Slots -> States]
         /\ \A d \in All \ {c} : heap'[d] = heap[d]
         /\ \A i \in Slots : i # sess[c].slot => slots'[i] = slots[i]
         /\ sess[c].slot = 0 => heap'[c] = st
         /\ sess[c].slot # 0 => sess[c].slot \in Slots /\ slots'[sess[c].slot] = st
<1>0. heap \in [All -> States] /\ slots \in [Slots -> States] /\ sess[c].slot \in 0 .. MaxSlots
  BY SessFields DEF Types
<1>1. CASE sess[c].slot = 0
  <2>1. heap' = [heap EXCEPT ![c] = st] /\ slots' = slots
    BY <1>1 DEF WriteState
  <2> QED BY <1>0, <1>1, <2>1
<1>2. CASE sess[c].slot # 0
  <2>1. slots' = [slots EXCEPT ![sess[c].slot] = st] /\ heap' = heap
    BY <1>2 DEF WriteState
  <2>2. sess[c].slot \in Slots
    BY <1>0, <1>2, SlotsAreNumbers
  <2> QED BY <1>0, <1>2, <2>1, <2>2
<1> QED BY <1>1, <1>2

\* A request writes what is the session's own.
LEMMA ServedKeeps ==
  ASSUME IInv, NEW c \in All, Serving(c),
         NEW st \in States, WriteState(c, st),
         NEW x \in Sess, sess' = [sess EXCEPT ![c] = x],
         x.pc = "serve", x.slot = sess[c].slot, x.id = sess[c].id,
         ~Hooked(c) => x.up = {}, Hooked(c) => x.up = st.subs,
         who' \in [All -> Subjects], \A d \in All \ {c} : who'[d] = who[d],
         engine' \in [Chans -> SUBSET Ids], refs' \in [Chans -> Int],
         \A ch \in Chans : \A id : id # sess[c].id => (id \in engine'[ch] <=> id \in engine[ch]),
         st.auth = (who'[c] # NoSubject), st.subject = who'[c],
         st.subs = { ch \in Chans : sess[c].id \in engine'[ch] },
         RefsCounted',
         UNCHANGED <<arena, storeVars, pub, stop, stray, late>>
  PROVE  IInv'
<1> USE DEF storeVars
<1>0. /\ Types /\ Local(c) /\ Placed /\ Identified /\ sess[c].pc = "serve"
      /\ \A d \in Conns : d \in All
  BY ConnIsOne DEF IInv, Serving
<1>1. sess' \in [All -> Sess] /\ sess'[c] = x /\ \A d \in All \ {c} : sess'[d] = sess[d]
  BY <1>0, SessUpdate
<1>2. /\ heap' \in [All -> States] /\ slots' \in [Slots -> States]
      /\ \A d \in All \ {c} : heap'[d] = heap[d]
      /\ \A i \in Slots : i # sess[c].slot => slots'[i] = slots[i]
      /\ sess[c].slot = 0 => heap'[c] = st
      /\ sess[c].slot # 0 => sess[c].slot \in Slots /\ slots'[sess[c].slot] = st
  BY <1>0, WriteTypes
<1>3. Types'
  BY <1>0, <1>1, <1>2 DEF Types
<1>4. \A d \in All : /\ sess'[d].pc = sess[d].pc /\ sess'[d].slot = sess[d].slot
                     /\ sess'[d].id = sess[d].id
  BY <1>0, <1>1
<1>5. ASSUME NEW d \in All PROVE Local(d)'
  <2>1. Local(d)
    BY DEF IInv
  <2>2. CASE d = c
    BY <1>0, <1>1, <2>2 DEF Local, Hooked, Early, Unreg, Bound, Up, Ending
  <2>3. CASE d # c
    BY <1>1, <1>2, <2>1, <2>3 DEF Local, Hooked
  <2> QED BY <2>2, <2>3
<1>6. \A d \in Conns, i \in Slots : Holds(d, i)' <=> Holds(d, i)
  BY <1>0, <1>4 DEF Holds
<1>7. Placed'
  BY <1>0, <1>4, <1>6, PlacedFrame
<1>8. Identified'
  BY <1>0, <1>4, IdentifiedFrame
<1>9. Stored'
  BY <1>0, <1>4, StoredFrame DEF IInv
<1>10. sess[c].slot # 0 => c \in Conns
  BY <1>0 DEF Local, All
<1>11. Wiped'
  <2>1. ASSUME NEW i \in Slots,
               \A d \in Conns : Holds(d, i)' => sess'[d].pc \in {"register", "append"}
        PROVE  slots'[i] = Clean
    <3>1. i # sess[c].slot
      <4>1. SUFFICES ASSUME i = sess[c].slot PROVE FALSE
        OBVIOUS
      <4>2. c \in Conns
        BY <1>10, <4>1, SlotsAreNumbers
      <4>3. Holds(c, i)
        BY <1>0, <4>1 DEF Holds
      <4> QED BY <1>0, <1>4, <1>6, <2>1, <4>2, <4>3
    <3>2. slots[i] = Clean
      BY <1>0, <1>4, <1>6, <2>1 DEF IInv, Wiped
    <3> QED BY <1>2, <3>1, <3>2
  <2> QED BY <2>1 DEF Wiped
<1>12. ASSUME NEW d \in All PROVE Books(d)'
  <2>1. CASE d = c
    <3>1. State(c)' = st
      BY <1>2, <1>4 DEF State
    <3>2. { ch \in Chans : sess'[c].id \in engine'[ch] } = { ch \in Chans : sess[c].id \in engine'[ch] }
      BY <1>4
    <3>3. Hooked(c)' => sess'[c].up = st.subs
      BY <1>1 DEF Hooked
    <3> QED BY <2>1, <3>1, <3>2, <3>3 DEF Books
  <2>2. CASE d # c /\ sess[d].pc # "serve"
    BY <1>4, <2>2 DEF Books, Serving
  <2>3. CASE d # c /\ sess[d].pc = "serve"
    <3>1. sess[d].id # sess[c].id
      BY <1>0, <2>3 DEF Identified, Apart, Unreg, Early
    <3>2. sess[d].slot # 0 => slots'[sess[d].slot] = slots[sess[d].slot]
      <4>1. SUFFICES ASSUME sess[d].slot # 0, sess[d].slot = sess[c].slot PROVE FALSE
        BY <1>0, <1>2, SessFields, SlotsAreNumbers
      <4>2. d \in Conns /\ c \in Conns
        BY <1>10, <4>1 DEF IInv, Local, All
      <4>3. Holds(d, sess[c].slot) /\ Holds(c, sess[c].slot) /\ sess[c].slot \in Slots
        BY <1>0, <1>2, <2>3, <4>1 DEF Holds
      <4> QED BY <1>0, <2>3, <4>2, <4>3 DEF Placed, SlotPlaced
    <3>3. \A ch \in Chans : sess[d].id \in engine'[ch] <=> sess[d].id \in engine[ch]
      BY <3>1
    <3> QED BY <1>1, <1>2, <1>4, <2>3, <3>2, <3>3, BooksFrame DEF IInv
  <2> QED BY <2>1, <2>2, <2>3
<1>13. Listening'
  <2>1. ASSUME NEW ch \in Chans, NEW id \in engine'[ch]
        PROVE  \E d \in All : sess'[d].id = id /\ sess'[d].pc \in Bound
    <3>1. CASE id = sess[c].id
      BY <1>0, <1>4, <3>1 DEF Bound, Up
    <3>2. CASE id # sess[c].id
      <4>1. id \in engine[ch]
        BY <3>2
      <4> QED BY <1>4, <4>1 DEF IInv, Listening
    <3> QED BY <3>1, <3>2
  <2> QED BY <2>1 DEF Listening
<1>14. ConnsCounted'
  BY <1>0, <1>4, ConnsFrame DEF IInv
<1>15. Addressed' /\ Quiesced'
  BY <1>0, <1>4, AddressedFrame, QuiescedFrame DEF IInv
<1> QED BY <1>3, <1>5, <1>7, <1>8, <1>9, <1>11, <1>12, <1>13, <1>14, <1>15 DEF IInv

\* The state a serving session reads.
LEMMA StateType ==
  ASSUME Types, NEW c \in All
  PROVE  /\ State(c) \in States /\ State(c).auth \in BOOLEAN /\ State(c).subject \in Subjects
         /\ State(c).subs \subseteq Chans /\ IsFiniteSet(State(c).subs)
         /\ Cardinality(State(c).subs) \in Nat
<1>1. State(c) \in States
  BY SessFields, SlotsAreNumbers DEF State, Types
<1> QED BY <1>1, FS_CardinalityType DEF States, FinChans

LEMMA AdmittedKeeps ==
  ASSUME IInv, NEW c \in All, Serving(c), Connect(c) \/ Refresh(c)
  PROVE  IInv'
<1>0. Types /\ Local(c) /\ Books(c) /\ RefsCounted /\ sess[c].pc = "serve"
  BY DEF IInv, Serving
<1>1. PICK t \in Tokens :
        /\ Admitted(c, t)
        /\ State(c).auth => t.subject = State(c).subject
        /\ \/ who' = [who EXCEPT ![c] = IF @ = NoSubject THEN t.subject ELSE @]
           \/ State(c).auth /\ who' = who
  BY DEF Connect, Refresh
<1>2. /\ t.subject \in Subjects /\ t.subject # NoSubject /\ t.chans \subseteq Chans
      /\ who \in [All -> Subjects]
  BY <1>0, SessionsAssumption DEF Subjects, Types
<1>3. /\ State(c) \in States /\ State(c).subs \in FinChans
      /\ State(c).auth = (who[c] # NoSubject) /\ State(c).subject = who[c]
      /\ State(c).subs = { ch \in Chans : sess[c].id \in engine[ch] }
      /\ Hooked(c) => sess[c].up = State(c).subs
  BY <1>0, StateType DEF Books, Serving, States
<1>4. who' \in [All -> Subjects] /\ who'[c] = t.subject /\ \A d \in All \ {c} : who'[d] = who[d]
  <2>1. who[c] # NoSubject => who[c] = t.subject
    BY <1>1, <1>3
  <2> QED BY <1>1, <1>2, <1>3, <2>1
<1> DEFINE st == [State(c) EXCEPT !.auth = TRUE, !.subject = t.subject]
           ex == IF t.expires THEN "armed" ELSE "off"
           x  == [sess[c] EXCEPT !.allow = t.chans, !.expiry = ex]
<1>5. /\ st \in States /\ st.auth = TRUE /\ st.subject = t.subject /\ st.subs = State(c).subs
  BY <1>2, <1>3 DEF States
<1>6. sess[c] \in Sess /\ ex \in {"armed", "off"}
  BY <1>0, SessFields
<1>7. /\ x \in Sess /\ x.pc = "serve" /\ x.slot = sess[c].slot /\ x.id = sess[c].id
      /\ x.up = sess[c].up
  BY <1>0, <1>2, <1>6 DEF Sess
<1>8. /\ WriteState(c, st) /\ sess' = [sess EXCEPT ![c] = x]
      /\ UNCHANGED <<arena, storeVars, busVars, pub, stop, stray, late>>
  BY <1>1 DEF Admitted
<1> HIDE DEF st, ex, x
<1>9. engine' = engine /\ refs' = refs /\ engine \in [Chans -> SUBSET Ids] /\ refs \in [Chans -> Int]
  BY <1>0, <1>8 DEF busVars, Types
<1>10. \A d \in Conns : sess'[d].up = sess[d].up
  BY <1>0, <1>7, <1>8, SessUpdate, ConnIsOne
<1>11. RefsCounted'
  BY <1>0, <1>9, <1>10, RefsFrame
<1>12. st.auth = (who'[c] # NoSubject) /\ st.subject = who'[c]
  BY <1>2, <1>4, <1>5
<1>13. ~Hooked(c) => x.up = {}
  BY <1>0, <1>7 DEF Local
<1>14. /\ Hooked(c) => x.up = st.subs
       /\ st.subs = { ch \in Chans : sess[c].id \in engine'[ch] }
  BY <1>3, <1>5, <1>7, <1>9
<1>15. UNCHANGED <<arena, storeVars, pub, stop, stray, late>>
  BY <1>8
<1>16. \A ch \in Chans : \A id : id # sess[c].id => (id \in engine'[ch] <=> id \in engine[ch])
  BY <1>9
<1>17. engine' \in [Chans -> SUBSET Ids] /\ refs' \in [Chans -> Int]
  BY <1>9
<1> QED BY <1>4, <1>5, <1>7, <1>8, <1>11, <1>12, <1>13, <1>14, <1>15, <1>16, <1>17, ServedKeeps

\* The limit keeps AddSubscription from ever dropping a channel.
LEMMA LimitFits ==
  ASSUME Types, NEW c \in All, Local(c),
         Limit(c) > 0 => Cardinality(State(c).subs) < Limit(c), NEW ch
  PROVE  Added(c, ch) = [State(c) EXCEPT !.subs = @ \union {ch}]
<1>1. CASE sess[c].slot # 0
  <2>1. c \in Conns /\ MaxSlots > 0
    BY <1>1, SessFields, SessionsAssumption DEF Local, All
  <2>2. Limit(c) > 0 /\ Limit(c) <= SlotCap /\ Limit(c) \in Nat
    BY <2>1, SessionsAssumption DEF Limit
  <2>3. ~(Cardinality(State(c).subs) >= SlotCap)
    BY <2>2, StateType, SessionsAssumption
  <2> QED BY <2>3 DEF Added
<1>2. CASE sess[c].slot = 0
  BY <1>2 DEF Added
<1> QED BY <1>1, <1>2

LEMMA SubscribeKeeps ==
  ASSUME IInv, NEW c \in All, Serving(c), Subscribe(c)
  PROVE  IInv'
<1>0. Types /\ Local(c) /\ Books(c) /\ RefsCounted /\ sess[c].pc = "serve"
  BY DEF IInv, Serving
<1>1. PICK ch \in sess[c].allow :
        /\ Limit(c) > 0 => Cardinality(State(c).subs) < Limit(c)
        /\ sess[c].id \notin engine[ch]
        /\ engine' = [engine EXCEPT ![ch] = @ \union {sess[c].id}]
        /\ WriteState(c, Added(c, ch))
        /\ IF Hooked(c)
           THEN /\ sess' = [sess EXCEPT ![c].up = @ \union {ch}]
                /\ refs' = [refs EXCEPT ![ch] = IF ch \in Relayed THEN @ + 1 ELSE @]
           ELSE UNCHANGED <<sess, refs>>
        /\ UNCHANGED <<arena, storeVars, pub, stop, ghosts>>
  BY DEF Subscribe
<1>2. /\ ch \in Chans /\ sess[c] \in Sess /\ sess[c].id \in Ids /\ sess[c].up \subseteq Chans
      /\ sess \in [All -> Sess] /\ engine \in [Chans -> SUBSET Ids] /\ refs \in [Chans -> Int]
      /\ who \in [All -> Subjects]
  BY <1>0, SessFields DEF Types
<1>3. /\ State(c) \in States /\ State(c).subs \subseteq Chans /\ IsFiniteSet(State(c).subs)
      /\ State(c).auth = (who[c] # NoSubject) /\ State(c).subject = who[c]
      /\ State(c).subs = { k \in Chans : sess[c].id \in engine[k] }
      /\ Hooked(c) => sess[c].up = State(c).subs
  BY <1>0, StateType DEF Books, Serving
<1> DEFINE st == [State(c) EXCEPT !.subs = @ \union {ch}]
           x  == IF Hooked(c) THEN [sess[c] EXCEPT !.up = @ \union {ch}] ELSE sess[c]
<1>4. State(c).subs \union {ch} \in FinChans
  BY <1>2, <1>3, FS_AddElement DEF FinChans
<1>5. /\ st \in States /\ st.auth = State(c).auth /\ st.subject = State(c).subject
      /\ st.subs = State(c).subs \union {ch}
  BY <1>3, <1>4 DEF States
<1>6. WriteState(c, st)
  BY <1>0, <1>1, LimitFits
<1>7. /\ x \in Sess /\ x.pc = "serve" /\ x.slot = sess[c].slot /\ x.id = sess[c].id
      /\ x.up = IF Hooked(c) THEN sess[c].up \union {ch} ELSE sess[c].up
  BY <1>0, <1>2 DEF Sess
<1>8. sess' = [sess EXCEPT ![c] = x]
  BY <1>1, <1>2
<1> HIDE DEF st, x
<1>9. /\ engine' \in [Chans -> SUBSET Ids]
      /\ engine'[ch] = engine[ch] \union {sess[c].id} /\ \A k \in Chans \ {ch} : engine'[k] = engine[k]
  BY <1>1, <1>2
<1>10. \A k \in Chans : \A id : id # sess[c].id => (id \in engine'[k] <=> id \in engine[k])
  BY <1>9
<1>11. st.subs = { k \in Chans : sess[c].id \in engine'[k] }
  BY <1>2, <1>3, <1>5, <1>9
<1>12. /\ ~Hooked(c) => x.up = {}
       /\ Hooked(c) => x.up = st.subs
  BY <1>0, <1>3, <1>5, <1>7 DEF Local
<1>13. sess'[c] = x /\ \A d \in Conns \ {c} : sess'[d] = sess[d]
  BY <1>0, <1>7, <1>8, SessUpdate, ConnIsOne
<1>14. RefsCounted' /\ refs' \in [Chans -> Int]
  <2>1. CASE Hooked(c)
    <3>0. c \in Conns /\ ch \notin sess[c].up
      BY <1>1, <1>3, <2>1 DEF Hooked
    <3>1. \A k \in Chans \ {ch} : Holders(k)' = Holders(k)
      BY <1>7, <1>13, <2>1 DEF Holders
    <3>2. Holders(ch)' = Holders(ch) \union {c} /\ c \notin Holders(ch)
      BY <1>7, <1>13, <2>1, <3>0 DEF Holders
    <3>3. Cardinality(Holders(ch)') = Cardinality(Holders(ch)) + 1
      BY <3>2, SetsFinite, FS_AddElement
    <3>4. /\ refs' \in [Chans -> Int] /\ \A k \in Chans \ {ch} : refs'[k] = refs[k]
          /\ refs'[ch] = IF ch \in Relayed THEN refs[ch] + 1 ELSE refs[ch]
      BY <1>1, <1>2, <2>1
    <3> QED BY <1>0, <1>2, <3>1, <3>3, <3>4, SetsFinite DEF RefsCounted
  <2>2. CASE ~Hooked(c)
    BY <1>0, <1>1, <1>2, <2>2, RefsFrame
  <2> QED BY <2>1, <2>2
<1>15. who' = who /\ UNCHANGED <<arena, storeVars, pub, stop, stray, late>>
  BY <1>1 DEF ghosts
<1>16. /\ st.auth = (who'[c] # NoSubject) /\ st.subject = who'[c]
       /\ who' \in [All -> Subjects] /\ \A d \in All \ {c} : who'[d] = who[d]
  BY <1>2, <1>3, <1>5, <1>15
<1> QED BY <1>5, <1>6, <1>7, <1>8, <1>9, <1>10, <1>11, <1>12, <1>14, <1>15, <1>16, ServedKeeps

LEMMA UnsubscribeKeeps ==
  ASSUME IInv, NEW c \in All, Serving(c), Unsubscribe(c)
  PROVE  IInv'
<1>0. Types /\ Local(c) /\ Books(c) /\ RefsCounted /\ sess[c].pc = "serve"
  BY DEF IInv, Serving
<1>1. PICK ch \in Chans :
        /\ sess[c].id \in engine[ch]
        /\ engine' = [engine EXCEPT ![ch] = @ \ {sess[c].id}]
        /\ WriteState(c, Removed(c, ch))
        /\ IF Hooked(c)
           THEN /\ sess' = [sess EXCEPT ![c].up = @ \ {ch}]
                /\ refs' = [refs EXCEPT ![ch] = IF ch \in Relayed THEN @ - 1 ELSE @]
           ELSE UNCHANGED <<sess, refs>>
        /\ UNCHANGED <<arena, storeVars, pub, stop, ghosts>>
  BY DEF Unsubscribe
<1>2. /\ sess[c] \in Sess /\ sess[c].id \in Ids /\ sess[c].up \subseteq Chans
      /\ sess \in [All -> Sess] /\ engine \in [Chans -> SUBSET Ids] /\ refs \in [Chans -> Int]
      /\ who \in [All -> Subjects]
  BY <1>0, SessFields DEF Types
<1>3. /\ State(c) \in States /\ State(c).subs \subseteq Chans /\ IsFiniteSet(State(c).subs)
      /\ State(c).auth = (who[c] # NoSubject) /\ State(c).subject = who[c]
      /\ State(c).subs = { k \in Chans : sess[c].id \in engine[k] }
      /\ Hooked(c) => sess[c].up = State(c).subs
  BY <1>0, StateType DEF Books, Serving
<1> DEFINE st == [State(c) EXCEPT !.subs = @ \ {ch}]
           x  == IF Hooked(c) THEN [sess[c] EXCEPT !.up = @ \ {ch}] ELSE sess[c]
<1>4. State(c).subs \ {ch} \in FinChans
  BY <1>3, FS_RemoveElement, FS_Subset DEF FinChans
<1>5. /\ st \in States /\ st.auth = State(c).auth /\ st.subject = State(c).subject
      /\ st.subs = State(c).subs \ {ch}
  BY <1>3, <1>4 DEF States
<1>6. WriteState(c, st)
  BY <1>1 DEF Removed
<1>7. /\ x \in Sess /\ x.pc = "serve" /\ x.slot = sess[c].slot /\ x.id = sess[c].id
      /\ x.up = IF Hooked(c) THEN sess[c].up \ {ch} ELSE sess[c].up
  BY <1>0, <1>2 DEF Sess
<1>8. sess' = [sess EXCEPT ![c] = x]
  BY <1>1, <1>2
<1> HIDE DEF st, x
<1>9. /\ engine' \in [Chans -> SUBSET Ids]
      /\ engine'[ch] = engine[ch] \ {sess[c].id} /\ \A k \in Chans \ {ch} : engine'[k] = engine[k]
  BY <1>1, <1>2
<1>10. \A k \in Chans : \A id : id # sess[c].id => (id \in engine'[k] <=> id \in engine[k])
  BY <1>9
<1>11. st.subs = { k \in Chans : sess[c].id \in engine'[k] }
  BY <1>2, <1>3, <1>5, <1>9
<1>12. /\ ~Hooked(c) => x.up = {}
       /\ Hooked(c) => x.up = st.subs
  BY <1>0, <1>3, <1>5, <1>7 DEF Local
<1>13. sess'[c] = x /\ \A d \in Conns \ {c} : sess'[d] = sess[d]
  BY <1>0, <1>7, <1>8, SessUpdate, ConnIsOne
<1>14. RefsCounted' /\ refs' \in [Chans -> Int]
  <2>1. CASE Hooked(c)
    <3>0. c \in Conns /\ ch \in sess[c].up
      BY <1>1, <1>3, <2>1 DEF Hooked
    <3>1. \A k \in Chans \ {ch} : Holders(k)' = Holders(k)
      BY <1>7, <1>13, <2>1 DEF Holders
    <3>2. Holders(ch)' = Holders(ch) \ {c} /\ c \in Holders(ch)
      BY <1>7, <1>13, <2>1, <3>0 DEF Holders
    <3>3. Cardinality(Holders(ch)') = Cardinality(Holders(ch)) - 1
      BY <3>2, SetsFinite, FS_RemoveElement
    <3>4. /\ refs' \in [Chans -> Int] /\ \A k \in Chans \ {ch} : refs'[k] = refs[k]
          /\ refs'[ch] = IF ch \in Relayed THEN refs[ch] - 1 ELSE refs[ch]
      BY <1>1, <1>2, <2>1
    <3> QED BY <1>0, <1>2, <3>1, <3>3, <3>4, SetsFinite DEF RefsCounted
  <2>2. CASE ~Hooked(c)
    BY <1>0, <1>1, <1>2, <2>2, RefsFrame
  <2> QED BY <2>1, <2>2
<1>15. who' = who /\ UNCHANGED <<arena, storeVars, pub, stop, stray, late>>
  BY <1>1 DEF ghosts
<1>16. /\ st.auth = (who'[c] # NoSubject) /\ st.subject = who'[c]
       /\ who' \in [All -> Subjects] /\ \A d \in All \ {c} : who'[d] = who[d]
  BY <1>2, <1>3, <1>5, <1>15
<1> QED BY <1>5, <1>6, <1>7, <1>8, <1>9, <1>10, <1>11, <1>12, <1>14, <1>15, <1>16, ServedKeeps

LEMMA ServeKeeps ==
  ASSUME IInv, NEW c \in All, Serve(c)
  PROVE  IInv'
<1>1. CASE Other(c)
  BY <1>1, StutterKeeps
     DEF Other, vars, storeVars, busVars, envVars, ghosts
<1> QED BY <1>1, AdmittedKeeps, SubscribeKeeps, UnsubscribeKeeps DEF Serve, Handle

-----------------------------------------------------------------------------
\* cleanupSession.

LEMMA CleanupUnregisterKeeps ==
  ASSUME IInv, NEW c \in All, CleanupUnregister(c)
  PROVE  IInv'
<1> USE DEF busVars, envVars
<1> DEFINE tm == IF sess[c].authTimer = "armed" THEN "off" ELSE sess[c].authTimer
           x  == [sess[c] EXCEPT !.expiry = "off", !.done = TRUE, !.pc = "unsubscribe", !.authTimer = tm]
<1>0. /\ Types /\ Local(c) /\ Placed /\ Identified /\ Stored /\ sess[c].pc = "cleanup"
      /\ \A d \in Conns : d \in All
  BY ConnIsOne DEF IInv, CleanupUnregister, At
<1>1. sess[c] \in Sess /\ tm \in {"off", "armed", "running"}
  BY <1>0, SessFields DEF Sess
<1>2. x \in Sess /\ x.pc = "unsubscribe" /\ x.slot = sess[c].slot /\ x.id = sess[c].id /\ x.up = sess[c].up
  BY <1>1 DEF Sess, Pcs, Bound
<1>3. sess' = [sess EXCEPT ![c] = x]
  BY DEF CleanupUnregister
<1> HIDE DEF tm, x
<1>4. sess' \in [All -> Sess] /\ sess'[c] = x /\ \A d \in All \ {c} : sess'[d] = sess[d]
  BY <1>0, <1>2, <1>3, SessUpdate
<1>5. /\ UNCHANGED <<heap, slots, arena, gen, nextID, engine, refs, pub, stop, stray, late>>
      /\ who' = [who EXCEPT ![c] = NoSubject] /\ count' = [count EXCEPT ![Server(c)] = @ - 1]
      /\ StoreUnregister(sess[c].id)
  BY DEF CleanupUnregister
<1>6. /\ who' \in [All -> Subjects] /\ \A d \in All \ {c} : who'[d] = who[d]
      /\ count \in [grpc : Int, ws : Int] /\ count' \in [grpc : Int, ws : Int]
  <2>1. who \in [All -> Subjects] /\ NoSubject \in Subjects /\ count \in [grpc : Int, ws : Int]
    BY <1>0 DEF Types, Subjects
  <2>2. who' \in [All -> Subjects] /\ \A d \in All \ {c} : who'[d] = who[d]
    BY <1>5, <2>1
  <2>3. count' \in [grpc : Int, ws : Int]
    BY <1>5, <2>1 DEF Server
  <2> QED BY <2>1, <2>2, <2>3
<1>7. \A d \in All : /\ sess'[d].slot = sess[d].slot /\ sess'[d].id = sess[d].id
                     /\ sess'[d].up = sess[d].up
                     /\ sess'[d].pc \in Unreg <=> sess[d].pc \in Unreg
                     /\ sess'[d].pc \in Bound <=> sess[d].pc \in Bound
                     /\ sess'[d].pc = "gone" <=> sess[d].pc = "gone"
                     /\ sess'[d].pc = "rollback" <=> sess[d].pc = "rollback"
                     /\ sess'[d].pc \in {"clear", "append"} <=> sess[d].pc \in {"clear", "append"}
                     /\ sess'[d].pc \in {"register", "append"} <=> sess[d].pc \in {"register", "append"}
                     /\ sess'[d].pc \in {"new", "gone"} <=> sess[d].pc \in {"new", "gone"}
                     /\ sess'[d].pc = "serve" => sess[d].pc = "serve" /\ d # c
                     /\ sess'[d].pc \in Up <=> sess[d].pc \in Up /\ d # c
  BY <1>0, <1>2, <1>4 DEF Unreg, Early, Up, Bound
<1>8. ASSUME NEW d \in All PROVE Local(d)' /\ Books(d)'
  <2>1. Local(d) /\ Books(d)
    BY DEF IInv
  <2>2. CASE d = c
    <3>1. Local(c)'
      BY <1>0, <1>2, <1>4 DEF Local, Hooked, Early, Unreg, Bound, Up, Ending
    <3> QED BY <1>7, <2>2, <3>1 DEF Books, Serving
  <2>3. CASE d # c
    <3>1. Local(d)'
      BY <1>4, <1>5, <1>6, <2>1, <2>3 DEF Local, Hooked
    <3> QED BY <1>4, <1>5, <1>6, <2>1, <2>3, <3>1, BooksFrame
  <2> QED BY <2>2, <2>3
<1>9. \A d \in Conns, i \in Slots : Holds(d, i)' <=> Holds(d, i)
  BY <1>0, <1>7 DEF Holds
<1>10. Placed'
  BY <1>0, <1>5, <1>7, <1>9, PlacedFrame
<1>11. Identified'
  BY <1>0, <1>5, <1>7, IdentifiedFrame
<1>12. Wiped'
  BY <1>0, <1>5, <1>7, <1>9, WipedFrame DEF IInv
<1>13. Listening'
  BY <1>0, <1>5, <1>7, ListeningFrame DEF IInv
<1>14. RefsCounted'
  BY <1>0, <1>5, <1>7, RefsFrame DEF IInv
<1>15. Addressed' /\ Quiesced'
  BY <1>0, <1>5, <1>7, AddressedFrame, QuiescedFrame DEF IInv
<1>16. ConnsCounted'
  <2>1. CASE c \in Conns
    <3>1. Connected' = Connected \ {c} /\ c \in Connected
      BY <1>0, <1>7, <2>1 DEF Connected, Up
    <3>2. Cardinality(Connected') = Cardinality(Connected) - 1
      BY <3>1, SetsFinite, FS_RemoveElement
    <3>3. count'.grpc = count.grpc - 1
      BY <1>5, <1>6, <2>1 DEF Server
    <3> QED BY <3>2, <3>3 DEF IInv, ConnsCounted
  <2>2. CASE c \notin Conns
    <3>1. Connected' = Connected
      BY <1>0, <1>7, <2>2 DEF Connected
    <3>2. count'.grpc = count.grpc
      BY <1>5, <1>6, <2>2 DEF Server
    <3> QED BY <3>1, <3>2 DEF IInv, ConnsCounted
  <2> QED BY <2>1, <2>2
<1>17. /\ arr \in [Slots -> [gen : Nat, conn : All \union {NoConn}]]
       /\ overflow \subseteq [id : Ids, conn : All]
  BY <1>0 DEF Types
<1>18. ASSUME NEW d \in All \ {c}, sess[d].pc \in Up PROVE sess[d].id # sess[c].id
  BY <1>0, <1>18 DEF Identified, Apart, Unreg, Early, Up
<1>19. /\ Stored'
       /\ arr' \in [Slots -> [gen : Nat, conn : All \union {NoConn}]]
       /\ overflow' \subseteq [id : Ids, conn : All]
  <2>0. Found(c) /\ sess[c].id \in Ids /\ sess[c].pc \in Up
    BY <1>0, SessFields DEF Stored, Up
  <2>1. CASE Flat(sess[c].id)
    <3> DEFINE i == sess[c].id.n
    <3>1. i \in Slots /\ arr' = [arr EXCEPT ![i] = NoEntry] /\ overflow' = overflow
      BY <1>5, <2>1 DEF StoreUnregister, Flat
    <3>2. arr' \in [Slots -> [gen : Nat, conn : All \union {NoConn}]]
      BY <1>17, <3>1 DEF NoEntry
    <3>3. arr'[i].conn = NoConn /\ \A j \in Slots \ {i} : arr'[j] = arr[j]
      BY <1>17, <3>1 DEF NoEntry
    <3>4. arr[i] = [gen |-> sess[c].id.gen, conn |-> c]
      BY <2>0, <2>1 DEF Found
    <3> HIDE DEF i
    <3>5. ASSUME NEW d \in All PROVE Found(d)'
      <4>1. CASE sess'[d].pc \notin Up
        BY <4>1 DEF Found
      <4>2. CASE sess'[d].pc \in Up
        <5>1. d # c /\ sess[d].pc \in Up /\ sess'[d] = sess[d] /\ Found(d)
          BY <1>0, <1>4, <1>7, <4>2 DEF Stored
        <5>2. CASE Flat(sess[d].id)
          <6>1. arr[sess[d].id.n] = [gen |-> sess[d].id.gen, conn |-> d]
            BY <5>1, <5>2 DEF Found
          <6>2. sess[d].id.n # i
            BY <3>4, <5>1, <6>1
          <6> QED BY <3>3, <5>1, <5>2, <6>1, <6>2 DEF Found, Flat
        <5>3. CASE ~Flat(sess[d].id)
          BY <3>1, <5>1, <5>3 DEF Found, Flat
        <5> QED BY <5>2, <5>3
      <4> QED BY <4>1, <4>2
    <3>6. ASSUME NEW j \in Slots, arr'[j].conn # NoConn
          PROVE  /\ sess'[arr'[j].conn].pc \in Up
                 /\ sess'[arr'[j].conn].id = [n |-> j, gen |-> arr'[j].gen]
      <4>1. j # i /\ arr'[j] = arr[j]
        BY <3>3, <3>6
      <4>2. /\ arr[j].conn \in All /\ sess[arr[j].conn].pc \in Up
            /\ sess[arr[j].conn].id = [n |-> j, gen |-> arr[j].gen]
        BY <1>0, <1>17, <3>6, <4>1 DEF Stored
      <4>3. arr[j].conn # c
        BY <4>1, <4>2 DEF i
      <4> QED BY <1>4, <4>1, <4>2, <4>3
    <3>7. ASSUME NEW e \in overflow'
          PROVE  sess'[e.conn].pc \in Up /\ sess'[e.conn].id = e.id /\ ~Flat(e.id)
      <4>1. e \in overflow /\ e.conn \in All
        BY <1>17, <3>1
      <4>2. sess[e.conn].pc \in Up /\ sess[e.conn].id = e.id /\ ~Flat(e.id)
        BY <1>0, <4>1 DEF Stored
      <4>3. e.conn # c
        BY <2>1, <4>2
      <4> QED BY <1>4, <4>1, <4>2, <4>3
    <3> QED BY <1>17, <3>1, <3>2, <3>5, <3>6, <3>7 DEF Stored, Flat
  <2>2. CASE ~Flat(sess[c].id)
    <3>1. overflow' = { e \in overflow : e.id # sess[c].id } /\ arr' = arr
      BY <1>5, <2>2 DEF StoreUnregister
    <3>2. ASSUME NEW d \in All PROVE Found(d)'
      <4>1. CASE sess'[d].pc \notin Up
        BY <4>1 DEF Found
      <4>2. CASE sess'[d].pc \in Up
        <5>1. d # c /\ sess[d].pc \in Up /\ sess'[d] = sess[d] /\ Found(d)
          BY <1>0, <1>4, <1>7, <4>2 DEF Stored
        <5>2. sess[d].id # sess[c].id
          BY <1>18, <5>1
        <5> QED BY <3>1, <5>1, <5>2 DEF Found, Flat
      <4> QED BY <4>1, <4>2
    <3>3. ASSUME NEW j \in Slots, arr[j].conn # NoConn
          PROVE  /\ sess'[arr[j].conn].pc \in Up
                 /\ sess'[arr[j].conn].id = [n |-> j, gen |-> arr[j].gen]
      <4>1. /\ arr[j].conn \in All /\ sess[arr[j].conn].pc \in Up
            /\ sess[arr[j].conn].id = [n |-> j, gen |-> arr[j].gen]
        BY <1>0, <1>17, <3>3 DEF Stored
      <4>2. arr[j].conn # c
        BY <2>2, <4>1 DEF Flat
      <4> QED BY <1>4, <4>1, <4>2
    <3>4. ASSUME NEW e \in overflow'
          PROVE  sess'[e.conn].pc \in Up /\ sess'[e.conn].id = e.id /\ ~Flat(e.id)
      <4>1. e \in overflow /\ e.conn \in All /\ e.id # sess[c].id
        BY <1>17, <3>1
      <4>2. sess[e.conn].pc \in Up /\ sess[e.conn].id = e.id /\ ~Flat(e.id)
        BY <1>0, <4>1 DEF Stored
      <4> QED BY <1>4, <4>1, <4>2
    <3> QED BY <1>17, <3>1, <3>2, <3>3, <3>4 DEF Stored, Flat
  <2> QED BY <2>1, <2>2
<1>20. Types'
  BY <1>0, <1>4, <1>5, <1>6, <1>19 DEF Types
<1> QED BY <1>8, <1>10, <1>11, <1>12, <1>13, <1>14, <1>15, <1>16, <1>19, <1>20 DEF IInv

\* An identity leaves the engine with the session's UnsubscribeAll.
LEMMA NotListening ==
  ASSUME Identified, Listening, NEW c \in All,
         sess[c].pc \notin Unreg \union Bound
  PROVE  \A ch \in Chans : sess[c].id \notin engine[ch]
BY DEF Identified, Apart, Listening, Unreg, Early, Bound, Up

Closing == {"unsubscribe", "upstream"} \union Ending

\* The rest of the cleanup touches only what the session still holds.
LEMMA EndFrame ==
  ASSUME IInv, NEW c \in All, sess[c].pc \in Closing,
         NEW x \in Sess, sess' = [sess EXCEPT ![c] = x],
         x.pc \in {"upstream", "gone"} \union Ending, x.id = sess[c].id,
         x.pc # "gone" => x.slot = sess[c].slot,
         sess[c].slot = 0 => x.slot = 0,
         x.pc = "upstream" => Hooked(c),
         x.pc \in Ending => sess[c].slot # 0,
         ~Hooked(c) \/ x.pc # "upstream" => x.up = {},
         c \in WsConns => x.pc = "gone",
         arena' \in [offset : Nat, free : Seq(Slots), inFree : SUBSET Slots],
         slots' \in [Slots -> States], refs' \in [Chans -> Int],
         \A i \in Slots : i # sess[c].slot => slots'[i] = slots[i],
         engine' = [ch \in Chans |-> engine[ch] \ {sess[c].id}]
           \/ (engine' = engine /\ sess[c].pc # "unsubscribe"),
         RefsCounted', Placed', Wiped',
         UNCHANGED <<heap, storeVars, pub, stop, ghosts>>
  PROVE  IInv'
<1> USE DEF storeVars, ghosts
<1>0. /\ Types /\ Local(c) /\ Placed /\ Identified /\ Listening
      /\ \A d \in Conns : d \in All
  BY ConnIsOne DEF IInv
<1>1. sess' \in [All -> Sess] /\ sess'[c] = x /\ \A d \in All \ {c} : sess'[d] = sess[d]
  BY <1>0, SessUpdate
<1>2. /\ sess[c].pc \notin Unreg \union Up \union {"gone", "new"} /\ x.pc \notin Unreg \union Up \union {"new"}
      /\ x.pc # "serve" /\ x.pc \notin Bound
  BY DEF Closing, Ending, Unreg, Early, Up, Bound
<1>3. engine' \in [Chans -> SUBSET Ids]
      /\ \A ch \in Chans : engine'[ch] = engine[ch] \ {sess[c].id}
  <2>0. engine \in [Chans -> SUBSET Ids]
    BY <1>0 DEF Types
  <2>1. CASE engine' = [ch \in Chans |-> engine[ch] \ {sess[c].id}]
    BY <2>0, <2>1
  <2>2. CASE engine' = engine /\ sess[c].pc # "unsubscribe"
    <3>1. \A ch \in Chans : sess[c].id \notin engine[ch]
      BY <1>0, <1>2, <2>2, NotListening DEF Bound
    <3> QED BY <2>0, <2>2, <3>1
  <2> QED BY <2>1, <2>2
<1>4. Types'
  BY <1>0, <1>1, <1>3 DEF Types
<1>5. \A d \in All : /\ sess'[d].id = sess[d].id
                     /\ sess'[d].pc \in Unreg <=> sess[d].pc \in Unreg
                     /\ sess'[d].pc \in Up <=> sess[d].pc \in Up
                     /\ sess'[d].pc # "gone" => sess[d].pc # "gone" /\ sess'[d].slot = sess[d].slot
                     /\ sess[d].pc \in {"new", "gone"} => sess'[d].pc \in {"new", "gone"}
  BY <1>1, <1>2
<1>6. ASSUME NEW d \in All PROVE Local(d)'
  <2>1. Local(d)
    BY DEF IInv
  <2>2. CASE d = c
    <3>1. c \in WsConns => x.slot = 0
      BY <1>0 DEF Local
    <3> QED BY <1>0, <1>1, <1>2, <2>2, <3>1
            DEF Local, Hooked, Early, Unreg, Ending
  <2>3. CASE d # c
    BY <1>1, <2>1, <2>3 DEF Local, Hooked
  <2> QED BY <2>2, <2>3
<1>7. ASSUME NEW d \in All PROVE Books(d)'
  <2>1. CASE sess'[d].pc # "serve"
    BY <2>1 DEF Books, Serving
  <2>2. CASE sess'[d].pc = "serve"
    <3>0. d # c /\ sess'[d] = sess[d] /\ sess[d].pc = "serve"
      BY <1>1, <1>2, <2>2
    <3>1. sess[d].id # sess[c].id
      BY <1>0, <1>2, <3>0 DEF Identified, Apart, Unreg, Early
    <3>2. sess[d].slot # 0 => slots'[sess[d].slot] = slots[sess[d].slot]
      <4>1. SUFFICES ASSUME sess[d].slot # 0, sess[d].slot = sess[c].slot PROVE FALSE
        BY <1>0, SessFields, SlotsAreNumbers
      <4>2. d \in Conns /\ c \in Conns
        BY <1>0, <4>1 DEF IInv, Local, All
      <4>3. Holds(d, sess[c].slot) /\ Holds(c, sess[c].slot) /\ sess[c].slot \in Slots
        BY <1>0, <1>2, <3>0, <4>1, SessFields, SlotsAreNumbers DEF Holds
      <4> QED BY <1>0, <3>0, <4>2, <4>3 DEF Placed, SlotPlaced
    <3>3. \A ch \in Chans : sess[d].id \in engine'[ch] <=> sess[d].id \in engine[ch]
      BY <1>3, <3>1
    <3> QED BY <3>0, <3>2, <3>3, BooksFrame DEF IInv
  <2> QED BY <2>1, <2>2
<1>8. Identified'
  BY <1>0, <1>5, IdentifiedFrame
<1>9. Stored'
  BY <1>0, <1>5, StoredFrame DEF IInv
<1>10. Listening'
  <2>1. ASSUME NEW ch \in Chans, NEW id \in engine'[ch]
        PROVE  \E d \in All : sess'[d].id = id /\ sess'[d].pc \in Bound
    <3>1. id \in engine[ch] /\ id # sess[c].id
      BY <1>3
    <3>2. PICK d \in All : sess[d].id = id /\ sess[d].pc \in Bound
      BY <1>0, <3>1 DEF Listening
    <3> QED BY <1>1, <3>1, <3>2
  <2> QED BY <2>1 DEF Listening
<1>11. ConnsCounted'
  BY <1>0, <1>5, ConnsFrame DEF IInv
<1>12. Addressed' /\ Quiesced'
  BY <1>0, <1>5, AddressedFrame, QuiescedFrame DEF IInv
<1> QED BY <1>4, <1>6, <1>7, <1>8, <1>9, <1>10, <1>11, <1>12 DEF IInv

LEMMA GoneType ==
  ASSUME Types, NEW c \in All
  PROVE  /\ Gone(c) \in Sess /\ Gone(c).pc = "gone" /\ Gone(c).id = sess[c].id /\ Gone(c).up = {}
         /\ sess[c].slot = 0 => Gone(c).slot = 0
<1>1. /\ sess[c].id \in Ids /\ sess[c].slot \in 0 .. MaxSlots
      /\ sess[c].authTimer \in {"off", "armed", "running"}
  BY SessFields DEF Sess
<1>2. Fresh \in Sess /\ Fresh.up = {}
  BY SessionsAssumption DEF Fresh, Sess, NoId, Ids, Pcs, Unreg, Early
<1>3. (IF sess[c].authTimer = "running" THEN sess[c].slot ELSE 0) \in 0 .. MaxSlots
  BY <1>1, SessionsAssumption
<1>4. "gone" \in Pcs
  BY DEF Pcs
<1> QED BY <1>1, <1>2, <1>3, <1>4 DEF Gone, Sess

\* A session without a slot leaves the arena as it is.
LEMMA PlacedQuiet ==
  ASSUME Types, Placed, Wiped, NEW c \in All, sess[c].pc \in {"unsubscribe", "upstream"},
         NEW x \in Sess, sess' = [sess EXCEPT ![c] = x],
         (x.pc \in {"upstream", "free"} /\ x.slot = sess[c].slot)
           \/ (x.pc = "gone" /\ sess[c].slot = 0 /\ x.slot = 0),
         UNCHANGED <<arena, slots>>
  PROVE  Placed' /\ Wiped'
<1>0. \A d \in Conns : d \in All
  BY ConnIsOne
<1>1. sess' \in [All -> Sess] /\ sess'[c] = x /\ \A d \in All \ {c} : sess'[d] = sess[d]
  BY SessUpdate
<1>2. \A d \in Conns, i \in Slots : Holds(d, i)' <=> Holds(d, i)
  BY <1>0, <1>1, SlotsAreNumbers DEF Holds
<1>3. \A d \in Conns :
        /\ sess'[d].pc = "rollback" <=> sess[d].pc = "rollback"
        /\ sess'[d].pc \in {"clear", "append"} <=> sess[d].pc \in {"clear", "append"}
        /\ sess'[d].pc \in {"register", "append"} <=> sess[d].pc \in {"register", "append"}
  BY <1>0, <1>1
<1> QED BY <1>2, <1>3, PlacedFrame, WipedFrame

LEMMA CleanupUnsubscribeKeeps ==
  ASSUME IInv, NEW c \in All, CleanupUnsubscribe(c)
  PROVE  IInv'
<1> DEFINE x == IF Hooked(c) THEN [sess[c] EXCEPT !.pc = "upstream"]
                ELSE IF sess[c].slot # 0 THEN [sess[c] EXCEPT !.pc = "free"]
                ELSE Gone(c)
<1>0. Types /\ Local(c) /\ Placed /\ Wiped /\ RefsCounted /\ sess[c].pc = "unsubscribe"
  BY DEF IInv, CleanupUnsubscribe, At
<1>1. sess[c] \in Sess /\ sess \in [All -> Sess]
  BY <1>0, SessFields DEF Types
<1>2. sess' = [sess EXCEPT ![c] = x]
  BY DEF CleanupUnsubscribe
<1>3. /\ engine' = [ch \in Chans |-> engine[ch] \ {sess[c].id}]
      /\ UNCHANGED <<heap, slots, arena, storeVars, refs, pub, stop, ghosts>>
  BY DEF CleanupUnsubscribe, envVars
<1>4. ~Hooked(c) => sess[c].up = {}
  BY <1>0 DEF Local
<1>5. c \in WsConns => ~Hooked(c) /\ sess[c].slot = 0
  BY <1>0, SessionsAssumption DEF Hooked, Local
<1>6. /\ x \in Sess /\ x.id = sess[c].id
      /\ \/ Hooked(c) /\ x.pc = "upstream" /\ x.slot = sess[c].slot /\ x.up = sess[c].up
         \/ ~Hooked(c) /\ sess[c].slot # 0 /\ x.pc = "free" /\ x.slot = sess[c].slot /\ x.up = {}
         \/ ~Hooked(c) /\ sess[c].slot = 0 /\ x.pc = "gone" /\ x.slot = 0 /\ x.up = {}
  <2>1. CASE Hooked(c)
    BY <1>1, <2>1 DEF Sess, Pcs
  <2>2. CASE ~Hooked(c) /\ sess[c].slot # 0
    BY <1>1, <1>4, <2>2 DEF Sess, Pcs, Ending
  <2>3. CASE ~Hooked(c) /\ sess[c].slot = 0
    BY <1>0, <2>3, GoneType
  <2> QED BY <2>1, <2>2, <2>3
<1> HIDE DEF x
<1>7. Placed' /\ Wiped'
  BY <1>0, <1>2, <1>3, <1>6, PlacedQuiet
<1>8. RefsCounted'
  <2>1. \A d \in Conns : sess'[d].up = sess[d].up
    BY <1>0, <1>2, <1>4, <1>6, SessUpdate, ConnIsOne
  <2> QED BY <1>0, <1>3, <2>1, RefsFrame
<1>9. /\ arena' \in [offset : Nat, free : Seq(Slots), inFree : SUBSET Slots]
      /\ slots' \in [Slots -> States] /\ refs' \in [Chans -> Int]
      /\ \A i \in Slots : slots'[i] = slots[i]
  BY <1>0, <1>3 DEF Types
<1>10. UNCHANGED <<heap, storeVars, pub, stop, ghosts>>
  BY <1>3
<1>11. /\ sess[c].pc \in Closing /\ x.pc \in {"upstream", "gone"} \union Ending
       /\ x.pc # "gone" => x.slot = sess[c].slot
       /\ sess[c].slot = 0 => x.slot = 0
       /\ x.pc = "upstream" => Hooked(c)
       /\ x.pc \in Ending => sess[c].slot # 0
       /\ ~Hooked(c) \/ x.pc # "upstream" => x.up = {}
       /\ c \in WsConns => x.pc = "gone"
  BY <1>0, <1>4, <1>5, <1>6 DEF Closing, Ending
<1> QED BY <1>2, <1>3, <1>6, <1>7, <1>8, <1>9, <1>10, <1>11, EndFrame

LEMMA CleanupUpstreamKeeps ==
  ASSUME IInv, NEW c \in All, CleanupUpstream(c)
  PROVE  IInv'
<1> DEFINE x == IF sess[c].slot # 0 THEN [sess[c] EXCEPT !.pc = "free", !.up = {}] ELSE Gone(c)
<1>0. /\ Types /\ Local(c) /\ Placed /\ Wiped /\ RefsCounted /\ sess[c].pc = "upstream"
      /\ Hooked(c)
  BY DEF IInv, CleanupUpstream, At, Local
<1>1. sess[c] \in Sess /\ sess \in [All -> Sess] /\ c \in Conns /\ c \notin WsConns
  BY <1>0, SessFields, ConnIsOne DEF Types, Hooked
<1>2. sess' = [sess EXCEPT ![c] = x]
  BY DEF CleanupUpstream
<1>3. /\ refs' = [ch \in Chans |-> IF ch \in sess[c].up /\ refs[ch] > 0 THEN refs[ch] - 1 ELSE refs[ch]]
      /\ UNCHANGED <<heap, slots, arena, storeVars, engine, pub, stop, ghosts>>
  BY DEF CleanupUpstream, envVars
<1>4. /\ x \in Sess /\ x.id = sess[c].id /\ x.up = {}
      /\ \/ sess[c].slot # 0 /\ x.pc = "free" /\ x.slot = sess[c].slot
         \/ sess[c].slot = 0 /\ x.pc = "gone" /\ x.slot = 0
  <2>1. CASE sess[c].slot # 0
    BY <1>1, <2>1 DEF Sess, Pcs, Ending
  <2>2. CASE sess[c].slot = 0
    BY <1>0, <2>2, GoneType
  <2> QED BY <2>1, <2>2
<1> HIDE DEF x
<1>5. Placed' /\ Wiped'
  BY <1>0, <1>2, <1>3, <1>4, PlacedQuiet
<1>6. sess'[c] = x /\ \A d \in Conns \ {c} : sess'[d] = sess[d]
  BY <1>0, <1>2, <1>4, SessUpdate, ConnIsOne
<1>7. refs \in [Chans -> Int] /\ refs' \in [Chans -> Int]
  BY <1>0, <1>3 DEF Types
<1>8. RefsCounted'
  <2> SUFFICES ASSUME NEW ch \in Chans
               PROVE  refs'[ch] = IF ch \in Relayed THEN Cardinality(Holders(ch)') ELSE 0
    BY DEF RefsCounted
  <2>0. /\ refs[ch] = (IF ch \in Relayed THEN Cardinality(Holders(ch)) ELSE 0)
        /\ refs'[ch] = (IF ch \in sess[c].up /\ refs[ch] > 0 THEN refs[ch] - 1 ELSE refs[ch])
    BY <1>0, <1>3 DEF RefsCounted
  <2>1. CASE ch \in sess[c].up
    <3>1. Holders(ch)' = Holders(ch) \ {c} /\ c \in Holders(ch)
      BY <1>1, <1>4, <1>6, <2>1 DEF Holders
    <3>2. /\ Cardinality(Holders(ch)') = Cardinality(Holders(ch)) - 1
          /\ Cardinality(Holders(ch)') \in Nat /\ Cardinality(Holders(ch)) \in Nat
      BY <3>1, SetsFinite, FS_RemoveElement, FS_CardinalityType
    <3> QED BY <2>0, <2>1, <3>2
  <2>2. CASE ch \notin sess[c].up
    <3>1. Holders(ch)' = Holders(ch)
      BY <1>1, <1>4, <1>6, <2>2 DEF Holders
    <3> QED BY <2>0, <2>2, <3>1
  <2> QED BY <2>1, <2>2
<1>9. /\ arena' \in [offset : Nat, free : Seq(Slots), inFree : SUBSET Slots]
      /\ slots' \in [Slots -> States] /\ \A i \in Slots : slots'[i] = slots[i]
  BY <1>0, <1>3 DEF Types
<1>10. UNCHANGED <<heap, storeVars, pub, stop, ghosts>> /\ engine' = engine
  BY <1>3
<1>11. /\ sess[c].pc \in Closing /\ sess[c].pc # "unsubscribe"
       /\ x.pc \in {"upstream", "gone"} \union Ending
       /\ x.pc # "gone" => x.slot = sess[c].slot
       /\ sess[c].slot = 0 => x.slot = 0
       /\ x.pc # "upstream"
       /\ x.pc \in Ending => sess[c].slot # 0
  BY <1>0, <1>4 DEF Closing, Ending
<1> QED BY <1>1, <1>2, <1>4, <1>5, <1>7, <1>8, <1>9, <1>10, <1>11, EndFrame

\* What a session that frees its slot knows of it.
LEMMA FreeFacts ==
  ASSUME IInv, NEW c \in All, sess[c].pc \in Ending
  PROVE  /\ c \in Conns /\ c \notin WsConns /\ sess[c].slot \in Slots /\ Holds(c, sess[c].slot)
         /\ sess[c].up = {} /\ SlotPlaced(sess[c].slot)
         /\ sess[c].slot <= arena.offset /\ ~Listed(sess[c].slot)
         /\ \A d \in Conns \ {c} : ~Holds(d, sess[c].slot)
<1>0. Types /\ Local(c) /\ Placed
  BY DEF IInv
<1>1. c \in Conns /\ c \notin WsConns /\ sess[c].slot \in Slots /\ sess[c].up = {}
  BY <1>0, SessFields, SlotsAreNumbers, ConnIsOne DEF Local, All, Ending, Bound, Up
<1>2. Holds(c, sess[c].slot)
  BY DEF Holds, Ending
<1>3. SlotPlaced(sess[c].slot)
  BY <1>0, <1>1 DEF Placed
<1> QED BY <1>1, <1>2, <1>3 DEF SlotPlaced

LEMMA FreeMarkKeeps ==
  ASSUME IInv, NEW c \in All, FreeMark(c)
  PROVE  IInv'
<1> DEFINE i == sess[c].slot
           x == [sess[c] EXCEPT !.pc = "clear"]
<1>0. /\ Types /\ Placed /\ Wiped /\ RefsCounted /\ sess[c].pc = "free" /\ sess[c].pc \in Ending
      /\ \A d \in Conns : d \in All
  BY ConnIsOne DEF IInv, FreeMark, At, Ending
<1>1. /\ c \in Conns /\ c \notin WsConns /\ i \in Slots /\ Holds(c, i)
      /\ sess[c].up = {} /\ SlotPlaced(i)
      /\ i <= arena.offset /\ ~Listed(i)
      /\ \A d \in Conns \ {c} : ~Holds(d, i)
  BY <1>0, FreeFacts
<1>2. i \notin arena.inFree /\ ~(i > arena.offset)
  <2>1. i \notin arena.inFree
    BY <1>0, <1>1 DEF SlotPlaced
  <2>2. arena.offset \in Nat /\ i \in Nat
    BY <1>0, <1>1, SlotsAreNumbers DEF Types
  <2> QED BY <1>1, <2>1, <2>2
<1>3. sess' = [sess EXCEPT ![c] = x] /\ arena' = [arena EXCEPT !.inFree = @ \union {i}]
  BY <1>2 DEF FreeMark, Goto
<1>4. UNCHANGED <<heap, slots, storeVars, engine, refs, pub, stop, ghosts>>
  BY DEF FreeMark, envVars, busVars
<1>5. sess[c] \in Sess /\ x \in Sess /\ x.pc = "clear" /\ x.id = sess[c].id /\ x.slot = i /\ x.up = {}
  <2>1. sess[c] \in Sess
    BY <1>0, SessFields
  <2> QED BY <1>1, <2>1 DEF Sess, Pcs, Ending
<1>6. /\ arena' \in [offset : Nat, free : Seq(Slots), inFree : SUBSET Slots]
      /\ arena'.offset = arena.offset /\ arena'.free = arena.free
      /\ arena'.inFree = arena.inFree \union {i}
  <2>1. arena \in [offset : Nat, free : Seq(Slots), inFree : SUBSET Slots]
    BY <1>0 DEF Types
  <2> QED BY <1>1, <1>3, <2>1
<1> HIDE DEF x
<1>7. sess'[c] = x /\ \A d \in Conns \ {c} : sess'[d] = sess[d]
  BY <1>0, <1>3, <1>5, SessUpdate
<1>8. \A d \in Conns, j \in Slots : Holds(d, j)' <=> Holds(d, j)
  BY <1>0, <1>1, <1>5, <1>7 DEF Holds
<1>9. Placed'
  <2>1. ASSUME NEW j \in Slots PROVE SlotPlaced(j)'
    <3>1. SlotPlaced(j) /\ (Listed(j)' <=> Listed(j))
      BY <1>0, <1>6 DEF Placed, Listed
    <3>2. CASE j = i
      BY <1>1, <1>5, <1>6, <1>7, <1>8, <3>1, <3>2 DEF SlotPlaced
    <3>3. CASE j # i
      <4>1. ~Holds(c, j)
        BY <3>3 DEF Holds
      <4> QED BY <1>6, <1>7, <1>8, <3>1, <3>3, <4>1 DEF SlotPlaced
    <3> QED BY <3>2, <3>3
  <2>2. ListedOnce'
    BY <1>0, <1>6 DEF Placed, ListedOnce
  <2>3. Rolling' = Rolling
    BY <1>0, <1>5, <1>7 DEF Rolling
  <2>4. Overshoot'
    BY <1>0, <1>6, <2>3 DEF Placed, Overshoot
  <2> QED BY <2>1, <2>2, <2>4 DEF Placed
<1>10. Wiped'
  BY <1>0, <1>4, <1>5, <1>7, <1>8, WipedFrame
<1>11. RefsCounted'
  BY <1>0, <1>1, <1>4, <1>5, <1>7, RefsFrame
<1>12. slots' \in [Slots -> States] /\ refs' \in [Chans -> Int] /\ \A j \in Slots : slots'[j] = slots[j]
  BY <1>0, <1>4 DEF Types
<1>13. /\ sess[c].pc \in Closing /\ sess[c].pc # "unsubscribe" /\ x.pc \in {"upstream", "gone"} \union Ending
       /\ x.pc # "upstream" /\ i # 0
  BY <1>0, <1>1, <1>5, SlotsAreNumbers DEF Closing, Ending
<1> QED BY <1>1, <1>3, <1>4, <1>5, <1>6, <1>9, <1>10, <1>11, <1>12, <1>13, EndFrame

LEMMA FreeClearKeeps ==
  ASSUME IInv, NEW c \in All, FreeClear(c)
  PROVE  IInv'
<1> DEFINE i == sess[c].slot
           x == [sess[c] EXCEPT !.pc = "append"]
<1>0. /\ Types /\ Placed /\ Wiped /\ RefsCounted /\ sess[c].pc = "clear" /\ sess[c].pc \in Ending
      /\ \A d \in Conns : d \in All
  BY ConnIsOne DEF IInv, FreeClear, At, Ending
<1>1. /\ c \in Conns /\ c \notin WsConns /\ i \in Slots /\ Holds(c, i) /\ sess[c].up = {}
      /\ \A d \in Conns \ {c} : ~Holds(d, i)
  BY <1>0, FreeFacts
<1>2. sess' = [sess EXCEPT ![c] = x] /\ slots' = [slots EXCEPT ![i] = Clean]
  BY DEF FreeClear, Goto
<1>3. UNCHANGED <<heap, arena, storeVars, engine, refs, pub, stop, ghosts>>
  BY DEF FreeClear, envVars, busVars
<1>4. sess[c] \in Sess /\ x \in Sess /\ x.pc = "append" /\ x.id = sess[c].id /\ x.slot = i /\ x.up = {}
  <2>1. sess[c] \in Sess
    BY <1>0, SessFields
  <2> QED BY <1>1, <2>1 DEF Sess, Pcs, Ending
<1>5. /\ slots' \in [Slots -> States] /\ slots'[i] = Clean /\ \A j \in Slots \ {i} : slots'[j] = slots[j]
      /\ refs' \in [Chans -> Int]
      /\ arena' \in [offset : Nat, free : Seq(Slots), inFree : SUBSET Slots]
  BY <1>0, <1>1, <1>2, <1>3, CleanIsState DEF Types
<1> HIDE DEF x
<1>6. sess'[c] = x /\ \A d \in Conns \ {c} : sess'[d] = sess[d]
  BY <1>0, <1>2, <1>4, SessUpdate
<1>7. \A d \in Conns, j \in Slots : Holds(d, j)' <=> Holds(d, j)
  BY <1>0, <1>1, <1>4, <1>6 DEF Holds
<1>8. Placed'
  <2>1. \A d \in Conns :
          /\ sess'[d].pc = "rollback" <=> sess[d].pc = "rollback"
          /\ sess'[d].pc \in {"clear", "append"} <=> sess[d].pc \in {"clear", "append"}
    BY <1>0, <1>4, <1>6
  <2> QED BY <1>0, <1>3, <1>7, <2>1, PlacedFrame
<1>9. Wiped'
  <2>1. ASSUME NEW j \in Slots, j # i,
               \A d \in Conns : Holds(d, j)' => sess'[d].pc \in {"register", "append"}
        PROVE  slots'[j] = Clean
    <3>1. \A d \in Conns : Holds(d, j) => d # c
      BY <2>1 DEF Holds
    <3>2. slots[j] = Clean
      BY <1>0, <1>6, <1>7, <2>1, <3>1 DEF Wiped
    <3> QED BY <1>5, <2>1, <3>2
  <2> QED BY <1>5, <2>1 DEF Wiped
<1>10. RefsCounted'
  BY <1>0, <1>1, <1>3, <1>4, <1>6, RefsFrame
<1>11. /\ sess[c].pc \in Closing /\ sess[c].pc # "unsubscribe" /\ x.pc \in {"upstream", "gone"} \union Ending
       /\ x.pc # "upstream" /\ i # 0
  BY <1>0, <1>1, <1>4, SlotsAreNumbers DEF Closing, Ending
<1> QED BY <1>1, <1>2, <1>3, <1>4, <1>5, <1>8, <1>9, <1>10, <1>11, EndFrame

LEMMA FreeAppendKeeps ==
  ASSUME IInv, NEW c \in All, FreeAppend(c)
  PROVE  IInv'
<1> DEFINE i == sess[c].slot
           x == Gone(c)
           n == Len(arena.free)
<1>0. /\ Types /\ Placed /\ Wiped /\ RefsCounted /\ sess[c].pc = "append" /\ sess[c].pc \in Ending
      /\ \A d \in Conns : d \in All
  BY ConnIsOne DEF IInv, FreeAppend, At, Ending
<1>1. /\ c \in Conns /\ c \notin WsConns /\ i \in Slots /\ Holds(c, i)
      /\ sess[c].up = {} /\ SlotPlaced(i)
      /\ i <= arena.offset /\ ~Listed(i)
      /\ \A d \in Conns \ {c} : ~Holds(d, i)
  BY <1>0, FreeFacts
<1>2. sess' = [sess EXCEPT ![c] = x] /\ arena' = [arena EXCEPT !.free = Append(@, i)]
  BY DEF FreeAppend
<1>3. UNCHANGED <<heap, slots, storeVars, engine, refs, pub, stop, ghosts>>
  BY DEF FreeAppend, envVars, busVars
<1>4. x \in Sess /\ x.pc = "gone" /\ x.id = sess[c].id /\ x.up = {} /\ (sess[c].slot = 0 => x.slot = 0)
  BY <1>0, GoneType
<1>5. /\ arena' \in [offset : Nat, free : Seq(Slots), inFree : SUBSET Slots]
      /\ arena'.offset = arena.offset /\ arena'.inFree = arena.inFree
      /\ arena'.free = Append(arena.free, i) /\ arena.free \in Seq(Slots) /\ n \in Nat
  <2>1. arena \in [offset : Nat, free : Seq(Slots), inFree : SUBSET Slots]
    BY <1>0 DEF Types
  <2>2. arena.free \in Seq(Slots) /\ n \in Nat
    BY <2>1
  <2>3. PICK f \in Seq(Slots) : f = Append(arena.free, i)
    BY <1>1, <2>2, AppendProperties
  <2>4. arena' = [arena EXCEPT !.free = f]
    BY <1>2, <2>3
  <2>5. /\ arena' \in [offset : Nat, free : Seq(Slots), inFree : SUBSET Slots]
        /\ arena'.offset = arena.offset /\ arena'.inFree = arena.inFree /\ arena'.free = f
    BY <2>1, <2>4
  <2> QED BY <2>2, <2>3, <2>5
<1>6. /\ Len(arena'.free) = n + 1 /\ arena'.free[n + 1] = i
      /\ \A k \in 1 .. n : arena'.free[k] = arena.free[k]
  BY <1>1, <1>5, AppendProperties
<1> HIDE DEF x, n
<1>7. sess'[c] = x /\ \A d \in Conns \ {c} : sess'[d] = sess[d]
  BY <1>0, <1>2, <1>4, SessUpdate
<1>8. \A d \in Conns, j \in Slots : Holds(d, j)' <=> Holds(d, j) /\ d # c
  BY <1>0, <1>4, <1>7 DEF Holds
<1>9. \A k \in 1 .. n + 1 : k \in 1 .. n \/ k = n + 1
  BY <1>5
<1>10. \A k \in 1 .. n : k \in 1 .. n + 1
  BY <1>5
<1>11. n + 1 \in 1 .. n + 1
  BY <1>5
<1>12. \A j \in Slots : Listed(j)' <=> Listed(j) \/ j = i
  BY <1>6, <1>9, <1>10, <1>11 DEF Listed, n
<1>13. Placed'
  <2>1. ASSUME NEW j \in Slots PROVE SlotPlaced(j)'
    <3>1. SlotPlaced(j)
      BY <1>0 DEF Placed
    <3>2. CASE j = i
      BY <1>0, <1>1, <1>5, <1>8, <1>12, <3>1, <3>2 DEF SlotPlaced
    <3>3. CASE j # i
      <4>1. ~Holds(c, j)
        BY <3>3 DEF Holds
      <4>2. \A d \in Conns : Holds(d, j) => d # c /\ sess'[d] = sess[d]
        BY <1>7, <4>1
      <4> QED BY <1>5, <1>8, <1>12, <3>1, <3>3, <4>2 DEF SlotPlaced
    <3> QED BY <3>2, <3>3
  <2>2. ListedOnce'
    <3>1. \A k \in 1 .. n : arena.free[k] # i
      BY <1>1 DEF Listed, n
    <3> QED BY <1>0, <1>6, <1>9, <3>1 DEF Placed, ListedOnce, n
  <2>3. Rolling' = Rolling
    BY <1>0, <1>4, <1>7 DEF Rolling
  <2>4. Overshoot'
    BY <1>0, <1>5, <2>3 DEF Placed, Overshoot
  <2> QED BY <2>1, <2>2, <2>4 DEF Placed
<1>14. Wiped'
  <2>1. \A d \in Conns, j \in Slots :
          Holds(d, j) /\ sess[d].pc \notin {"register", "append"}
            => Holds(d, j)' /\ sess'[d].pc \notin {"register", "append"}
    BY <1>0, <1>7, <1>8
  <2> QED BY <1>0, <1>3, <2>1, WipedFrame
<1>15. RefsCounted'
  BY <1>0, <1>1, <1>3, <1>4, <1>7, RefsFrame
<1>16. slots' \in [Slots -> States] /\ refs' \in [Chans -> Int] /\ \A j \in Slots : slots'[j] = slots[j]
  BY <1>0, <1>3 DEF Types
<1>17. /\ sess[c].pc \in Closing /\ sess[c].pc # "unsubscribe" /\ x.pc \in {"upstream", "gone"} \union Ending
       /\ x.pc # "upstream" /\ x.pc \notin Ending
  BY <1>0, <1>4 DEF Closing, Ending
<1> QED BY <1>1, <1>2, <1>3, <1>4, <1>5, <1>13, <1>14, <1>15, <1>16, <1>17, EndFrame

-----------------------------------------------------------------------------
\* The theorems.

LEMMA StepKeeps ==
  ASSUME IInv, [Next]_vars
  PROVE  IInv'
<1>1. CASE UNCHANGED vars
  BY <1>1, StutterKeeps
<1>2. CASE \E c \in Conns : Open(c)
  BY <1>2, OpenKeeps
<1>3. CASE \E c \in WsConns : WsOpen(c) \/ WsGiveUp(c)
  BY <1>3, WsOpenKeeps, TimersKeep DEF All
<1>4. ASSUME NEW c \in All, Serve(c) \/ EndOfStream(c) \/ HandlerStep(c) \/ TimerStep(c)
      PROVE  IInv'
  <2>1. CASE Serve(c) \/ EndOfStream(c) \/ TimerStep(c)
    BY <2>1, ServeKeeps, LeaveKeeps, TimersKeep
  <2>2. CASE c \in Conns /\ AllocStep(c)
    BY <2>2, AllocListKeeps, AllocBumpKeeps, AllocRollbackKeeps, RegisterKeeps DEF AllocStep
  <2>3. CASE Leave(c) \/ WsLeave(c)
    BY <2>3, LeaveKeeps
  <2>4. CASE CleanupStep(c)
    BY <2>4, CleanupUnregisterKeeps, CleanupUnsubscribeKeeps, CleanupUpstreamKeeps,
       FreeMarkKeeps, FreeClearKeeps, FreeAppendKeeps DEF CleanupStep
  <2> QED BY <1>4, <2>1, <2>2, <2>3, <2>4 DEF HandlerStep
<1>5. CASE \E p \in Pubs : PubDeliver(p) \/ \E ch \in Chans : PubLoad(p, ch)
  BY <1>5, PublishKeeps
<1>6. CASE StopWs \/ StopStep
  BY <1>6, StopKeeps
<1> QED BY <1>1, <1>2, <1>3, <1>4, <1>5, <1>6 DEF Next

\* The inductive invariant: every session's slot, identity, store entry, state,
\* subscriptions and references agree, at every point of its handler.
THEOREM SessionInvariant == Spec => []IInv
<1>1. Init => IInv
  BY InitHolds
<1>2. IInv /\ [Next]_vars => IInv'
  BY StepKeeps
<1> QED BY <1>1, <1>2, PTL DEF Spec

\* However often a slot changes hands, its session is authenticated only as
\* the subject it connected as itself (ops.go:25-70, arena.go:114-137).
THEOREM IdentityIsItsOwnHolds == Spec => []IdentityIsItsOwn
<1>1. IInv => IdentityIsItsOwn
  BY BooksFromInv
<1> QED BY <1>1, SessionInvariant, PTL

\* A publisher that holds an identity reaches its session or nobody, and the
\* store has every session that is up (transport.go:114-153).
THEOREM DeliveredToItsSessionHolds == Spec => []DeliveredToItsSession
<1>1. IInv => DeliveredToItsSession
  BY DeliveredFromInv
<1> QED BY <1>1, SessionInvariant, PTL

\* Every slot handed out is with one session or on the free list once, through
\* bumps past the end and concurrent releases (arena.go:77-137).
THEOREM SlotsAccountedHolds == Spec => []SlotsAccounted
<1>1. IInv => SlotsAccounted
  BY SlotsFromInv
<1> QED BY <1>1, SessionInvariant, PTL

\* A session's list, the engine's and the relay's references agree between
\* requests, and a closed session leaves nothing behind
\* (session.go:278-300, relay.go:445-528).
THEOREM BooksBalanceHolds == Spec => []BooksBalance
<1>1. IInv => BooksBalance
  BY BooksFromInv
<1> QED BY <1>1, SessionInvariant, PTL
=============================================================================
