----------------------------- MODULE AccessProofs -----------------------------
(***************************************************************************)
(* What a start leaves in force and how long a right outlives its key, for *)
(* any processes, migrations, keys, owners and tokens.                     *)
(***************************************************************************)
EXTENDS Access, TLAPS

\* A process that has come to a file has found or made all those before it, and
\* one that is about to seed has a key to seed.
Prepared ==
  \A p \in Processes :
    /\ at[p] \in {"migrating", "creating"} => file[p] <= schema + 1
    /\ at[p] = "creating" => file[p] <= Files
    /\ at[p] = "seeding" => conf[p] # None

HeldType == held \in [Owners \X Scopes -> 0 .. now]

\* A right is held now by whoever has an active key with it, and by whoever is
\* about to be given a token, as no exchange outlasts a tick ...
RightsAreHeld ==
  /\ \A k \in Keys : Active(k) => \A s \in rows[k].scopes : held[<<rows[k].owner, s>>] = now
  /\ \A row \in exchanges : \A s \in row.scopes : held[<<row.owner, s>>] = now

\* ... so a token ends within Ttl of the last moment its rights were held.
TokensEnd ==
  \A t \in tokens : \A s \in t.scopes :
    held[<<t.sub, s>>] # 0 /\ t.exp <= held[<<t.sub, s>>] + Ttl

ServedType == served = None \/ served \in [sub : Owners, scope : Scopes, at : Nat]

-------------------------------------------------------------------------------
(* A start.                                                                *)

\* The part of the invariant that starts are about.
StartInv == TypeOK /\ Prepared /\ ServesWithAdmin

\* One process moves within its start and touches nothing but the schema.
LEMMA StartMove ==
  ASSUME StartInv, NEW p \in Processes,
         NEW place \in {"down", "migrating", "creating", "seeding", "serving"},
         To(p, place), schema' \in schema .. Files,
         file' \in [Processes -> 1 .. Files + 1],
         \A q \in Processes \ {p} : file'[q] = file[q],
         place \in {"migrating", "creating"} => file'[p] <= schema' + 1,
         place = "creating" => file'[p] <= Files,
         place \in {"seeding", "serving"} => schema' = Files,
         place = "seeding" => conf[p] # None,
         place = "serving" /\ conf[p] # None => InTable(conf[p])
  PROVE  StartInv'
  <1>. USE AccessAssumption
  <1>1. /\ at' = [at EXCEPT ![p] = place]
        /\ UNCHANGED <<conf, rows, exchanges, tokens, served, now, held>>
    BY DEF To
  <1>2. /\ at \in [Processes -> {"down", "migrating", "creating", "seeding", "serving"}]
        /\ at'[p] = place /\ \A q \in Processes \ {p} : at'[q] = at[q]
        /\ schema \in 0 .. Files /\ schema' \in 0 .. Files /\ schema <= schema'
    BY <1>1 DEF StartInv, TypeOK
  <1>3. TypeOK'
    BY <1>1, <1>2 DEF StartInv, TypeOK
  <1>4. Prepared'
    <2>. SUFFICES ASSUME NEW q \in Processes
                  PROVE  /\ at'[q] \in {"migrating", "creating"} => file'[q] <= schema' + 1
                         /\ at'[q] = "creating" => file'[q] <= Files
                         /\ at'[q] = "seeding" => conf'[q] # None
      BY DEF Prepared
    <2>1. CASE q = p
      BY <1>1, <1>2, <2>1
    <2>2. CASE q # p
      BY <1>1, <1>2, <2>2 DEF StartInv, Prepared, TypeOK
    <2>3. QED
      BY <2>1, <2>2
  <1>5. ServesWithAdmin'
    BY <1>1, <1>2 DEF StartInv, ServesWithAdmin, InTable
  <1>6. QED
    BY <1>3, <1>4, <1>5 DEF StartInv

\* A row is stored, which no key loses again.
LEMMA StoreKeeps ==
  ASSUME StartInv, NEW k, NEW row \in Row, Store(k, row)
  PROVE  /\ rows' \in [Keys -> Row \cup {None}]
         /\ \A i \in Keys : InTable(i) => InTable(i)'
         /\ k \in Keys => InTable(k)'
  BY AccessAssumption DEF StartInv, TypeOK, Store, InTable

LEMMA BeginStart ==
  ASSUME StartInv, NEW p \in Processes, NEW k \in BootstrapKeys \cup {None}, Begin(p, k)
  PROVE  StartInv'
  <1>. USE AccessAssumption
  <1>1. /\ at' = [at EXCEPT ![p] = "migrating"] /\ file' = [file EXCEPT ![p] = 1]
        /\ conf' = [conf EXCEPT ![p] = k]
        /\ UNCHANGED <<schema, rows, exchanges, tokens, served, now, held>>
    BY DEF Begin
  <1>2. TypeOK'
    BY <1>1 DEF StartInv, TypeOK
  <1>3. Prepared'
    BY <1>1 DEF StartInv, TypeOK, Prepared
  <1>4. ServesWithAdmin'
    BY <1>1 DEF StartInv, TypeOK, ServesWithAdmin, InTable
  <1>5. QED
    BY <1>2, <1>3, <1>4 DEF StartInv

LEMMA LookStart ==
  ASSUME StartInv, NEW p \in Processes, Look(p)
  PROVE  StartInv'
  <1>. USE AccessAssumption
  <1>1. /\ at[p] = "migrating" /\ file[p] \in 1 .. Files + 1 /\ file[p] <= Files
        /\ file[p] <= schema + 1 /\ schema \in 0 .. Files /\ schema' = schema
        /\ file \in [Processes -> 1 .. Files + 1]
    BY DEF Look, StartInv, TypeOK, Prepared
  <1>2. CASE To(p, "creating") /\ UNCHANGED file
    BY <1>1, <1>2, StartMove
  <1>3. CASE schema >= file[p] /\ To(p, "migrating") /\ file' = [file EXCEPT ![p] = file[p] + 1]
    <2>1. /\ file' \in [Processes -> 1 .. Files + 1] /\ file'[p] = file[p] + 1
          /\ \A q \in Processes \ {p} : file'[q] = file[q]
      BY <1>1, <1>3
    <2>2. QED
      BY <1>1, <1>3, <2>1, StartMove
  <1>4. QED
    BY <1>2, <1>3 DEF Look

LEMMA CreateObjectsStart ==
  ASSUME StartInv, NEW p \in Processes, CreateObjects(p)
  PROVE  StartInv'
  <1>. USE AccessAssumption
  <1>1. /\ at[p] = "creating" /\ file[p] \in 1 .. Files + 1 /\ file[p] <= Files
        /\ schema \in 0 .. Files /\ file \in [Processes -> 1 .. Files + 1]
    BY DEF CreateObjects, StartInv, TypeOK, Prepared
  <1>2. CASE To(p, "down") /\ UNCHANGED <<file, schema>>
    BY <1>1, <1>2, StartMove
  <1>3. CASE /\ ~(schema >= file[p]) /\ To(p, "migrating")
             /\ schema' = file[p] /\ file' = [file EXCEPT ![p] = file[p] + 1]
    <2>1. /\ file' \in [Processes -> 1 .. Files + 1] /\ file'[p] = file[p] + 1
          /\ \A q \in Processes \ {p} : file'[q] = file[q]
      BY <1>1, <1>3
    <2>2. schema' \in schema .. Files
      BY <1>1, <1>3
    <2>3. QED
      BY <1>1, <1>3, <2>1, <2>2, StartMove
  <1>4. QED
    BY <1>2, <1>3 DEF CreateObjects

LEMMA SeedLookupStart ==
  ASSUME StartInv, NEW p \in Processes, SeedLookup(p)
  PROVE  StartInv'
  <1>. USE AccessAssumption
  <1>1. /\ at[p] = "migrating" /\ file[p] > Files /\ UNCHANGED <<file, schema>>
        /\ file \in [Processes -> 1 .. Files + 1] /\ schema \in 0 .. Files
        /\ file[p] <= schema + 1
    BY DEF SeedLookup, Migrated, StartInv, TypeOK, Prepared
  <1>2. schema' = Files /\ schema' \in schema .. Files
    BY <1>1
  <1>3. CASE conf[p] = None \/ Seeded(conf[p])
    <2>1. To(p, "serving") /\ (conf[p] # None => InTable(conf[p]))
      BY <1>3 DEF SeedLookup, Seeded
    <2>2. QED
      BY <1>1, <1>2, <2>1, StartMove
  <1>4. CASE ~(conf[p] = None \/ Seeded(conf[p]))
    <2>1. To(p, "seeding") /\ conf[p] # None
      BY <1>4 DEF SeedLookup
    <2>2. QED
      BY <1>1, <1>2, <2>1, StartMove
  <1>5. QED
    BY <1>3, <1>4

LEMMA SeedCommitStart ==
  ASSUME StartInv, NEW p \in Processes, SeedCommit(p)
  PROVE  StartInv'
  <1>. USE AccessAssumption
  <1>1. /\ at[p] = "seeding" /\ conf[p] \in Keys /\ schema = Files
        /\ UNCHANGED <<conf, file, schema, exchanges, tokens, served, now>>
    BY DEF SeedCommit, StartInv, TypeOK, Prepared
  <1>2. /\ rows' \in [Keys -> Row \cup {None}]
        /\ \A i \in Keys : InTable(i) => InTable(i)'
        /\ at' = [at EXCEPT ![p] = "down"]
           \/ (at' = [at EXCEPT ![p] = "serving"] /\ InTable(conf[p])')
    <2>1. CASE Seeded(conf[p])
      BY <2>1 DEF SeedCommit, StartInv, TypeOK, InTable
    <2>2. CASE ~Seeded(conf[p])
      <3>. DEFINE row == [owner |-> Admin, scopes |-> {"admin"}, isActive |-> TRUE]
      <3>1. row \in Row
        BY DEF Row, Scopes
      <3>2. Store(conf[p], row) /\ at' = [at EXCEPT ![p] = "serving"]
        BY <2>2 DEF SeedCommit
      <3>. HIDE DEF row
      <3>3. InTable(conf[p])' /\ rows' \in [Keys -> Row \cup {None}]
            /\ \A i \in Keys : InTable(i) => InTable(i)'
        <4>1. rows' = [rows EXCEPT ![conf[p]] = row] /\ row # None
          BY <3>1, <3>2 DEF Store
        <4>2. QED
          BY <1>1, <3>1, <4>1 DEF StartInv, TypeOK, InTable
      <3>4. QED
        BY <3>2, <3>3
    <2>3. QED
      BY <2>1, <2>2
  <1>3. /\ \A q \in Processes \ {p} : at'[q] = at[q]
        /\ at'[p] \in {"down", "serving"} /\ (at'[p] = "serving" => InTable(conf[p])')
        /\ at' \in [Processes -> {"down", "migrating", "creating", "seeding", "serving"}]
    BY <1>2 DEF StartInv, TypeOK
  <1>4. TypeOK'
    BY <1>1, <1>2, <1>3 DEF StartInv, TypeOK
  <1>5. Prepared'
    BY <1>1, <1>3 DEF StartInv, Prepared
  <1>6. ServesWithAdmin'
    <2>. SUFFICES ASSUME NEW q \in Processes, at'[q] = "serving", conf'[q] # None
                  PROVE  InTable(conf[q])'
      BY DEF ServesWithAdmin
    <2>1. conf[q] \in Keys /\ conf' = conf
      BY <1>1 DEF StartInv, TypeOK
    <2>2. CASE q = p
      BY <1>3, <2>2
    <2>3. CASE q # p
      BY <1>2, <1>3, <2>1, <2>3 DEF StartInv, ServesWithAdmin, InTable
    <2>4. QED
      BY <2>2, <2>3
  <1>7. QED
    BY <1>4, <1>5, <1>6 DEF StartInv

LEMMA EndStart ==
  ASSUME StartInv, NEW p \in Processes, End(p)
  PROVE  StartInv'
  <1>1. /\ To(p, "down") /\ UNCHANGED <<file, schema>>
        /\ schema \in 0 .. Files /\ file \in [Processes -> 1 .. Files + 1]
    BY DEF End, StartInv, TypeOK
  <1>2. schema' \in schema .. Files
    BY <1>1, AccessAssumption
  <1>3. QED
    BY <1>1, <1>2, StartMove

\* Whatever else happens stores rows, at most.
LEMMA ElsewhereStart ==
  ASSUME StartInv, UNCHANGED <<at, conf, file, schema>>,
         rows' \in [Keys -> Row \cup {None}], \A k \in Keys : InTable(k) => InTable(k)',
         exchanges' \subseteq Row,
         tokens' \subseteq [sub : Owners, scopes : SUBSET Scopes, exp : Nat],
         now' \in 1 .. MaxTime + 1
  PROVE  StartInv'
  <1>1. TypeOK' /\ Prepared'
    BY DEF StartInv, TypeOK, Prepared
  <1>2. ServesWithAdmin'
    BY AccessAssumption DEF StartInv, TypeOK, ServesWithAdmin, InTable
  <1>3. QED
    BY <1>1, <1>2 DEF StartInv

LEMMA StartStep ==
  ASSUME StartInv, [Next]_vars
  PROVE  StartInv'
  <1>. USE AccessAssumption
  <1>0. TypeOK
    BY DEF StartInv
  <1>1. ASSUME NEW k \in Keys, NEW row \in ByHand, Administer(k, row) PROVE StartInv'
    <2>1. row \in Row
      OBVIOUS
    <2>2. /\ rows' \in [Keys -> Row \cup {None}]
          /\ \A i \in Keys : InTable(i) => InTable(i)'
      BY <1>1, <2>1, StoreKeeps DEF Administer
    <2>3. QED
      BY <1>0, <1>1, <2>2, ElsewhereStart DEF Administer, TypeOK
  <1>2. ASSUME NEW k \in Keys, Exchange(k) PROVE StartInv'
    <2>1. rows[k] \in Row
      BY <1>0, <1>2 DEF Exchange, Active, InTable, TypeOK
    <2>2. QED
      BY <1>0, <1>2, <2>1, ElsewhereStart DEF Exchange, InTable, TypeOK
  <1>3. ASSUME NEW row \in exchanges, Mint(row) PROVE StartInv'
    <2>1. [sub |-> row.owner, scopes |-> row.scopes, exp |-> now + Ttl]
            \in [sub : Owners, scopes : SUBSET Scopes, exp : Nat]
      <3>1. row \in Row /\ now + Ttl \in Nat
        BY <1>0 DEF TypeOK
      <3>2. QED
        BY <3>1 DEF Row
    <2>2. tokens' = tokens \cup {[sub |-> row.owner, scopes |-> row.scopes, exp |-> now + Ttl]}
          /\ exchanges' \subseteq exchanges
          /\ UNCHANGED <<at, conf, file, schema, rows, served, now, held>>
      BY <1>3 DEF Mint
    <2>3. QED
      BY <1>0, <2>1, <2>2, ElsewhereStart DEF InTable, TypeOK
  <1>4. ASSUME NEW t \in tokens, NEW scope \in {"polling:read", "polling:write"}, Call(t, scope)
        PROVE  StartInv'
    BY <1>0, <1>4, ElsewhereStart DEF Call, InTable, TypeOK
  <1>5. CASE Tick
    <2>1. now' \in 1 .. MaxTime + 1
      BY <1>0, <1>5 DEF Tick, TypeOK
    <2>2. QED
      BY <1>0, <1>5, <2>1, ElsewhereStart DEF Tick, InTable, TypeOK
  <1>6. CASE UNCHANGED vars
    BY <1>0, <1>6, ElsewhereStart DEF vars, InTable, TypeOK
  <1>7. QED
    BY <1>1, <1>2, <1>3, <1>4, <1>5, <1>6, BeginStart, LookStart, CreateObjectsStart,
       SeedLookupStart, SeedCommitStart, EndStart DEF Next

LEMMA StartInit == Init => StartInv
  BY AccessAssumption DEF Init, StartInv, TypeOK, Prepared, ServesWithAdmin

\* The state of starts, keys and tokens keeps its type.
THEOREM AccessTypes == Spec => []TypeOK
  <1>1. StartInv => TypeOK
    BY DEF StartInv
  <1>2. QED
    BY <1>1, StartInit, StartStep, PTL DEF Spec

\* Whoever serves has its bootstrap key on record, however many processes start
\* side by side, lose the race for a table or a key, and start again.
THEOREM ServersHaveTheirAdmin == Spec => []ServesWithAdmin
  <1>1. StartInv => ServesWithAdmin
    BY DEF StartInv
  <1>2. QED
    BY <1>1, StartInit, StartStep, PTL DEF Spec

\* A start stores a key only if it is not in the table, active or not.
THEOREM StartsReviveNothing == Spec => StartRevivesNothing
  <1>1. ASSUME StartInv, [Next]_vars, NEW p \in Processes, at'[p] # at[p],
               NEW k \in Keys, InTable(k)
        PROVE  rows'[k] = rows[k]
    <2>1. ASSUME NEW q \in Processes, SeedCommit(q) PROVE rows'[k] = rows[k]
      <3>1. CASE Seeded(conf[q])
        BY <2>1, <3>1 DEF SeedCommit
      <3>2. CASE ~Seeded(conf[q])
        <4>1. conf[q] # k /\ rows' = [rows EXCEPT ![conf[q]] =
                [owner |-> Admin, scopes |-> {"admin"}, isActive |-> TRUE]]
          BY <1>1, <2>1, <3>2 DEF SeedCommit, Store, Seeded
        <4>2. QED
          BY <1>1, <4>1 DEF StartInv, TypeOK
      <3>3. QED
        BY <3>1, <3>2
    <2>2. QED
      BY <1>1, <2>1 DEF Next, vars, Begin, Look, CreateObjects, SeedLookup, End, To,
         Administer, Exchange, Mint, Call, Tick
  <1>2. StartInv /\ [Next]_vars =>
          [(\E p \in Processes : at'[p] # at[p]) =>
             \A k \in Keys : InTable(k) => rows'[k] = rows[k]]_vars
    BY <1>1
  <1>3. QED
    BY <1>2, StartInit, StartStep, PTL DEF Spec, StartRevivesNothing

-------------------------------------------------------------------------------
(* What a right outlives.                                                  *)

RightsInv == HeldType /\ RightsAreHeld /\ TokensEnd /\ ServedType /\ RevocationTakesEffect

\* The last moment a right was held is never taken back.
HeldGrows ==
  /\ held' \in [Owners \X Scopes -> 0 .. now']
  /\ \A i \in Owners \X Scopes : held[i] <= held'[i]

LEMMA TokensLast ==
  ASSUME TypeOK, RightsInv, HeldGrows, tokens' = tokens
  PROVE  TokensEnd'
  <1>1. ASSUME NEW t \in tokens, NEW s \in t.scopes
        PROVE  held'[<<t.sub, s>>] # 0 /\ t.exp <= held'[<<t.sub, s>>] + Ttl
    <2>1. t \in [sub : Owners, scopes : SUBSET Scopes, exp : Nat]
      BY DEF TypeOK
    <2>2. <<t.sub, s>> \in Owners \X Scopes /\ t.exp \in Nat
      BY <2>1
    <2>3. /\ held[<<t.sub, s>>] # 0 /\ t.exp <= held[<<t.sub, s>>] + Ttl
          /\ held[<<t.sub, s>>] \in 0 .. now
      BY <2>2 DEF RightsInv, HeldType, TokensEnd
    <2>4. /\ held'[<<t.sub, s>>] \in 0 .. now'
          /\ held[<<t.sub, s>>] <= held'[<<t.sub, s>>]
      BY <2>2 DEF HeldGrows
    <2>5. QED
      BY <2>2, <2>3, <2>4, AccessAssumption
  <1>2. QED
    BY <1>1 DEF TokensEnd

LEMMA ServiceLasts ==
  ASSUME TypeOK, RightsInv, HeldGrows, served' = served
  PROVE  ServedType' /\ RevocationTakesEffect'
  <1>1. ServedType'
    BY DEF RightsInv, ServedType
  <1>2. ASSUME served # None
        PROVE  \E s \in {served.scope, "admin"} :
                 held'[<<served.sub, s>>] # 0 /\ served.at < held'[<<served.sub, s>>] + Ttl
    <2>1. served \in [sub : Owners, scope : Scopes, at : Nat]
      BY <1>2 DEF RightsInv, ServedType
    <2>2. PICK s \in {served.scope, "admin"} :
            held[<<served.sub, s>>] # 0 /\ served.at < held[<<served.sub, s>>] + Ttl
      BY <1>2 DEF RightsInv, RevocationTakesEffect
    <2>3. <<served.sub, s>> \in Owners \X Scopes /\ served.at \in Nat
      BY <2>1 DEF Scopes
    <2>4. /\ held[<<served.sub, s>>] \in 0 .. now
          /\ held'[<<served.sub, s>>] \in 0 .. now'
          /\ held[<<served.sub, s>>] <= held'[<<served.sub, s>>]
      BY <2>3 DEF RightsInv, HeldType, HeldGrows
    <2>5. held'[<<served.sub, s>>] # 0 /\ served.at < held'[<<served.sub, s>>] + Ttl
      BY <2>2, <2>3, <2>4, AccessAssumption
    <2>6. QED
      BY <2>5
  <1>3. QED
    BY <1>1, <1>2 DEF RevocationTakesEffect

\* Nothing is asked of the keys, no time passes and no token is minted.
LEMMA SameRights ==
  ASSUME TypeOK, RightsInv, UNCHANGED <<rows, exchanges, tokens, now, held>>
  PROVE  HeldGrows /\ HeldType' /\ RightsAreHeld' /\ TokensEnd'
  <1>1. HeldGrows
    BY DEF TypeOK, RightsInv, HeldType, HeldGrows
  <1>2. HeldType' /\ RightsAreHeld'
    BY DEF RightsInv, HeldType, RightsAreHeld, Active, InTable
  <1>3. QED
    BY <1>1, <1>2, TokensLast

\* A right is held at the time given if it is in force, or keeps its time.
LEMMA HeldSteps ==
  ASSUME RightsInv, now \in Nat, NEW table, NEW time \in now .. now + 1, held' = Held(table, time)
  PROVE  /\ held' \in [Owners \X Scopes -> 0 .. time]
         /\ \A i \in Owners \X Scopes : held'[i] = time \/ held'[i] = held[i]
         /\ \A o \in Owners, s \in Scopes : InForce(table, o, s) => held'[<<o, s>>] = time
  BY DEF RightsInv, HeldType, Held

\* A row is stored: the rights of all active keys are held now.
LEMMA StoreRights ==
  ASSUME TypeOK, RightsInv, NEW k \in Keys, NEW row \in Row, Store(k, row),
         UNCHANGED <<exchanges, tokens, served, now>>
  PROVE  RightsInv'
  <1>. USE AccessAssumption
  <1>1. rows' \in [Keys -> Row \cup {None}]
    BY DEF TypeOK, Store
  <1>2. /\ held' \in [Owners \X Scopes -> 0 .. now]
        /\ \A i \in Owners \X Scopes : held'[i] = now \/ held'[i] = held[i]
        /\ \A o \in Owners, s \in Scopes : InForce(rows', o, s) => held'[<<o, s>>] = now
    <2>1. now \in Nat /\ now \in now .. now + 1 /\ held' = Held(rows', now)
      BY DEF TypeOK, Store
    <2>2. QED
      BY <2>1, HeldSteps
  <1>3. HeldGrows /\ HeldType'
    BY <1>2 DEF TypeOK, RightsInv, HeldType, HeldGrows
  <1>4. RightsAreHeld'
    <2>1. ASSUME NEW i \in Keys, Active(i)', NEW s \in rows'[i].scopes
          PROVE  held'[<<rows'[i].owner, s>>] = now
      <3>1. rows'[i].owner \in Owners /\ s \in Scopes
        BY <1>1, <2>1 DEF Active, InTable, Row
      <3>2. InForce(rows', rows'[i].owner, s)
        BY <2>1 DEF InForce, Active, InTable
      <3>3. QED
        BY <1>2, <3>1, <3>2
    <2>2. ASSUME NEW e \in exchanges, NEW s \in e.scopes
          PROVE  held'[<<e.owner, s>>] = now
      <3>1. <<e.owner, s>> \in Owners \X Scopes /\ held[<<e.owner, s>>] = now
        BY DEF TypeOK, Row, RightsInv, RightsAreHeld
      <3>2. QED
        BY <1>2, <3>1
    <2>3. QED
      BY <2>1, <2>2 DEF RightsAreHeld
  <1>5. QED
    BY <1>3, <1>4, TokensLast, ServiceLasts DEF RightsInv

LEMMA RightsStep ==
  ASSUME StartInv, RightsInv, [Next]_vars
  PROVE  RightsInv'
  <1>. USE AccessAssumption
  <1>0. TypeOK
    BY DEF StartInv
  <1>1. ASSUME UNCHANGED <<rows, exchanges, tokens, now, held>>, served' = served
        PROVE  RightsInv'
    BY <1>0, <1>1, SameRights, ServiceLasts DEF RightsInv
  <1>2. ASSUME NEW p \in Processes, SeedCommit(p) PROVE RightsInv'
    <2>1. CASE Seeded(conf[p])
      BY <1>1, <1>2, <2>1 DEF SeedCommit
    <2>2. CASE ~Seeded(conf[p])
      <3>1. [owner |-> Admin, scopes |-> {"admin"}, isActive |-> TRUE] \in Row
        BY DEF Row, Scopes
      <3>2. conf[p] \in Keys
        BY <1>2 DEF SeedCommit, StartInv, TypeOK, Prepared
      <3>3. QED
        BY <1>0, <1>2, <2>2, <3>1, <3>2, StoreRights DEF SeedCommit
    <2>3. QED
      BY <2>1, <2>2
  <1>3. ASSUME NEW k \in Keys, NEW row \in ByHand, Administer(k, row) PROVE RightsInv'
    <2>1. row \in Row
      OBVIOUS
    <2>2. QED
      BY <1>0, <1>3, <2>1, StoreRights DEF Administer
  <1>4. ASSUME NEW k \in Keys, Exchange(k) PROVE RightsInv'
    <2>1. /\ Active(k) /\ exchanges' = exchanges \cup {rows[k]}
          /\ UNCHANGED <<rows, tokens, served, now, held>>
      BY <1>4 DEF Exchange
    <2>2. HeldGrows /\ HeldType'
      BY <1>0, <2>1 DEF TypeOK, RightsInv, HeldType, HeldGrows
    <2>3. RightsAreHeld'
      BY <2>1 DEF RightsInv, RightsAreHeld, Active, InTable
    <2>4. QED
      BY <1>0, <2>1, <2>2, <2>3, TokensLast, ServiceLasts DEF RightsInv
  <1>5. ASSUME NEW row \in exchanges, Mint(row) PROVE RightsInv'
    <2>. DEFINE t == [sub |-> row.owner, scopes |-> row.scopes, exp |-> now + Ttl]
    <2>1. /\ exchanges' \subseteq exchanges /\ tokens' = tokens \cup {t}
          /\ UNCHANGED <<rows, served, now, held>>
      BY <1>5 DEF Mint
    <2>2. HeldGrows /\ HeldType'
      BY <1>0, <2>1 DEF TypeOK, RightsInv, HeldType, HeldGrows
    <2>3. RightsAreHeld'
      BY <2>1 DEF RightsInv, RightsAreHeld, Active, InTable
    <2>4. TokensEnd'
      <3>1. ASSUME NEW s \in t.scopes
            PROVE  held[<<t.sub, s>>] # 0 /\ t.exp <= held[<<t.sub, s>>] + Ttl
        BY <1>0, <3>1 DEF TypeOK, RightsInv, RightsAreHeld
      <3>. HIDE DEF t
      <3>2. QED
        BY <2>1, <3>1 DEF RightsInv, TokensEnd
    <2>5. QED
      BY <1>0, <2>1, <2>2, <2>3, <2>4, ServiceLasts DEF RightsInv
  <1>6. ASSUME NEW t \in tokens, NEW scope \in {"polling:read", "polling:write"}, Call(t, scope)
        PROVE  RightsInv'
    <2>1. /\ now < t.exp /\ HasScope(t, scope)
          /\ served' = [sub |-> t.sub, scope |-> scope, at |-> now]
          /\ UNCHANGED <<rows, exchanges, tokens, now, held>>
      BY <1>6 DEF Call, Valid
    <2>2. /\ t \in [sub : Owners, scopes : SUBSET Scopes, exp : Nat]
          /\ now \in Nat /\ scope \in Scopes
      BY <1>0 DEF TypeOK, Scopes
    <2>3. served' \in [sub : Owners, scope : Scopes, at : Nat]
      BY <2>1, <2>2
    <2>4. PICK s \in {scope, "admin"} : s \in t.scopes
      BY <2>1 DEF HasScope
    <2>5. /\ held[<<t.sub, s>>] # 0 /\ t.exp <= held[<<t.sub, s>>] + Ttl
          /\ held[<<t.sub, s>>] \in 0 .. now /\ t.exp \in Nat
      BY <2>2, <2>4 DEF RightsInv, TokensEnd, HeldType
    <2>6. now < held[<<t.sub, s>>] + Ttl
      BY <2>1, <2>2, <2>5
    <2>7. RevocationTakesEffect'
      <3>1. served'.sub = t.sub /\ served'.scope = scope /\ served'.at = now
        BY <2>1
      <3>2. s \in {served'.scope, "admin"} /\ held' = held
        BY <2>1, <2>4, <3>1
      <3>3. QED
        BY <2>5, <2>6, <3>1, <3>2 DEF RevocationTakesEffect
    <2>8. QED
      BY <1>0, <2>1, <2>3, <2>7, SameRights DEF RightsInv, ServedType
  <1>7. CASE Tick
    <2>1. /\ now' = now + 1 /\ exchanges = {} /\ now \in Nat
          /\ UNCHANGED <<rows, exchanges, tokens, served>>
          /\ held' = Held(rows, now + 1)
      BY <1>0, <1>7 DEF Tick, TypeOK
    <2>2. /\ held' \in [Owners \X Scopes -> 0 .. now']
          /\ \A i \in Owners \X Scopes : held'[i] = now' \/ held'[i] = held[i]
          /\ \A o \in Owners, s \in Scopes : InForce(rows, o, s) => held'[<<o, s>>] = now'
      <3>1. now' \in now .. now + 1
        BY <2>1
      <3>2. held' = Held(rows, now')
        BY <2>1
      <3>3. QED
        BY <2>1, <3>1, <3>2, HeldSteps
    <2>3. HeldGrows /\ HeldType'
      BY <2>1, <2>2 DEF RightsInv, HeldType, HeldGrows
    <2>4. RightsAreHeld'
      <3>1. ASSUME NEW k \in Keys, Active(k), NEW s \in rows[k].scopes
            PROVE  held'[<<rows[k].owner, s>>] = now'
        <4>1. rows[k].owner \in Owners /\ s \in Scopes
          BY <1>0, <3>1 DEF TypeOK, Active, InTable, Row
        <4>2. InForce(rows, rows[k].owner, s)
          BY <3>1 DEF InForce, Active, InTable
        <4>3. QED
          BY <2>2, <4>1, <4>2
      <3>2. QED
        BY <2>1, <3>1 DEF RightsAreHeld, Active, InTable
    <2>5. QED
      BY <1>0, <2>1, <2>3, <2>4, TokensLast, ServiceLasts DEF RightsInv
  <1>8. CASE UNCHANGED vars
    BY <1>1, <1>8 DEF vars
  <1>9. QED
    BY <1>1, <1>2, <1>3, <1>4, <1>5, <1>6, <1>7, <1>8
    DEF Next, Begin, Look, CreateObjects, SeedLookup, End, To

\* Calls are let through on tokens alone, and still nobody is served on a right
\* that no active key of theirs has had within Ttl.
THEOREM RevocationReachesTokens == Spec => []RevocationTakesEffect
  <1>1. Init => RightsInv
    BY AccessAssumption
    DEF Init, RightsInv, HeldType, RightsAreHeld, TokensEnd, ServedType, RevocationTakesEffect,
        Active, InTable
  <1>2. RightsInv => RevocationTakesEffect
    BY DEF RightsInv
  <1>3. QED
    BY <1>1, <1>2, StartInit, StartStep, RightsStep, PTL DEF Spec
===============================================================================
