-------------------------------- MODULE Access --------------------------------
(***************************************************************************)
(* Who may call the management API (src/app/auth.py,                       *)
(* src/app/api/auth_routes.py, src/app/api/deps.py) and what a starting    *)
(* process does about it (src/app/main.py, BOOTSTRAP_STATE_TABLE being     *)
(* set): it brings the schema up to date and seeds the bootstrap key,      *)
(* beside other processes that start or serve. API keys are exchanged for  *)
(* tokens, and from then on only the tokens are looked at. Signatures and  *)
(* hashes are taken to do what they promise.                               *)
(***************************************************************************)
EXTENDS Naturals, FiniteSets

CONSTANTS
  Processes,
  Files,         \* number of migrations
  Keys, Owners,
  BootstrapKeys, \* values of BOOTSTRAP_ADMIN_KEY over the restarts
  Admin,         \* the owner of what is seeded
  Ttl,           \* JWT_TTL_SECONDS, in ticks longer than a request
  MaxTime,       \* bound on the clock
  MaxTokens,     \* bound on the tokens issued
  ByHand,        \* the rows that are written into the table by hand
  None

Scopes == {"polling:read", "polling:write", "admin"}

Row == [owner : Owners, scopes : SUBSET Scopes, isActive : BOOLEAN]

ASSUME AccessAssumption ==
  /\ Files \in Nat /\ Ttl \in Nat \ {0} /\ MaxTime \in Nat /\ MaxTokens \in Nat
  /\ BootstrapKeys \subseteq Keys /\ Admin \in Owners
  /\ ByHand \subseteq Row /\ None \notin Keys /\ None \notin Row

VARIABLES
  at,         \* where each process is
  conf,       \* the bootstrap key it was started with, or None
  file,       \* the migration it has come to
  schema,     \* how many are applied
  rows,       \* [polling].[ApiKey]: of each key, its row or None
  exchanges,  \* rows read by /auth/token, a token not yet minted
  tokens,     \* all tokens issued
  served,     \* the last call that was let through, or None
  now,
  held        \* when an active key of an owner last had a scope, 0 if never

vars == <<at, conf, file, schema, rows, exchanges, tokens, served, now, held>>

TypeOK ==
  /\ at \in [Processes -> {"down", "migrating", "creating", "seeding", "serving"}]
  /\ conf \in [Processes -> BootstrapKeys \cup {None}]
  /\ file \in [Processes -> 1 .. Files + 1]
  /\ schema \in 0 .. Files
  /\ rows \in [Keys -> Row \cup {None}]
  /\ exchanges \subseteq Row
  /\ tokens \subseteq [sub : Owners, scopes : SUBSET Scopes, exp : Nat]
  /\ now \in 1 .. MaxTime + 1
  \* A table comes into being only with its migration.
  /\ \A p \in Processes : at[p] \in {"seeding", "serving"} => schema = Files

Init ==
  /\ at = [p \in Processes |-> "down"]
  /\ conf = [p \in Processes |-> None]
  /\ file = [p \in Processes |-> 1]
  /\ schema = 0
  /\ rows = [k \in Keys |-> None]
  /\ exchanges = {} /\ tokens = {} /\ served = None
  /\ now = 1
  /\ held = [i \in Owners \X Scopes |-> 0]

InTable(k) == rows[k] # None
Active(k) == InTable(k) /\ rows[k].isActive

-------------------------------------------------------------------------------
(* A process starts.                                                       *)

Begin(p, k) ==
  /\ at[p] = "down"
  /\ at' = [at EXCEPT ![p] = "migrating"]
  /\ file' = [file EXCEPT ![p] = 1]
  /\ conf' = [conf EXCEPT ![p] = k]
  /\ UNCHANGED <<schema, rows, exchanges, tokens, served, now, held>>

To(p, place) ==
  /\ at' = [at EXCEPT ![p] = place]
  /\ UNCHANGED <<conf, rows, exchanges, tokens, served, now, held>>

\* IF ... IS NULL: what the file creates is looked for ...
Look(p) ==
  /\ at[p] = "migrating" /\ file[p] <= Files
  /\ UNCHANGED schema
  /\ \/ schema < file[p] /\ To(p, "creating") /\ UNCHANGED file
     \/ schema >= file[p] /\ To(p, "migrating") /\ file' = [file EXCEPT ![p] = @ + 1]

\* Mutant: a file counts as done when it could not be run.
CreateObjects_Goes(p) ==
  /\ at[p] = "creating"
  /\ To(p, "migrating")
  /\ file' = [file EXCEPT ![p] = @ + 1] /\ UNCHANGED schema

\* ... and then created, which fails the start if another process has done so.
CreateObjects(p) ==
  /\ at[p] = "creating"
  /\ IF schema >= file[p]
     THEN To(p, "down") /\ UNCHANGED <<file, schema>>
     ELSE /\ To(p, "migrating")
          /\ schema' = file[p] /\ file' = [file EXCEPT ![p] = @ + 1]

Migrated(p) == at[p] = "migrating" /\ file[p] > Files

\* Mutant: a key that is not active is seeded again.
Seeded_Active(k) == Active(k)

Seeded(k) == InTable(k)

\* ensure_bootstrap_admin looks for this very key, active or not.
SeedLookup(p) ==
  /\ Migrated(p)
  /\ To(p, IF conf[p] = None \/ Seeded(conf[p]) THEN "serving" ELSE "seeding")
  /\ UNCHANGED <<file, schema>>

InForce(table, owner, scope) ==
  \E k \in Keys : /\ table[k] # None /\ table[k].isActive
                  /\ table[k].owner = owner /\ scope \in table[k].scopes

Held(table, time) ==
  [i \in Owners \X Scopes |-> IF InForce(table, i[1], i[2]) THEN time ELSE held[i]]

Store(k, row) ==
  /\ rows' = [rows EXCEPT ![k] = row]
  /\ held' = Held(rows', now)

\* Mutant: the session is closed and not committed.
SeedCommit_Closed(p) ==
  /\ at[p] = "seeding"
  /\ To(p, "serving")
  /\ UNCHANGED <<file, schema>>

\* The commit, which the UNIQUE key_hash refuses if another process was first.
SeedCommit(p) ==
  /\ at[p] = "seeding"
  /\ IF Seeded(conf[p])
     THEN at' = [at EXCEPT ![p] = "down"] /\ UNCHANGED <<rows, held>>
     ELSE /\ at' = [at EXCEPT ![p] = "serving"]
          /\ Store(conf[p], [owner |-> Admin, scopes |-> {"admin"}, isActive |-> TRUE])
  /\ UNCHANGED <<conf, file, schema, exchanges, tokens, served, now>>

\* Stopped, killed, or failed to start on a fault of the database.
End(p) ==
  /\ at[p] # "down"
  /\ To(p, "down")
  /\ UNCHANGED <<file, schema>>

-------------------------------------------------------------------------------
(* Keys are registered, changed and deactivated in the database by hand.   *)

Administer(k, row) ==
  /\ schema = Files
  /\ InTable(k) => row.owner = rows[k].owner
  /\ Store(k, row)
  /\ UNCHANGED <<at, conf, file, schema, exchanges, tokens, served, now>>

-------------------------------------------------------------------------------
(* Keys become tokens, and tokens are presented.                           *)

Serving == \E p \in Processes : at[p] = "serving"

\* POST /auth/token: the lookup; unknown and inactive are answered alike ...
Exchange(k) ==
  /\ Serving /\ Active(k)
  /\ Cardinality(tokens) + Cardinality(exchanges) < MaxTokens
  /\ exchanges' = exchanges \cup {rows[k]}
  /\ UNCHANGED <<at, conf, file, schema, rows, tokens, served, now, held>>

Mint(row) ==
  /\ row \in exchanges
  /\ exchanges' = exchanges \ {row}
  /\ tokens' = tokens \cup {[sub |-> row.owner, scopes |-> row.scopes, exp |-> now + Ttl]}
  /\ UNCHANGED <<at, conf, file, schema, rows, served, now, held>>

\* Mutant: a token that expires now is taken.
Valid_Leeway(t) == now <= t.exp

Valid(t) == now < t.exp

HasScope(t, scope) == "admin" \in t.scopes \/ scope \in t.scopes

\* A call of any other endpoint. The table of keys is not asked.
Call(t, scope) ==
  /\ Serving
  /\ Valid(t) /\ HasScope(t, scope)
  /\ served' = [sub |-> t.sub, scope |-> scope, at |-> now]
  /\ UNCHANGED <<at, conf, file, schema, rows, exchanges, tokens, now, held>>

\* No exchange takes longer than a tick.
Tick ==
  /\ now <= MaxTime /\ exchanges = {}
  /\ now' = now + 1
  /\ held' = Held(rows, now + 1)
  /\ UNCHANGED <<at, conf, file, schema, rows, exchanges, tokens, served>>

Next ==
  \/ \E p \in Processes :
       \/ \E k \in BootstrapKeys \cup {None} : Begin(p, k)
       \/ Look(p) \/ CreateObjects(p) \/ SeedLookup(p) \/ SeedCommit(p) \/ End(p)
  \/ \E k \in Keys, row \in ByHand : Administer(k, row)
  \/ \E k \in Keys : Exchange(k)
  \/ \E row \in exchanges : Mint(row)
  \/ \E t \in tokens, scope \in {"polling:read", "polling:write"} : Call(t, scope)
  \/ Tick

Spec == Init /\ [][Next]_vars

-------------------------------------------------------------------------------
\* What an owner could do through an active key is over Ttl after the key is
\* deactivated or loses the scope, whatever tokens were exchanged before, and
\* even if one was being exchanged meanwhile.
RevocationTakesEffect ==
  served # None =>
    \E s \in {served.scope, "admin"} :
      held[<<served.sub, s>>] # 0 /\ served.at < held[<<served.sub, s>>] + Ttl

\* No start puts a key back in force that was deactivated by hand.
StartRevivesNothing ==
  [][(\E p \in Processes : at'[p] # at[p]) =>
       \A k \in Keys : InTable(k) => rows'[k] = rows[k]]_vars

\* A process serves only with its bootstrap key on record, so that somebody
\* can register jobs, however many processes start at once and fail.
ServesWithAdmin ==
  \A p \in Processes : at[p] = "serving" /\ conf[p] # None => InTable(conf[p])

\* "Seed an admin API key if no admin key exists yet."
SeedsOnlyTheFirst ==
  [][\A p \in Processes :
       at[p] # "seeding" /\ at'[p] = "seeding" =>
         \A k \in Keys : Active(k) => "admin" \notin rows[k].scopes]_vars
===============================================================================
