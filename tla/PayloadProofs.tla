----------------------------- MODULE PayloadProofs -----------------------------
(***************************************************************************)
(* That the validator and the interpreter of a mapping agree, and that a   *)
(* shaped object holds what its paths name, for any mappings, submissions  *)
(* and paths.                                                              *)
(***************************************************************************)
EXTENDS Payload, TLAPS

\* What int reads, or isdigit refuses.
Plain == DOMAIN Index \cup (Segments \ Digits)

\* A shaping under way has met no field it cannot read, and the path it walks
\* is plain if all of the mapping's are.
Underway ==
  result = "walking" =>
    /\ mapping.mode = "map" /\ mapping.fields # None
    /\ todo \subseteq DOMAIN mapping.fields
    /\ \A k \in DOMAIN mapping.fields \ todo : ~Bad(mapping.fields[k])
    /\ key # None => /\ key \in DOMAIN mapping.fields \ todo
                     /\ rest \in Seq(Segments)
                     /\ Readable(mapping) => \A i \in DOMAIN rest : rest[i] \in Plain

\* How a shaping ended tells of its mapping.
Ended ==
  /\ FaultIsTheJobs
  /\ result = "ValueError" => ~Readable(mapping)

Inv ==
  /\ mapping \in Requested \cup ByHand
  /\ doc \in Documents \cup {None} /\ result \in Results
  /\ Underway /\ Ended
  /\ result # "walking" => key = None

LEMMA SingleIsPlain ==
  ASSUME NEW e \in Segments \ Digits
  PROVE  <<e>> \in Seq(Segments) /\ \A i \in DOMAIN <<e>> : <<e>>[i] \in Plain
  <1>1. <<e>> \in Seq(Segments)
    OBVIOUS
  <1>2. ASSUME NEW i \in DOMAIN <<e>> PROVE <<e>>[i] \in Plain
    <2>1. i = 1
      OBVIOUS
    <2>2. QED
      BY <2>1 DEF Plain
  <1>3. QED
    BY <1>1, <1>2

LEMMA SplitIsPlain ==
  ASSUME NEW s, IsSpec(s), ~Bad(s)
  PROVE  /\ Split(s.path) \in Seq(Segments)
         /\ (\A i \in DOMAIN s.path : s.path[i] \in Plain) =>
              \A i \in DOMAIN Split(s.path) : Split(s.path)[i] \in Plain
  <1>. USE PayloadAssumption
  <1>1. s.path \in Seq(Segments)
    BY DEF IsSpec, Bad, UsablePath
  <1>2. CASE s.path = <<>>
    <2>1. Split(s.path) = <<"">>
      BY <1>2 DEF Split
    <2>2. QED
      BY <2>1, SingleIsPlain
  <1>3. CASE s.path # <<>>
    BY <1>1, <1>3 DEF Split
  <1>4. QED
    BY <1>2, <1>3

\* A field that is settled leaves the rest of the shaping as it was.
LEMMA SettleStep ==
  ASSUME Inv, result = "walking", NEW value, Settle(value)
  PROVE  Inv'
  <1>1. UNCHANGED <<mapping, doc, todo, result>> /\ key' = None
    BY DEF Settle
  <1>2. Underway'
    BY <1>1 DEF Inv, Underway
  <1>3. Ended'
    BY <1>1 DEF Inv, Ended, FaultIsTheJobs
  <1>4. QED
    BY <1>1, <1>2, <1>3 DEF Inv

LEMMA DescendStep ==
  ASSUME Inv, result = "walking", key # None, rest # <<>>, NEW node, Descend(node)
  PROVE  Inv'
  <1>1. UNCHANGED <<mapping, doc, todo, key, result>> /\ rest' = Tail(rest)
    BY DEF Descend
  <1>2. rest \in Seq(Segments)
    BY DEF Inv, Underway
  <1>3. Tail(rest) \in Seq(Segments)
        /\ \A i \in DOMAIN Tail(rest) : i + 1 \in DOMAIN rest /\ Tail(rest)[i] = rest[i + 1]
    BY <1>2
  <1>4. Underway'
    BY <1>1, <1>3 DEF Inv, Underway
  <1>5. Ended'
    BY <1>1 DEF Inv, Ended, FaultIsTheJobs
  <1>6. QED
    BY <1>1, <1>4, <1>5 DEF Inv

\* An interpreter that leaves names what is wrong with the mapping.
LEMMA LeaveStep ==
  ASSUME Inv, NEW error \in {"DestinationConfigError", "ValueError"}, Leave(error),
         error = "DestinationConfigError" => ~Sound(mapping),
         error = "ValueError" => ~Readable(mapping)
  PROVE  Inv'
  <1>1. UNCHANGED <<mapping, doc>> /\ result' = error
    BY DEF Leave
  <1>2. Underway'
    BY <1>1 DEF Underway
  <1>3. Ended'
    BY <1>1 DEF Ended, FaultIsTheJobs
  <1>4. QED
    BY <1>1, <1>2, <1>3 DEF Inv, Results, Leave

LEMMA TakeStep ==
  ASSUME Inv, NEW k \in todo, Take(k)
  PROVE  Inv'
  <1>. DEFINE s == mapping.fields[k]
  <1>1. /\ result = "walking" /\ mapping.mode = "map" /\ mapping.fields # None
        /\ k \in DOMAIN mapping.fields /\ IsSpec(s)
    BY PayloadAssumption DEF Inv, Underway, Take, IsMapping
  <1>2. CASE Bad(s) /\ Leave("DestinationConfigError")
    <2>1. ~Sound(mapping)
      BY <1>1, <1>2 DEF Sound
    <2>2. QED
      BY <1>2, <2>1, LeaveStep
  <1>3. CASE /\ ~Bad(s)
             /\ todo' = todo \ {k} /\ key' = k /\ rest' = Split(s.path)
             /\ UNCHANGED <<mapping, doc, out, result>>
    <2>1. Split(s.path) \in Seq(Segments)
      BY <1>1, <1>3, SplitIsPlain
    <2>2. Readable(mapping) => \A i \in DOMAIN Split(s.path) : Split(s.path)[i] \in Plain
      <3>1. s.path # None
        BY <1>1, <1>3 DEF IsSpec, Bad, UsablePath
      <3>2. Readable(mapping) => \A i \in DOMAIN s.path : s.path[i] \in Plain
        BY <1>1, <3>1 DEF Readable, Plain
      <3>3. QED
        BY <1>1, <1>3, <3>2, SplitIsPlain
    <2>3. Underway'
      BY <1>1, <1>3, <2>1, <2>2 DEF Inv, Underway
    <2>4. Ended'
      BY <1>3 DEF Inv, Ended, FaultIsTheJobs
    <2>5. QED
      BY <1>1, <1>3, <2>3, <2>4 DEF Inv
  <1>4. QED
    BY <1>2, <1>3 DEF Take

LEMMA WalkStep ==
  ASSUME Inv, Walk
  PROVE  Inv'
  <1>1. result = "walking" /\ key # None /\ rest # <<>>
    BY DEF Walk
  <1>2. rest \in Seq(Segments) /\ 1 \in DOMAIN rest /\ Head(rest) = rest[1]
    BY <1>1 DEF Inv, Underway
  <1>3. \/ \E node : Descend(node)
        \/ \E value : Settle(value)
        \/ Head(rest) \in Digits \ DOMAIN Index /\ Leave("ValueError")
    BY DEF Walk
  <1>4. ASSUME Head(rest) \in Digits \ DOMAIN Index, Leave("ValueError")
        PROVE  Inv'
    <2>1. ~Readable(mapping)
      BY <1>1, <1>2, <1>4 DEF Inv, Underway, Plain
    <2>2. QED
      BY <1>4, <2>1, LeaveStep
  <1>5. QED
    BY <1>1, <1>3, <1>4, DescendStep, SettleStep

LEMMA RegisterStep ==
  ASSUME Inv, NEW m \in Requested, Register(m)
  PROVE  Inv'
  BY DEF Inv, Register, Underway, Ended, FaultIsTheJobs, Results

LEMMA BeginStep ==
  ASSUME Inv, NEW d \in Documents, Begin(d)
  PROVE  Inv'
  <1>1. mapping' = mapping /\ doc' = d /\ key' = key /\ key = None
    BY DEF Begin, Inv
  <1>2. CASE mapping.mode \in {"raw", "parsed"} /\ result' = "shaped"
    BY <1>1, <1>2 DEF Inv, Underway, Ended, FaultIsTheJobs, Sound, Results
  <1>3. CASE /\ mapping.mode = "map" /\ mapping.fields # None
             /\ result' = "walking" /\ todo' = DOMAIN mapping.fields
    BY <1>1, <1>3 DEF Inv, Underway, Ended, FaultIsTheJobs, Results
  <1>4. CASE /\ mapping.mode = "map" => mapping.fields = None
             /\ mapping.mode \notin {"raw", "parsed"}
             /\ result' = "DestinationConfigError"
    BY <1>1, <1>4 DEF Inv, Underway, Ended, FaultIsTheJobs, Sound, Results
  <1>5. QED
    BY <1>2, <1>3, <1>4 DEF Begin

LEMMA FinishStep ==
  ASSUME Inv, Finish
  PROVE  Inv'
  <1>1. /\ UNCHANGED <<mapping, doc, todo, key>> /\ result' = "shaped"
        /\ result = "walking" /\ key = None /\ todo = {}
    BY DEF Finish
  <1>2. Sound(mapping)
    BY <1>1 DEF Inv, Underway, Sound
  <1>3. QED
    BY <1>1, <1>2 DEF Inv, Underway, Ended, FaultIsTheJobs, Results

LEMMA InvInductive == Spec => []Inv
  <1>1. Init => Inv
    BY DEF Init, Inv, Underway, Ended, FaultIsTheJobs, Results
  <1>2. Inv /\ [Next]_vars => Inv'
    <2>. SUFFICES ASSUME Inv, [Next]_vars PROVE Inv'
      OBVIOUS
    <2>1. ASSUME Resolved PROVE Inv'
      BY <2>1, SettleStep DEF Resolved
    <2>2. CASE UNCHANGED vars
      BY <2>2 DEF vars, Inv, Underway, Ended, FaultIsTheJobs
    <2>3. QED
      BY <2>1, <2>2, RegisterStep, BeginStep, TakeStep, WalkStep, FinishStep DEF Next
  <1>3. QED
    BY <1>1, <1>2, PTL DEF Spec

\* The state of a shaping keeps its type.
THEOREM PayloadTypes == Spec => []TypeOK
  <1>1. Inv => TypeOK
    BY DEF Inv, Underway, TypeOK
  <1>2. QED
    BY <1>1, InvInductive, PTL

\* The validator accepts no mapping that the interpreter would trip over, but
\* for path segments that isdigit accepts and int does not: it is read against
\* the code of both, for any mapping and submission.
THEOREM AcceptedMappingsShape == Spec => []AcceptedIsShapedIfReadable
  <1>1. \A m : Accepts(m) => Sound(m)
    BY DEF Accepts, Sound, Bad, UsablePath, Modes
  <1>2. Inv => AcceptedIsShapedIfReadable
    BY <1>1 DEF Inv, Ended, FaultIsTheJobs, AcceptedIsShapedIfReadable
  <1>3. QED
    BY <1>2, InvInductive, PTL

\* A faulty mapping ends the job's pass whatever the submission and the order
\* of the fields, and a sound one never does.
THEOREM FaultsAreTheJobs == Spec => []FaultIsTheJobs
  <1>1. Inv => FaultIsTheJobs
    BY DEF Inv, Ended
  <1>2. QED
    BY <1>1, InvInductive, PTL

-------------------------------------------------------------------------------
(* What the fields of a shaped object hold.                                *)

\* The first n segments of the path lead to the node, and it is where every
\* trail of the whole path is by then.
Leads(d, path, n, node) ==
  /\ \E t \in [1 .. n -> Nodes] :
       (\A i \in 1 .. n : Follows(d, t, path, i)) /\ node = Reached(d, t, n)
  /\ \A t \in Trails(d, path) : node = Reached(d, t, n)

LEMMA UnderADict ==
  ASSUME NEW n \in DOMAIN Dict, NEW s \in DOMAIN Dict[n]
  PROVE  Dict[n][s] \in Nodes
  <1>. DEFINE under(m) == {Dict[m][x] : x \in DOMAIN Dict[m]}
  <1>1. Dict[n][s] \in under(n)
    OBVIOUS
  <1>. HIDE DEF under
  <1>2. Dict[n][s] \in UNION {under(m) : m \in DOMAIN Dict}
    BY <1>1
  <1>3. QED
    BY <1>2 DEF Nodes, under

LEMMA UnderAList ==
  ASSUME NEW n \in DOMAIN List, NEW i \in 1 .. Len(List[n])
  PROVE  List[n][i] \in Nodes
  <1>. DEFINE under(m) == {List[m][j] : j \in 1 .. Len(List[m])}
  <1>1. List[n][i] \in under(n)
    OBVIOUS
  <1>. HIDE DEF under
  <1>2. List[n][i] \in UNION {under(m) : m \in DOMAIN List}
    BY <1>1
  <1>3. QED
    BY <1>2 DEF Nodes, under

LEMMA ChildIsNode ==
  ASSUME NEW n, NEW s \in Children(n)
  PROVE  Child(n, s) \in Nodes
  <1>1. CASE n \in DOMAIN Dict
    BY <1>1, UnderADict DEF Children, Child
  <1>2. CASE n \in DOMAIN List /\ n \notin DOMAIN Dict
    <2>1. s \in DOMAIN Index /\ Index[s] < Len(List[n]) /\ Child(n, s) = List[n][Index[s] + 1]
      BY <1>2 DEF Children, Child
    <2>2. Index[s] \in Nat /\ Len(List[n]) \in Nat
      BY <1>2, <2>1, PayloadAssumption
    <2>3. Index[s] + 1 \in 1 .. Len(List[n])
      BY <2>1, <2>2
    <2>4. QED
      BY <1>2, <2>1, <2>3, UnderAList
  <1>3. QED
    BY <1>1, <1>2 DEF Children

LEMMA LeadsAtFirst ==
  ASSUME NEW d, NEW path
  PROVE  Leads(d, path, 0, d)
  <1>1. [i \in 1 .. 0 |-> d] \in [1 .. 0 -> Nodes] /\ \A i \in 1 .. 0 : FALSE
    OBVIOUS
  <1>2. QED
    BY <1>1 DEF Leads, Reached

LEMMA LeadsNowhere ==
  ASSUME NEW d, NEW path \in Seq(Segments), NEW n \in 0 .. Len(path) - 1, NEW node,
         Leads(d, path, n, node), path[n + 1] \notin Children(node)
  PROVE  Trails(d, path) = {}
  <1>. SUFFICES ASSUME NEW t \in Trails(d, path) PROVE FALSE
    OBVIOUS
  <1>1. n + 1 \in 1 .. Len(path) /\ (n + 1) - 1 = n
    OBVIOUS
  <1>2. Follows(d, t, path, n + 1)
    BY <1>1 DEF Trails
  <1>3. QED
    BY <1>1, <1>2 DEF Leads, Follows

LEMMA LeadsOn ==
  ASSUME NEW d, NEW path \in Seq(Segments), NEW n \in 0 .. Len(path) - 1, NEW node,
         Leads(d, path, n, node), path[n + 1] \in Children(node)
  PROVE  Leads(d, path, n + 1, Child(node, path[n + 1]))
  <1>. DEFINE next == Child(node, path[n + 1])
  <1>1. n + 1 \in 1 .. Len(path) /\ (n + 1) - 1 = n /\ n + 1 # 0
    OBVIOUS
  <1>2. next \in Nodes
    BY ChildIsNode
  <1>3. PICK t \in [1 .. n -> Nodes] :
          (\A i \in 1 .. n : Follows(d, t, path, i)) /\ node = Reached(d, t, n)
    BY DEF Leads
  <1>. DEFINE u == [i \in 1 .. n + 1 |-> IF i = n + 1 THEN next ELSE t[i]]
  <1>4. u \in [1 .. n + 1 -> Nodes] /\ u[n + 1] = next /\ \A i \in 1 .. n : u[i] = t[i]
    BY <1>2
  <1>5. \A i \in 0 .. n : Reached(d, u, i) = Reached(d, t, i)
    BY <1>4 DEF Reached
  <1>. HIDE DEF u
  <1>6. \A i \in 1 .. n + 1 : Follows(d, u, path, i)
    <2>1. ASSUME NEW i \in 1 .. n PROVE Follows(d, u, path, i)
      <3>1. i - 1 \in 0 .. n
        OBVIOUS
      <3>2. QED
        BY <1>3, <1>4, <1>5, <3>1 DEF Follows
    <2>2. Follows(d, u, path, n + 1)
      BY <1>1, <1>3, <1>4, <1>5 DEF Follows
    <2>3. QED
      BY <2>1, <2>2
  <1>7. next = Reached(d, u, n + 1)
    BY <1>1, <1>4 DEF Reached
  <1>8. ASSUME NEW v \in Trails(d, path) PROVE next = Reached(d, v, n + 1)
    <2>1. Follows(d, v, path, n + 1)
      BY <1>1 DEF Trails
    <2>2. node = Reached(d, v, n)
      BY DEF Leads
    <2>3. QED
      BY <1>1, <2>1, <2>2 DEF Follows, Reached
  <1>9. QED
    BY <1>4, <1>6, <1>7, <1>8 DEF Leads

LEMMA LeadsToTheEnd ==
  ASSUME NEW d, NEW path \in Seq(Segments), path # <<>>, NEW node,
         Leads(d, path, Len(path), node)
  PROVE  /\ node # Missing
         /\ Trails(d, path) # {}
         /\ \A t \in Trails(d, path) : t[Len(path)] = node
  <1>1. Len(path) \in Nat /\ Len(path) # 0 /\ Len(path) \in 1 .. Len(path)
    OBVIOUS
  <1>2. PICK t \in [1 .. Len(path) -> Nodes] :
          (\A i \in 1 .. Len(path) : Follows(d, t, path, i)) /\ node = Reached(d, t, Len(path))
    BY DEF Leads
  <1>3. t \in Trails(d, path)
    BY <1>2 DEF Trails
  <1>4. node \in Nodes
    BY <1>1, <1>2 DEF Reached
  <1>5. \A v \in Trails(d, path) : v[Len(path)] = node
    BY <1>1 DEF Leads, Reached
  <1>6. QED
    BY <1>3, <1>4, <1>5, PayloadAssumption

\* A field under way has been followed along its path so far.
Midway ==
  LET path == Split(mapping.fields[key].path)
      walked == Len(path) - Len(rest)
  IN /\ walked \in 0 .. Len(path)
     /\ \A j \in 1 .. Len(rest) : rest[j] = path[walked + j]
     /\ Leads(doc, path, walked, current)

\* The fields done with are what they should be, and there are no others.
Building ==
  result = "walking" =>
    /\ DOMAIN out \subseteq (DOMAIN mapping.fields \ todo) \ {key}
    /\ \A k \in (DOMAIN mapping.fields \ todo) \ {key} : FieldIsRight(k)
    /\ key # None => Midway

\* What a field holds is judged by the object, the submission and the mapping.
LEMMA StillRight ==
  ASSUME UNCHANGED <<mapping, doc>>, NEW k, FieldIsRight(k),
         k \in DOMAIN out <=> k \in DOMAIN out',
         k \in DOMAIN out => out'[k] = out[k]
  PROVE  FieldIsRight(k)'
  <1>1. \A value : Holds(k, value) => Holds(k, value)'
    BY DEF Holds
  <1>2. QED
    BY <1>1 DEF FieldIsRight

\* A field is put down as what the path named, or as the default.
LEMMA SettleBuilds ==
  ASSUME Inv, Building, result = "walking", key # None, NEW value, Settle(value),
         NEW path, path = Split(mapping.fields[key].path),
         value = Missing <=> Trails(doc, path) = {},
         \A t \in Trails(doc, path) : t[Len(path)] = value
  PROVE  Building'
  <1>. DEFINE default == mapping.fields[key].default
              found == IF value # Missing THEN value ELSE default
  <1>1. /\ UNCHANGED <<mapping, doc, todo, result>> /\ key' = None
        /\ out' = IF found = Missing THEN out ELSE With(out, key, found)
    BY DEF Settle
  <1>2. /\ key \in DOMAIN mapping.fields \ todo
        /\ DOMAIN out \subseteq (DOMAIN mapping.fields \ todo) \ {key}
        /\ \A k \in (DOMAIN mapping.fields \ todo) \ {key} : FieldIsRight(k)
    BY DEF Inv, Underway, Building
  <1>. HIDE DEF found
  <1>3. /\ key \in DOMAIN out' <=> found # Missing
        /\ DOMAIN out' \subseteq DOMAIN out \cup {key}
        /\ DOMAIN out \subseteq DOMAIN out' /\ \A k \in DOMAIN out : out'[k] = out[k]
        /\ found # Missing => out'[key] = found
    <2>1. CASE found = Missing
      BY <1>1, <1>2, <2>1
    <2>2. CASE found # Missing
      <3>1. out' = With(out, key, found) /\ key \notin DOMAIN out
        BY <1>1, <1>2, <2>2
      <3>2. QED
        BY <2>2, <3>1 DEF With
    <2>3. QED
      BY <2>1, <2>2
  <1>4. ASSUME NEW k, k = key PROVE FieldIsRight(k)'
    <2>1. ASSUME NEW t \in Trails(doc, path)
          PROVE  k \in DOMAIN out' /\ out'[k] = t[Len(path)]
      <3>1. value # Missing /\ t[Len(path)] = value
        BY <2>1
      <3>2. found = value
        BY <3>1 DEF found
      <3>3. QED
        BY <1>3, <1>4, <3>1, <3>2
    <2>2. ASSUME Trails(doc, path) = {}
          PROVE  IF default = Missing THEN k \notin DOMAIN out'
                                      ELSE k \in DOMAIN out' /\ out'[k] = default
      <3>1. found = default
        BY <2>2 DEF found
      <3>2. QED
        BY <1>3, <1>4, <3>1
    <2>3. path = Split(mapping'.fields[k].path) /\ default = mapping'.fields[k].default /\ doc' = doc
      BY <1>1, <1>4
    <2>. HIDE DEF default
    <2>4. QED
      BY <2>1, <2>2, <2>3 DEF FieldIsRight, Holds
  <1>5. ASSUME NEW k \in (DOMAIN mapping.fields \ todo) \ {key}
        PROVE  FieldIsRight(k)'
    <2>1. k \in DOMAIN out <=> k \in DOMAIN out'
      BY <1>3, <1>5
    <2>2. QED
      BY <1>1, <1>2, <1>3, <1>5, <2>1, StillRight
  <1>6. None \notin DOMAIN mapping.fields
    BY PayloadAssumption DEF Inv, Underway, IsMapping
  <1>7. /\ DOMAIN out' \subseteq (DOMAIN mapping.fields \ todo) \ {None}
        /\ \A k \in (DOMAIN mapping.fields \ todo) \ {None} : FieldIsRight(k)'
    BY <1>2, <1>3, <1>4, <1>5, <1>6
  <1>8. QED
    BY <1>1, <1>7 DEF Building

\* The fields done with are not touched by a step on the way.
LEMMA OnTheWay ==
  ASSUME Inv, Building, result = "walking", UNCHANGED <<mapping, doc, out>>,
         DOMAIN mapping.fields \ todo' \subseteq (DOMAIN mapping.fields \ todo) \cup {key'},
         todo' \subseteq todo, key # None => key' = key,
         DOMAIN out \subseteq (DOMAIN mapping.fields \ todo') \ {key'},
         key' # None => Midway'
  PROVE  Building'
  <1>1. ASSUME NEW k \in (DOMAIN mapping.fields \ todo') \ {key'}
        PROVE  FieldIsRight(k)'
    <2>1. None \notin DOMAIN mapping.fields
      BY PayloadAssumption DEF Inv, Underway, IsMapping
    <2>2. FieldIsRight(k)
      BY <2>1 DEF Building
    <2>3. QED
      BY <2>2, StillRight
  <1>2. QED
    BY <1>1 DEF Building

\* Where a field under way stands on its path.
LEMMA OnItsPath ==
  ASSUME Inv, Building, result = "walking", key # None,
         NEW path, path = Split(mapping.fields[key].path)
  PROVE  /\ path \in Seq(Segments) /\ path # <<>> /\ rest \in Seq(Segments)
         /\ Len(path) - Len(rest) \in 0 .. Len(path)
         /\ \A j \in 1 .. Len(rest) : rest[j] = path[Len(path) - Len(rest) + j]
         /\ Leads(doc, path, Len(path) - Len(rest), current)
  <1>1. key \in DOMAIN mapping.fields \ todo /\ rest \in Seq(Segments)
    BY DEF Inv, Underway
  <1>2. IsSpec(mapping.fields[key]) /\ ~Bad(mapping.fields[key])
    BY <1>1, PayloadAssumption DEF Inv, Underway, IsMapping
  <1>3. path \in Seq(Segments)
    BY <1>2, SplitIsPlain
  <1>4. path # <<>>
    BY DEF Split
  <1>5. QED
    BY <1>1, <1>3, <1>4 DEF Building, Midway

LEMMA DescendBuilds ==
  ASSUME Inv, Building, result = "walking", key # None, rest # <<>>,
         Head(rest) \in Children(current), Descend(Child(current, Head(rest)))
  PROVE  Building'
  <1>. DEFINE path == Split(mapping.fields[key].path)
              walked == Len(path) - Len(rest)
  <1>1. /\ UNCHANGED <<mapping, doc, todo, key, out, result>>
        /\ rest' = Tail(rest) /\ current' = Child(current, Head(rest))
    BY DEF Descend
  <1>2. rest \in Seq(Segments) /\ DOMAIN out \subseteq (DOMAIN mapping.fields \ todo) \ {key}
    BY DEF Inv, Underway, Building
  <1>3. path \in Seq(Segments)
    BY OnItsPath
  <1>4. walked \in 0 .. Len(path) /\ Leads(doc, path, walked, current)
    BY OnItsPath
  <1>5. \A j \in 1 .. Len(rest) : rest[j] = path[walked + j]
    BY OnItsPath
  <1>. HIDE DEF path
  <1>6. /\ Head(rest) = rest[1] /\ 1 \in 1 .. Len(rest)
        /\ Len(Tail(rest)) = Len(rest) - 1 /\ Len(rest) \in Nat
        /\ \A j \in 1 .. Len(rest) - 1 : Tail(rest)[j] = rest[j + 1]
    BY <1>2
  <1>7. Len(path) \in Nat
    BY <1>3
  <1>8. walked \in 0 .. Len(path) - 1 /\ path[walked + 1] = Head(rest)
    BY <1>4, <1>5, <1>6, <1>7
  <1>9. Leads(doc, path, walked + 1, Child(current, Head(rest)))
    BY <1>3, <1>4, <1>8, LeadsOn
  <1>10. Midway'
    <2>1. Len(path) - Len(rest') = walked + 1
      BY <1>1, <1>6, <1>7
    <2>2. \A j \in 1 .. Len(rest') : rest'[j] = path[(walked + 1) + j]
      <3>. SUFFICES ASSUME NEW j \in 1 .. Len(rest) - 1
                    PROVE  rest'[j] = path[(walked + 1) + j]
        BY <1>1, <1>6
      <3>1. j + 1 \in 1 .. Len(rest) /\ (walked + 1) + j = walked + (j + 1)
        BY <1>6, <1>7, <1>8
      <3>2. QED
        BY <1>1, <1>5, <1>6, <3>1
    <2>3. walked + 1 \in 0 .. Len(path)
      BY <1>7, <1>8
    <2>4. path = Split(mapping.fields[key].path)'
      BY <1>1 DEF path, Split
    <2>. HIDE DEF walked
    <2>5. QED
      BY <1>1, <1>9, <2>1, <2>2, <2>3, <2>4 DEF Midway
  <1>11. QED
    BY <1>1, <1>2, <1>10, OnTheWay DEF Building

LEMMA TakeBuilds ==
  ASSUME Inv, Building, NEW k \in todo, Take(k)
  PROVE  Building'
  <1>. DEFINE path == Split(mapping.fields[k].path)
  <1>1. CASE Bad(mapping.fields[k]) /\ Leave("DestinationConfigError")
    BY <1>1 DEF Leave, Building
  <1>2. CASE /\ ~Bad(mapping.fields[k])
             /\ todo' = todo \ {k} /\ key' = k /\ rest' = path /\ current' = doc
             /\ UNCHANGED <<mapping, doc, out, result>>
    <2>1. result = "walking" /\ key = None /\ k \in DOMAIN mapping.fields
      BY DEF Take, Inv, Underway
    <2>2. IsSpec(mapping.fields[k])
      BY <2>1, PayloadAssumption DEF Inv, Underway, IsMapping
    <2>3. path \in Seq(Segments)
      BY <1>2, <2>2, SplitIsPlain
    <2>4. path = Split(mapping'.fields[key'].path)
      BY <1>2
    <2>. HIDE DEF path
    <2>5. Len(path) - Len(rest') = 0 /\ 0 \in 0 .. Len(path)
          /\ \A j \in 1 .. Len(rest') : rest'[j] = path[0 + j]
      BY <1>2, <2>3
    <2>6. Leads(doc', path, 0, current')
      BY <1>2, LeadsAtFirst
    <2>7. Midway'
      BY <2>4, <2>5, <2>6 DEF Midway
    <2>8. DOMAIN out \subseteq DOMAIN mapping.fields \ todo
      BY <2>1 DEF Building
    <2>9. QED
      BY <1>2, <2>1, <2>7, <2>8, OnTheWay
  <1>3. QED
    BY <1>1, <1>2 DEF Take

\* Every way out of a step along a path, by whether there is a way on.
LEMMA WalkCases ==
  ASSUME Walk
  PROVE  \/ Head(rest) \in Children(current) /\ Descend(Child(current, Head(rest)))
         \/ Head(rest) \notin Children(current) /\ Settle(Missing)
         \/ Leave("ValueError")
  BY PayloadAssumption DEF Walk, Children, Child, InList

LEMMA WalkBuilds ==
  ASSUME Inv, Building, Walk
  PROVE  Building'
  <1>1. result = "walking" /\ key # None /\ rest # <<>>
    BY DEF Walk
  <1>2. ASSUME Head(rest) \notin Children(current), Settle(Missing)
        PROVE  Building'
    <2>1. PICK path : path = Split(mapping.fields[key].path)
      OBVIOUS
    <2>2. PICK n : n = Len(path) - Len(rest)
      OBVIOUS
    <2>3. /\ path \in Seq(Segments) /\ rest \in Seq(Segments)
          /\ n \in 0 .. Len(path) /\ Leads(doc, path, n, current)
          /\ \A j \in 1 .. Len(rest) : rest[j] = path[n + j]
      BY <1>1, <2>1, <2>2, OnItsPath
    <2>4. Len(path) \in Nat /\ Len(rest) \in Nat \ {0} /\ Head(rest) = rest[1]
      BY <1>1, <2>3
    <2>5. n \in 0 .. Len(path) - 1 /\ path[n + 1] = Head(rest)
      BY <2>2, <2>3, <2>4
    <2>6. Trails(doc, path) = {}
      BY <1>2, <2>3, <2>5, LeadsNowhere
    <2>7. QED
      BY <1>1, <1>2, <2>1, <2>6, SettleBuilds
  <1>3. ASSUME Leave("ValueError") PROVE Building'
    BY <1>3 DEF Leave, Building
  <1>4. QED
    BY <1>1, <1>2, <1>3, WalkCases, DescendBuilds

LEMMA ResolvedBuilds ==
  ASSUME Inv, Building, Resolved
  PROVE  Building'
  <1>1. result = "walking" /\ key # None /\ rest = <<>>
    BY DEF Resolved
  <1>2. PICK value : value = current
    OBVIOUS
  <1>3. PICK path : path = Split(mapping.fields[key].path)
    OBVIOUS
  <1>4. path \in Seq(Segments) /\ path # <<>> /\ Leads(doc, path, Len(path) - 0, current)
    BY <1>1, <1>3, OnItsPath
  <1>5. Len(path) - 0 = Len(path)
    BY <1>4
  <1>6. /\ value # Missing /\ Trails(doc, path) # {}
        /\ \A t \in Trails(doc, path) : t[Len(path)] = value
    BY <1>2, <1>4, <1>5, LeadsToTheEnd
  <1>7. Settle(value)
    BY <1>2 DEF Resolved
  <1>8. QED
    BY <1>1, <1>3, <1>6, <1>7, SettleBuilds

LEMMA BeginBuilds ==
  ASSUME Inv, NEW d \in Documents, Begin(d)
  PROVE  Building' /\ FieldsAreWhatPathsName'
  <1>1. mapping' = mapping /\ key' = key /\ key = None
    BY DEF Begin, Inv
  <1>2. CASE result' # "walking"
    BY <1>1, <1>2 DEF Begin, Building, FieldsAreWhatPathsName
  <1>3. CASE result' = "walking"
    <2>1. todo' = DOMAIN mapping.fields /\ out' = <<>>
      BY <1>3 DEF Begin
    <2>2. DOMAIN out' = {}
      BY <2>1
    <2>3. QED
      BY <1>1, <1>3, <2>1, <2>2 DEF Building, FieldsAreWhatPathsName
  <1>4. QED
    BY <1>2, <1>3

LEMMA FinishFills ==
  ASSUME Inv, Building, Finish
  PROVE  FieldsAreWhatPathsName'
  <1>. DEFINE appended == IF mapping.includeAttachments THEN {"attachments"} ELSE {}
  <1>1. /\ result = "walking" /\ key = None /\ todo = {}
        /\ UNCHANGED <<mapping, doc, todo>>
        /\ out' = IF mapping.includeAttachments THEN With(out, "attachments", Attachments) ELSE out
    BY DEF Finish
  <1>2. None \notin DOMAIN mapping.fields
    BY <1>1, PayloadAssumption DEF Inv, Underway, IsMapping
  <1>3. /\ DOMAIN out \subseteq DOMAIN mapping.fields
        /\ \A k \in DOMAIN mapping.fields : FieldIsRight(k)
    BY <1>1, <1>2 DEF Building
  <1>4. /\ DOMAIN out' = DOMAIN out \cup appended
        /\ \A k \in DOMAIN out \ appended : out'[k] = out[k]
        /\ \A k \in appended : out'[k] = Attachments
    <2>1. CASE mapping.includeAttachments
      BY <1>1, <2>1 DEF With
    <2>2. CASE ~mapping.includeAttachments
      BY <1>1, <2>2
    <2>3. QED
      BY <2>1, <2>2
  <1>. HIDE DEF appended
  <1>5. ASSUME NEW k \in DOMAIN mapping.fields \ appended PROVE FieldIsRight(k)'
    <2>1. FieldIsRight(k) /\ k \notin appended
      BY <1>3, <1>5
    <2>2. /\ k \in DOMAIN out <=> k \in DOMAIN out'
          /\ k \in DOMAIN out => out'[k] = out[k]
      BY <1>4, <2>1
    <2>3. QED
      BY <1>1, <2>1, <2>2, StillRight
  <1>6. appended = IF mapping'.includeAttachments THEN {"attachments"} ELSE {}
    BY <1>1 DEF appended
  <1>7. \A k \in appended : Holds(k, Attachments)'
    BY <1>4 DEF Holds
  <1>8. QED
    BY <1>1, <1>3, <1>4, <1>5, <1>6, <1>7 DEF FieldsAreWhatPathsName

\* A shaped object has under each field of the mapping what its path names in
\* the submission, or the default where the path names nothing, and no other
\* key but the attachments: for any mapping, submission and order of fields.
THEOREM FieldsAreNamed == Spec => []FieldsAreWhatPathsName
  <1>. DEFINE Filled == Building /\ FieldsAreWhatPathsName
  <1>1. Init => Filled
    BY DEF Init, Building, FieldsAreWhatPathsName
  <1>2. Inv /\ Filled /\ [Next]_vars => Filled'
    <2>. SUFFICES ASSUME Inv, Filled, [Next]_vars PROVE Filled'
      OBVIOUS
    <2>1. ASSUME NEW m \in Requested, Register(m) PROVE Filled'
      BY <2>1 DEF Register, Building, FieldsAreWhatPathsName
    <2>2. ASSUME \/ \E k \in todo : Take(k)
                 \/ Walk \/ Resolved
          PROVE  Filled'
      <3>1. Building'
        BY <2>2, TakeBuilds, WalkBuilds, ResolvedBuilds
      <3>2. result' # "shaped"
        BY <2>2 DEF Take, Walk, Resolved, Settle, Descend, Leave
      <3>3. QED
        BY <3>1, <3>2 DEF FieldsAreWhatPathsName
    <2>3. ASSUME Finish PROVE Filled'
      BY <2>3, FinishFills DEF Finish, Building
    <2>4. CASE UNCHANGED vars
      BY <2>4 DEF vars, Building, Midway, FieldIsRight, Holds, FieldsAreWhatPathsName
    <2>5. QED
      BY <2>1, <2>2, <2>3, <2>4, BeginBuilds DEF Next
  <1>3. QED
    BY <1>1, <1>2, InvInductive, PTL DEF Spec
===============================================================================
