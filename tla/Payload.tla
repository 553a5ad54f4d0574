-------------------------------- MODULE Payload --------------------------------
(***************************************************************************)
(* The payload_mapping of a job: what is accepted when the job is          *)
(* registered (src/app/api/schemas.py) and how it shapes a submission for  *)
(* delivery (src/app/payload.py). Field by field, a dotted path is walked  *)
(* from the raw submission, which ends in a value, in nothing or in an     *)
(* exception that classify() then judges (see Failures).                   *)
(*                                                                         *)
(* The values of the JSON are nodes: a node is a dict, a list or a scalar, *)
(* and a dict or a list has nodes under its keys or positions.             *)
(***************************************************************************)
EXTENDS Naturals, Sequences

CONSTANTS
  Segments,     \* what may stand between two dots, "" included
  Digits,       \* the segments str.isdigit accepts ...
  Index,        \* ... and the number int() reads in those it accepts
  Dict, List,   \* [node -> what is under its keys], [node -> sequence of nodes]
  Documents,    \* raw submissions, which are dicts
  Attachments,  \* the nodes the adapter makes of a submission
  Data, Metadata,
  Requested,    \* mappings asked for through the API
  ByHand,       \* mappings that came into the table another way
  Missing, None

Modes == {"raw", "parsed", "map"}

\* A spec of kind "text" or "object"; "other" is any other JSON. The path <<>>
\* is the empty string, and None is no string at all.
IsSpec(s) ==
  /\ DOMAIN s = {"kind", "path", "default"}
  /\ s.kind \in {"text", "object", "other"}
  /\ s.path = None \/ s.path \in Seq(Segments)
  /\ s.kind = "text" => s.path # None /\ s.default = Missing

\* NULL is [mode |-> "raw"], and what is no JSON object is no known mode.
IsMapping(m) ==
  /\ DOMAIN m = {"mode", "fields", "includeAttachments"}
  /\ m.includeAttachments \in BOOLEAN
  /\ m.fields # None => \A k \in DOMAIN m.fields : k # None /\ IsSpec(m.fields[k])

\* What lies under something. None of it is the sentinel of an absent value.
Nodes ==
  (UNION {{Dict[n][s] : s \in DOMAIN Dict[n]} : n \in DOMAIN Dict})
  \cup (UNION {{List[n][i] : i \in 1 .. Len(List[n])} : n \in DOMAIN List})

ASSUME PayloadAssumption ==
  /\ Digits \subseteq Segments
  /\ DOMAIN Index \subseteq Digits /\ \A s \in DOMAIN Index : Index[s] \in Nat
  /\ "" \in Segments \ Digits
  /\ Documents \subseteq DOMAIN Dict
  /\ DOMAIN Dict \cap DOMAIN List = {}
  /\ \A n \in DOMAIN List : Len(List[n]) \in Nat
  /\ Missing \notin Nodes
  /\ \A m \in Requested \cup ByHand : IsMapping(m)

VARIABLES
  mapping,   \* of the job
  doc,       \* the submission at hand
  todo,      \* keys not yet looked at
  key,       \* the one being resolved, or None
  rest,      \* segments of its path still to walk
  current,   \* the node reached
  out,       \* the object being built
  result     \* "idle", "walking", or how it ended

vars == <<mapping, doc, todo, key, rest, current, out, result>>

Results == {"idle", "walking", "shaped", "DestinationConfigError", "ValueError"}

TypeOK ==
  /\ mapping \in Requested \cup ByHand
  /\ doc \in Documents \cup {None}
  /\ result \in Results
  /\ result = "walking" =>
       /\ mapping.fields # None /\ todo \subseteq DOMAIN mapping.fields
       /\ key # None => key \in DOMAIN mapping.fields \ todo /\ rest \in Seq(Segments)

Init ==
  /\ mapping \in ByHand
  /\ doc = None /\ todo = {} /\ key = None /\ rest = <<>> /\ current = None
  /\ out = <<>> /\ result = "idle"

-------------------------------------------------------------------------------
(* Registration.                                                           *)

\* A path that is a non-empty string.
UsablePath(s) == s.path \notin {None, <<>>}

\* Mutant: the path of an object is not looked at.
Accepts_TextOnly(m) ==
  /\ m.mode \in Modes
  /\ m.mode = "map" =>
       /\ m.fields # None /\ DOMAIN m.fields # {}
       /\ \A k \in DOMAIN m.fields : m.fields[k].kind = "text" => UsablePath(m.fields[k])

Accepts(m) ==
  /\ m.mode \in Modes
  /\ m.mode = "map" =>
       /\ m.fields # None /\ DOMAIN m.fields # {}
       /\ \A k \in DOMAIN m.fields : m.fields[k].kind # "other" /\ UsablePath(m.fields[k])

\* POST, PUT or PATCH; a delivery under way keeps the mapping it has loaded.
Register(m) ==
  /\ result # "walking"
  /\ Accepts(m)
  /\ mapping' = m
  /\ doc' = None /\ out' = <<>> /\ result' = "idle"
  /\ UNCHANGED <<todo, key, rest, current>>

-------------------------------------------------------------------------------
(* Shaping.                                                                *)

Parsed == [data |-> Data, attachments |-> Attachments, metadata |-> Metadata]

With(object, k, value) == [x \in DOMAIN object \cup {k} |-> IF x = k THEN value ELSE object[x]]

Begin(d) ==
  /\ result # "walking"
  /\ doc' = d
  /\ \/ /\ mapping.mode = "raw"
        /\ out' = Dict[d] /\ result' = "shaped" /\ UNCHANGED todo
     \/ /\ mapping.mode = "parsed"
        /\ out' = Parsed /\ result' = "shaped" /\ UNCHANGED todo
     \/ /\ mapping.mode = "map" /\ mapping.fields # None
        /\ out' = <<>> /\ result' = "walking" /\ todo' = DOMAIN mapping.fields
     \/ /\ mapping.mode = "map" => mapping.fields = None
        /\ mapping.mode \notin {"raw", "parsed"}
        /\ out' = <<>> /\ result' = "DestinationConfigError" /\ UNCHANGED todo
  /\ UNCHANGED <<mapping, key, rest, current>>

Leave(error) ==
  /\ result' = error
  /\ todo' = {} /\ key' = None /\ rest' = <<>> /\ current' = None /\ out' = <<>>
  /\ UNCHANGED <<mapping, doc>>

\* A text is taken as it is: the empty one splits into one empty segment.
Bad(s) == s.kind = "other" \/ (s.kind = "object" /\ ~UsablePath(s))
Split(path) == IF path = <<>> THEN <<"">> ELSE path

\* Mutant: a field that cannot be read is passed over.
Take_Skips(k) ==
  /\ result = "walking" /\ key = None /\ k \in todo
  /\ LET s == mapping.fields[k] IN
     /\ todo' = todo \ {k}
     /\ IF Bad(s) THEN UNCHANGED <<key, rest, current>>
        ELSE key' = k /\ rest' = Split(s.path) /\ current' = doc
     /\ UNCHANGED <<mapping, doc, out, result>>

\* Mutant: a field taken is not struck off.
Take_Keeps(k) ==
  /\ result = "walking" /\ key = None /\ k \in todo
  /\ LET s == mapping.fields[k] IN
     \/ Bad(s) /\ Leave("DestinationConfigError")
     \/ /\ ~Bad(s)
        /\ key' = k /\ rest' = Split(s.path) /\ current' = doc
        /\ UNCHANGED <<mapping, doc, todo, out, result>>

Take(k) ==
  /\ result = "walking" /\ key = None /\ k \in todo
  /\ LET s == mapping.fields[k] IN
     \/ Bad(s) /\ Leave("DestinationConfigError")
     \/ /\ ~Bad(s)
        /\ todo' = todo \ {k} /\ key' = k
        /\ rest' = Split(s.path) /\ current' = doc
        /\ UNCHANGED <<mapping, doc, out, result>>

\* The path resolved to a value, or to nothing.
Settle(value) ==
  LET found == IF value # Missing THEN value ELSE mapping.fields[key].default
  IN /\ out' = IF found = Missing THEN out ELSE With(out, key, found)
     /\ key' = None /\ rest' = <<>> /\ current' = None
     /\ UNCHANGED <<mapping, doc, todo, result>>

\* Mutant: the last position is out of reach.
InList_OffByOne(i, n) == i + 1 < Len(List[n])

InList(i, n) == i < Len(List[n])

Descend(node) ==
  /\ current' = node /\ rest' = Tail(rest)
  /\ UNCHANGED <<mapping, doc, todo, key, out, result>>

Walk ==
  /\ result = "walking" /\ key # None /\ rest # <<>>
  /\ LET segment == Head(rest) IN
     \/ /\ current \in DOMAIN Dict
        /\ IF segment \in DOMAIN Dict[current] THEN Descend(Dict[current][segment])
                                               ELSE Settle(Missing)
     \/ /\ current \in DOMAIN List /\ segment \notin Digits
        /\ Settle(Missing)
     \/ /\ current \in DOMAIN List /\ segment \in Digits \ DOMAIN Index
        /\ Leave("ValueError")
     \/ /\ current \in DOMAIN List /\ segment \in DOMAIN Index
        /\ IF InList(Index[segment], current) THEN Descend(List[current][Index[segment] + 1])
                                              ELSE Settle(Missing)
     \/ /\ current \notin DOMAIN Dict \cup DOMAIN List
        /\ Settle(Missing)

Resolved ==
  /\ result = "walking" /\ key # None /\ rest = <<>>
  /\ Settle(current)

Finish ==
  /\ result = "walking" /\ key = None /\ todo = {}
  /\ out' = IF mapping.includeAttachments THEN With(out, "attachments", Attachments) ELSE out
  /\ result' = "shaped"
  /\ UNCHANGED <<mapping, doc, todo, key, rest, current>>

Next ==
  \/ \E m \in Requested : Register(m)
  \/ \E d \in Documents : Begin(d)
  \/ \E k \in todo : Take(k)
  \/ Walk \/ Resolved \/ Finish

Spec == Init /\ [][Next]_vars

-------------------------------------------------------------------------------
\* What a path names, without walking it: the end of a trail of nodes, each of
\* which lies under the one before it.
Children(n) ==
  IF n \in DOMAIN Dict THEN DOMAIN Dict[n]
  ELSE IF n \in DOMAIN List THEN {s \in DOMAIN Index : Index[s] < Len(List[n])}
  ELSE {}

Child(n, s) == IF n \in DOMAIN Dict THEN Dict[n][s] ELSE List[n][Index[s] + 1]

Reached(d, t, i) == IF i = 0 THEN d ELSE t[i]

Follows(d, t, path, i) ==
  /\ path[i] \in Children(Reached(d, t, i - 1))
  /\ t[i] = Child(Reached(d, t, i - 1), path[i])

Trails(d, path) ==
  {t \in [1 .. Len(path) -> Nodes] : \A i \in 1 .. Len(path) : Follows(d, t, path, i)}

\* A mapping that was accepted shapes every submission: "bad configs are
\* rejected at registration".
AcceptedIsShaped == Accepts(mapping) => result \notin {"DestinationConfigError", "ValueError"}

\* No path has a segment that isdigit accepts and int does not.
Readable(m) ==
  m.fields # None =>
    \A k \in DOMAIN m.fields : m.fields[k].path # None =>
      \A i \in DOMAIN m.fields[k].path : m.fields[k].path[i] \in DOMAIN Index \cup (Segments \ Digits)

\* The registration and the interpreter agree on what a mapping may hold, such
\* segments apart.
AcceptedIsShapedIfReadable ==
  Accepts(mapping) /\ Readable(mapping) => result \notin {"DestinationConfigError", "ValueError"}

Sound(m) ==
  \/ m.mode \in {"raw", "parsed"}
  \/ m.mode = "map" /\ m.fields # None /\ \A k \in DOMAIN m.fields : ~Bad(m.fields[k])

\* A mapping that nobody checked is at fault for every submission or for none,
\* which is why classify() lets it end the job's pass and no submission's
\* attempts: the fields looked at first, and what they find, change nothing.
FaultIsTheJobs ==
  /\ result = "DestinationConfigError" => ~Sound(mapping)
  /\ result = "shaped" => Sound(mapping)

Holds(k, value) == k \in DOMAIN out /\ out[k] = value

\* The field is what its path names in the submission, or its default.
FieldIsRight(k) ==
  LET spec == mapping.fields[k]
      path == Split(spec.path)
  IN /\ \A t \in Trails(doc, path) : Holds(k, t[Len(path)])
     /\ Trails(doc, path) = {} => IF spec.default = Missing THEN k \notin DOMAIN out
                                                           ELSE Holds(k, spec.default)

\* The object has under each field what its path names in the submission, null
\* included, or the default where it names nothing, and no other key.
FieldsAreWhatPathsName ==
  result = "shaped" /\ mapping.mode = "map" =>
    LET appended == IF mapping.includeAttachments THEN {"attachments"} ELSE {}
    IN /\ DOMAIN out \subseteq DOMAIN mapping.fields \cup appended
       /\ \A k \in DOMAIN mapping.fields \ appended : FieldIsRight(k)
       /\ \A k \in appended : Holds(k, Attachments)
===============================================================================
