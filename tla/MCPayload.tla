------------------------------- MODULE MCPayload -------------------------------
(* Instances of Payload for TLC. *)
EXTENDS Payload, TLC

\* Two submissions: one with nested dicts, a list of dicts and a null, and one
\* in which the list is a scalar and the dict under "a" is a list.
MCDict ==
  "doc1" :> ("a" :> "obj" @@ "l" :> "list" @@ "n" :> "null" @@ "" :> "blank")
  @@ "doc2" :> ("a" :> "list2" @@ "l" :> "null")
  @@ "obj" :> ("a" :> "leaf" @@ "0" :> "zero")
  @@ "item" :> ("a" :> "deep")
MCList == "list" :> <<"item", "null">> @@ "list2" :> <<"last">>

MCSegments == {"a", "l", "n", "x", "", "0", "00", "1", "2", "sup"}

\* "00" is read as "0" is; "sup" stands for a superscript digit.
AllRead == "0" :> 0 @@ "00" :> 0 @@ "1" :> 1 @@ "2" :> 2

SomeUnread == DOMAIN AllRead \cup {"sup"}

Text(path) == [kind |-> "text", path |-> path, default |-> Missing]
Object(path, default) == [kind |-> "object", path |-> path, default |-> default]
Other == [kind |-> "other", path |-> None, default |-> Missing]

Mapping(mode, fields, attach) == [mode |-> mode, fields |-> fields, includeAttachments |-> attach]

Paths == {<<"a">>, <<"n">>, <<"a", "a">>, <<"a", "0">>, <<"l", "0", "a">>, <<"l", "00", "a">>,
          <<"l", "1">>, <<"l", "2">>, <<"l", "x">>, <<"n", "a">>, <<"a", "">>, <<"x">>,
          <<"l", "sup">>}
Specs == {Text(p) : p \in Paths} \cup {Object(p, d) : p \in Paths, d \in {Missing, "dflt"}}
BadSpecs == {Text(<<>>), Object(<<>>, Missing), Object(None, "dflt"), Other}

MCRequested ==
  {Mapping(mode, None, FALSE) : mode \in {"raw", "parsed", "map", "unknown"}}
  \cup {Mapping("map", "k" :> s, FALSE) : s \in Specs \cup BadSpecs}
  \cup {Mapping("map", "k" :> s @@ "attachments" :> Text(<<"l", "1">>), b) :
          s \in Specs \cup BadSpecs, b \in BOOLEAN}

MCByHand ==
  {Mapping(mode, None, FALSE) : mode \in {"raw", "map", "unknown"}}
  \cup {Mapping("map", "k" :> s @@ "k2" :> t, FALSE) :
          s \in BadSpecs \cup {Text(<<"l", "0">>)}, t \in BadSpecs \cup {Text(<<"a">>)}}

\* No more than a path with such a segment.
OddRequested == {Mapping("map", "k" :> Text(<<"l", "sup">>), FALSE)}
===============================================================================
