---------------------------- MODULE CapabilityInputs ----------------------------
(***************************************************************************)
(* What a client may announce, well-formed or not, and what the server     *)
(* reads from it.                                                          *)
(***************************************************************************)
EXTENDS Inputs
LOCAL INSTANCE Capabilities
LOCAL INSTANCE Integers

Groups == DOMAIN Views
ViewMembers(group) == Types[Views[group]].struct

\* A group as a client writes it, with a member that no view has; with one of the
\* view's members of a type that no view reads; and what is no group.  (An array of
\* members would be read by place: no client writes one.)
WellFormedGroups(group) ==
    {Object(Encode(Types, Ref(Views[group]), v).object @@ ("vendor" :> String("any"))) :
        v \in Samples(Types, Ref(Views[group]), 2)}
BrokenGroups(group) ==
    {Object((f :> [fraction |-> TRUE]) @@ json.object) :
        f \in DOMAIN ViewMembers(group),
        json \in {Encode(Types, Ref(Views[group]), v) : v \in Samples(Types, Ref(Views[group]), 0)}}
    \cup {Null, String("text"), Array(<<>>)}

Preferences == {p \in SeqOf(Encodings, 2) : IsInjective(p)}
Announced == SeqOf({String(e) : e \in Encodings \cup {"utf-7"}} \cup {Null}, 2)

CapabilityInput(caps, group, wellFormed, preference) ==
    [kind |-> "capabilities", caps |-> caps, group |-> group, wellFormed |-> wellFormed,
     preference |-> preference]

InitCapabilities ==
    \/ \E group \in Groups : \E json \in WellFormedGroups(group) :
          input = CapabilityInput(Object(group :> json), group, TRUE, <<"utf-8">>)
    \/ \E group \in Groups : \E json \in BrokenGroups(group) :
          input = CapabilityInput(Object(group :> json), group, FALSE, <<"utf-8">>)
    \/ \E group \in Groups :
          input = CapabilityInput(Object(NoMembers), group, TRUE, <<"utf-8">>)
    \/ \E announced \in Announced, preference \in Preferences :
          LET known == \A i \in DOMAIN announced :
                          IsString(announced[i]) /\ announced[i].string \in Encodings
          IN input = CapabilityInput(
                Object("general" :> Object("positionEncodings" :> Array(announced))),
                "general", known, preference)

-----------------------------------------------------------------------------
(* Properties *)

\* a says nothing that b does not say.
RECURSIVE Within(_, _)
Within(a, b) ==
    CASE IsObject(a) -> IsObject(b) /\ \A m \in DOMAIN a.object :
                            m \in DOMAIN b.object /\ Within(a.object[m], b.object[m])
      [] OTHER -> a = b

\* The view of a group, as it is written, says what `raw` says.
ViewIsRight(wellFormed, read, raw, nothing) ==
    /\ read = nothing \/ \E json \in raw : Within(read, json)
    /\ wellFormed => \A json \in raw :
           LET said == {m \in DOMAIN json.object \ {"vendor"} : json.object[m] # Array(<<>>)}
           IN read = Object([m \in said |-> json.object[m]])
    /\ ~wellFormed => read = nothing

ViewAndFlagsAgree(caps, group, flags, read) ==
    \A f \in flags : Supports(caps, <<group, f>>)
                         <=> f \in DOMAIN read.object /\ read.object[f] = Boolean(TRUE)

\* The first of the preference that the client announced, else utf-16.
EncodingIsRight(group, announced, preference, chosen) ==
    LET liked == {i \in DOMAIN preference : group = "general" /\ String(preference[i]) \in announced}
    IN IF liked = {} THEN chosen = "utf-16"
       ELSE chosen = preference[CHOOSE i \in liked : \A k \in liked : i <= k]

Written(types, group, view) == Encode(types, Ref(Views[group]), view)

\* A server never acts on a capability the client did not announce: a typed
\* view says nothing that the raw capabilities do not say, all of what they say
\* (but for empty lists, and members it does not know) if every member is of its type, and
\* nothing at all if one is not; a flag that a view has is one that `supports`
\* finds.  The encoding negotiated is one the client announced, and the one the
\* server likes best of them, or utf-16, which every client understands; entries
\* that nobody knows do not keep the others from being seen.
ViewsNeverOverclaim ==
    input.kind = "capabilities" =>
    LET caps == input.caps
        group == input.group
        flags == {f \in DOMAIN ViewMembers(group) : ViewMembers(group)[f] = Opt(Bool)}
        announced == UNION {{j.array[i] : i \in DOMAIN j.array} :
                               j \in {j \in At(caps, <<"general", "positionEncodings">>) : IsArray(j)}}
    IN /\ ViewIsRight(input.wellFormed, Written(Types, group, View(Types, caps, group)),
                      At(caps, <<group>>), Written(Types, group, DefaultView(Types, group)))
       /\ input.wellFormed =>
             ViewAndFlagsAgree(caps, group, flags, Written(Types, group, View(Types, caps, group)))
       /\ EncodingIsRight(group, announced, input.preference,
                          NegotiatePositionEncoding(caps, input.preference))
=============================================================================
