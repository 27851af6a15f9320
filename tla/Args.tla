-------------------------------- MODULE Args --------------------------------
(***************************************************************************)
(* internal/tools/args.go and common.go: the arguments of a tool call, the *)
(* accessors the handlers read them with, and the arguments several tools  *)
(* share.                                                                  *)
(*                                                                         *)
(* A handler reads its arguments one after the other and returns the first *)
(* error.  All these errors are ArgErrors and nothing but their wording    *)
(* depends on the order, so an accessor is a condition here, a handler     *)
(* requires the conjunction of its conditions, and what an accessor        *)
(* returns is an operator of its own.                                      *)
(***************************************************************************)
EXTENDS Naturals, Sequences, FiniteSets

CONSTANT Snowflakes     \* the texts that look like a Discord ID

(* They are digits, which of the texts named here none is.                 *)
ASSUME SnowflakesAssumption ==
    {"", " ", "a/b", "another", "webhooks", "Webhooks", "interactions"} \cap Snowflakes = {}

(* A decoded JSON value, as far as the accessors tell one from another: a  *)
(* text; a number, whole or not; a Boolean; n items of one sort; an object *)
(* whose values are plain or not.  Half(i) is the number i + 1/2.          *)
Str(s)    == [k |-> "string", s |-> s, n |-> 0]
Num(i)    == [k |-> "number", s |-> "whole", n |-> i]
Half(i)   == [k |-> "number", s |-> "fraction", n |-> i]
Bool(b)   == [k |-> "bool", s |-> IF b THEN "true" ELSE "false", n |-> 0]
List(n, of) == [k |-> "list", s |-> of, n |-> n]
Obj(of)   == [k |-> "object", s |-> of, n |-> 0]
Null      == [k |-> "null", s |-> "", n |-> 0]

IsValue(v) ==
    \/ v \in {Null, Bool(TRUE), Bool(FALSE), Obj("plain"), Obj("nested")}
    \/ v.n \in Nat /\ v \in {Str(v.s), Num(v.n), Half(v.n), List(v.n, v.s)}

(* Two functions as one; where both are defined the first counts. *)
f ++ g == [x \in DOMAIN f \cup DOMAIN g |-> IF x \in DOMAIN f THEN f[x] ELSE g[x]]

IsSnowflake(s) == s \in Snowflakes
Blank(s)       == s \in {"", " "}                   \* strings.TrimSpace
(* The names of arguments and parameters that end in "_id". *)
IDNames == {"author_id", "channel_id", "guild_id", "message_id", "parent_id", "role_id",
            "thread_id", "user_id", "webhook_id"}

-----------------------------------------------------------------------------
(* The accessors.  A null is as good as nothing. *)
Present(a, key) == key \in DOMAIN a /\ a[key].k # "null"

Text(a, key)    == IF Present(a, key) THEN a[key].s ELSE ""
IsText(a, key)  == Present(a, key) => a[key].k = "string"
HasText(a, key) == IsText(a, key) /\ ~Blank(Text(a, key))

CheckID(v)      == v.k = "string" /\ IsSnowflake(v.s)
HasID(a, key)   == Present(a, key) /\ CheckID(a[key])

MayID(a, key)   == Present(a, key) => a[key] = Str("") \/ CheckID(a[key])

IntOr(a, key, def) == IF Present(a, key) THEN a[key].n ELSE def

(* fault: the upper bound is not one of the numbers *)
IsIntBelow(a, key, min, max) ==
    Present(a, key) => /\ a[key].k = "number" /\ a[key].s = "whole"
                       /\ a[key].n >= min /\ a[key].n < max

IsInt(a, key, min, max) ==
    Present(a, key) => /\ a[key].k = "number" /\ a[key].s = "whole"
                       /\ a[key].n \in min .. max

BoolOr(a, key, def) == IF Present(a, key) THEN a[key] = Bool(TRUE) ELSE def
IsBool(a, key)      == Present(a, key) => a[key].k = "bool"

IsObject(a, key)     == Present(a, key) => a[key].k = "object"
Len_(a, key)         == IF Present(a, key) THEN a[key].n ELSE 0
IsList(a, key, max)  == Present(a, key) => a[key].k = "list" /\ a[key].n <= max
IsStringList(a, key) ==
    Present(a, key) => a[key].k = "list" /\ (a[key].n = 0 \/ a[key].s = "text")

(* OneOf: those of the keys that are set; a handler wants at most one.     *)
Set(a, keys) == {key \in keys : Present(a, key) /\ a[key] # Str("")}

-----------------------------------------------------------------------------
(* Arguments of several tools. *)
FormatOK(a) == IsText(a, "format") /\ Text(a, "format") \in {"", "text", "json"}
ReasonOK(a) == IsText(a, "reason")

(* attachments: each item an object with a plain file name and content in  *)
(* base64 ("file"); "oddfile" is one with another name or content.         *)
AttachmentsOK(a) ==
    /\ IsList(a, "attachments", 10)
    /\ Len_(a, "attachments") > 0 => a["attachments"].s = "file"

(* messagePayload as all its callers use it: a body is needed; the tools   *)
(* that edit take no files.  Then the keys of the body it builds.          *)
PayloadOK(a, files) ==
    /\ IsText(a, "content") /\ IsList(a, "embeds", 10) /\ IsBool(a, "allow_mentions")
    /\ Present(a, "attachments") => files
    /\ AttachmentsOK(a)
    /\ Text(a, "content") # "" \/ Len_(a, "embeds") > 0 \/ Len_(a, "attachments") > 0

Payload(a) ==
       {key \in {"content"} : Text(a, key) # ""}
  \cup {key \in {"embeds"} : Present(a, key)}
  \cup {key \in {"attachments"} : Len_(a, key) > 0}
  \cup {key \in {"allowed_mentions"} : ~BoolOr(a, "allow_mentions", TRUE)}

(* audit.Targets: what the audit line says the call was aimed at.          *)
Targets(a) == [key \in {k \in DOMAIN a \cap IDNames : a[k].k = "string"} |-> a[key].s]

=============================================================================
