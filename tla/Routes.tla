------------------------------- MODULE Routes -------------------------------
(***************************************************************************)
(* internal/discord/route.go and raw.go: how a request gets its path, its  *)
(* rate-limit bucket and the route the audit log shows.                    *)
(*                                                                         *)
(* A route is the sequence of its segments; a segment of a template that   *)
(* has the name of a parameter stands for {that parameter}.                *)
(***************************************************************************)
EXTENDS Args

CONSTANTS
    Tokens,     \* the texts that look like a webhook token
    Paths       \* texts of discord_request's route, each to its RawPath

(* No token has a slash in it.                                             *)
ASSUME TokensAssumption == "a/b" \notin Tokens

(* A raw route as ValidateRawRoute looks at it: what it begins with, the   *)
(* characters in it that it minds, and its segments.                       *)
RawPath == [begins: {"/", "/api/", "other"}, odd: SUBSET {"space", "\\", "?", "#", "://"},
            segs: Seq(STRING)]

ParamNames == IDNames \cup {"emoji", "webhook_token"}

(* url.PathEscape and PathUnescape, on the texts that tell. *)
PathEscape(v)   == CASE v = "a/b" -> "a%2Fb" [] OTHER -> v
PathUnescape(v) == CASE v = "a%2Fb" -> "a/b" [] v = "%2e%2e" -> ".." [] OTHER -> v

-----------------------------------------------------------------------------
(* expandRoute.  A parameter is checked by its kind. *)
Fits(name, v) ==
    CASE name = "emoji"         -> v \notin {"", "overlong"}
      [] name = "webhook_token" -> v \in Tokens
      [] name \in IDNames       -> IsSnowflake(v)

Holes(route) == {i \in DOMAIN route : route[i] \in ParamNames}

(* The error of the last hole that has one; a parameter too many matters   *)
(* when there is none.  "internal" is a mistake of this program.           *)
ExpandError(route, params) ==
    LET missing == {i \in Holes(route) : route[i] \notin DOMAIN params}
        unfit   == {i \in Holes(route) \ missing : ~Fits(route[i], params[route[i]])}
    IN  IF \E i \in missing : \A j \in missing \cup unfit : j <= i THEN "internal"
        ELSE IF unfit # {} THEN "arg"
        ELSE IF Cardinality(Holes(route)) # Cardinality(DOMAIN params) THEN "internal"
        ELSE "none"

Expand(route, params) ==
    [i \in DOMAIN route |->
        CASE i \notin Holes(route) -> route[i]
          [] route[i] = "emoji"    -> PathEscape(params["emoji"])
          [] OTHER                 -> params[route[i]]]

(* fault: guilds are not told apart *)
BucketOfAll(method, route, params) ==
    <<method, [i \in DOMAIN route |->
        IF route[i] \in {"channel_id", "webhook_id"} /\ route[i] \in DOMAIN params
        THEN params[route[i]] ELSE route[i]]>>

(* bucketFor: per method and route, per major resource. *)
Bucket(method, route, params) ==
    <<method, [i \in DOMAIN route |->
        IF route[i] \in {"channel_id", "guild_id", "webhook_id"} /\ route[i] \in DOMAIN params
        THEN params[route[i]] ELSE route[i]]>>

-----------------------------------------------------------------------------
(* DoRaw and ValidateRawRoute. *)
RawMethods == {"GET", "POST", "PUT", "PATCH", "DELETE"}

BadSegment(s) == s = "" \/ PathUnescape(s) \in {".", "..", "a/b", "%zz"}

RawOK(method, text) ==
    LET p == Paths[text]
    IN  /\ method \in RawMethods
        /\ p.begins = "/" /\ p.odd = {}
        /\ \A i \in DOMAIN p.segs : ~BadSegment(p.segs[i])

(* RedactRoute, segment by segment and in place: the test of a segment     *)
(* sees what became of those before it.                                    *)
RedactRoute(path) ==
    LET red[i \in DOMAIN path] ==
            IF IsSnowflake(path[i]) THEN "{id}"
            ELSE IF /\ i > 2 /\ red[i - 2] \in {"webhooks", "Webhooks", "interactions"}
                    /\ red[i - 1] = "{id}"
                 THEN "{token}"
            ELSE path[i]
    IN  red

=============================================================================
