----------------------------- MODULE MCResolver -----------------------------
(***************************************************************************)
(* Small instances of Resolver for TLC.                                    *)
(***************************************************************************)
EXTENDS Resolver

Bot  == [form |-> "bot", key |-> "B"]

(* A bot token beside a config token and what is no credential at all.     *)
MCBots  == {Bot} \cup [form: {"none", "token", "garbled"}, key: {"B"}]
MCBot   == {Bot}

=============================================================================
