---------------------------- MODULE MCEventTools ----------------------------
(***************************************************************************)
(* Small instances of EventTools for TLC.                                  *)
(***************************************************************************)
EXTENDS EventTools

(* A message in the channel of interest, another, and the marker of the    *)
(* Gateway feed.                                                           *)
Message == [type |-> "MESSAGE_CREATE", guild |-> "g", channel |-> "c", author |-> "user"]
Direct  == [Message EXCEPT !.guild = "", !.channel = "dm"]
Marker  == [NoBody EXCEPT !.type = "gateway_reconnected"]

MCMessages == {Message, Direct}
MCMarked   == {Message, Marker}

(* The messages of one channel, to be polled or waited for. *)
InChannel == [NoFilter EXCEPT !.types = {"MESSAGE_CREATE"}, !.channel = "c"]
MCChannel == {InChannel}

(* Every cursor of any process, beside none and one that is no cursor.     *)
OfBoot(b, n) == [form |-> "at", boot |-> b, seq |-> n]
MCCursors == {EmptyCursor, [EmptyCursor EXCEPT !.form = "garbled"]}
                 \cup {OfBoot(b, n) : b \in 0 .. MaxBoots, n \in 0 .. MaxSeq + 1}
=============================================================================
