--------------------------- MODULE MCEventBuffer ---------------------------
(***************************************************************************)
(* A small instance of EventBuffer for TLC.                                *)
(***************************************************************************)
EXTENDS EventBuffer, TLC

(* A user's message and the bot's own, and the filter of wait_for_message: *)
(* messages, the bot's own left out.                                       *)
UserMessage == [type |-> "MESSAGE_CREATE", guild |-> "g", channel |-> "c",
                author |-> "user"]
BotMessage  == [UserMessage EXCEPT !.author = "bot"]
MCPayloads  == {UserMessage, BotMessage}
MCFilters   == {[NoFilter EXCEPT !.types = {"MESSAGE_CREATE"}, !.exclude = "bot"]}

(* No cursor, a bad one, one of an earlier boot, and this boot's 0 and 1.  *)
OfBoot(b, n) == [form |-> "at", boot |-> b, seq |-> n]
Garbled      == [form |-> "garbled", boot |-> 0, seq |-> 0]
MCCursors    == {EmptyCursor, Garbled, OfBoot(0, 1), OfBoot(1, 0), OfBoot(1, 1)}

WaiterSymmetry == Permutations(Waiters)
=============================================================================
