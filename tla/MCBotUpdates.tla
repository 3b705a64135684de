---------------------------- MODULE MCBotUpdates ----------------------------
(***************************************************************************)
(* Two updates on one topic, sent by a user or by a person the bot does    *)
(* not know, a dialog with the desk that waits for a text or does not.     *)
(***************************************************************************)
EXTENDS BotUpdatesProperties

Start(who, dialog, first, second) ==
  [account |-> who, fsm |-> dialog, kind |-> <<first, second>>, listed |-> Channel]

OnlyListed(channels, start) == [start EXCEPT !.listed = channels]

MCStarts ==
  {Start("none", "idle", "post", "ask"), Start("none", "awaiting", "text", "language"),
   Start("none", "idle", "alert", "none"), Start("open", "idle", "post", "language"),
   Start("open", "idle", "ask", "ask"), Start("open", "idle", "ask", "text"),
   Start("open", "awaiting", "text", "text"), Start("open", "idle", "contact", "stranger"),
   Start("open", "idle", "alert", "alert"), Start("open", "idle", "language", "language"),
   Start("open", "idle", "help", "help"),
   OnlyListed({"desk"}, Start("open", "awaiting", "text", "none")),
   OnlyListed({"mail"}, Start("open", "awaiting", "text", "none")),
   OnlyListed({}, Start("open", "awaiting", "text", "none"))}
=============================================================================
