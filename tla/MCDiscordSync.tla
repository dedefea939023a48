--------------------------- MODULE MCDiscordSync ---------------------------
(* DiscordSync for TLC, from a Bingo whose Draft is over: one Team, with    *)
(* its role and channel in Discord. All the changes are made and one fault  *)
(* fewer than there may be, or one change fewer and all the faults.         *)
EXTENDS DiscordSync

StartsWith(name, member) ==
    /\ teams = [t \in Teams |-> IF t = 1 THEN [name |-> name, members |-> {member}] ELSE None]
    /\ enabled = TRUE /\ error = FALSE
    /\ rows = [p \in Places |->
        CASE p = <<1, "role">> -> [id |-> 1, name |-> name, role |-> 0, members |-> {member}]
          [] p = <<1, "channel">> -> [id |-> 2, name |-> name, role |-> 1, members |-> {}]
          [] OTHER -> None]
    /\ guild = << [kind |-> "role", name |-> name, role |-> 0, members |-> {member}],
                  [kind |-> "channel", name |-> name, role |-> 1, members |-> {}] >>
    /\ queue = <<>> /\ job = None /\ timers = 0
    /\ lost = FALSE /\ unasked = FALSE /\ tampered = FALSE
    /\ changes \in {0, 1} /\ faults = 1 - changes

\* Any name and any Player will do: they are interchangeable.
MCInit == StartsWith(CHOOSE n \in Names : TRUE, CHOOSE p \in Players : TRUE)
=============================================================================
