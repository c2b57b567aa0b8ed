------------------------------ MODULE Keyboards ------------------------------
(***************************************************************************)
(* The keyboard of a message.  A workflow lays buttons out in rows; the    *)
(* chat service stores them, each once, with the message, and every        *)
(* provider builds its own keyboard of them.  A customer presses a button  *)
(* of the provider's keyboard; the chat service compares with the stored   *)
(* one.  The layout grows a row or a button at a time, so that a run goes  *)
(* over all of them.                                                       *)
(***************************************************************************)
EXTENDS Naturals, Sequences, SequencesExt

CONSTANTS
  Button,       \* buttons: a type and a code
  Filler,       \* the ones long layouts are made of
  MaxMixed,     \* bound on the buttons of a layout of any Button
  MaxButtons    \* bound on the buttons of a layout of Filler only

VARIABLE grid   \* Message.buttons

keyboardVars == <<grid>>

Kind == {"reply", "postback", "switch", "url", "badurl", "contact", "phone", "location", "email", "clear", "remove"}

TypeOK == /\ grid \in Seq(Seq([type : Kind, code : {b.code : b \in Button}]))
          /\ Len(FlattenSeq(grid)) <= MaxButtons

Is(b, types) == b.type \in types
Holds(g, types) == \E b \in Range(FlattenSeq(g)) : Is(b, types)
Full(row) == row # <<>>
-----------------------------------------------------------------------------
(* Faulty variants: a type is taken for a key; an empty row is kept;  *)
(* clear ends the layout only; every button is one column wide.     *)
KeyOfType(b)  == <<b.type, "any">>
AddsRow(rows) == Append(rows, <<>>)
ClearStops(g) == LET n == CHOOSE i \in DOMAIN FlattenSeq(g) : Is(FlattenSeq(g)[i], {"clear"})
                 IN <<SubSeq(FlattenSeq(g), 1, n - 1)>>
LayoutOne(n)  == [i \in 1 .. n |-> 1]
-----------------------------------------------------------------------------
(* The last row is used again when it has got no button. *)
NextRow(rows) == IF rows # <<>> /\ Last(rows) = <<>> THEN rows ELSE Append(rows, <<>>)

(* What makes two stored buttons the same. *)
StoredKey(b) ==
  CASE Is(b, {"contact", "phone", "location", "email"}) -> <<"share", b.type>>
    [] Is(b, {"url"}) -> <<"url", b.code>>
    [] OTHER -> <<"code", b.code>>

(* MarkupV2: the keyboard stored.  A wrong address ends it where it is, and its error is dropped. *)
MarkupV2(g) ==
  LET Add(s, b) ==
        CASE s.end # "open" -> s
          [] s.end = "open" /\ Is(b, {"clear", "remove"}) -> [s EXCEPT !.rows = <<>>, !.end = "removed"]
          [] s.end = "open" /\ Is(b, {"badurl"}) -> [s EXCEPT !.end = "invalid"]
          [] OTHER -> IF StoredKey(b) \in s.seen THEN s
                      ELSE [s EXCEPT !.rows[Len(s.rows)] = Append(@, b), !.seen = @ \cup {StoredKey(b)}]
      AddRow(s, row) == FoldLeft(Add, IF s.end = "open" THEN [s EXCEPT !.rows = NextRow(@)] ELSE s, row)
      all == FoldLeft(AddRow, [rows |-> <<>>, seen |-> {}, end |-> "open"], g)
  IN IF all.end = "open" /\ all.rows # <<>> /\ Last(all.rows) = <<>> THEN Front(all.rows) ELSE all.rows
-----------------------------------------------------------------------------
(* Telegram: buttons of the chat's keyboard and of the message's own. *)
Types      == {b.type : b \in Button \cup Filler}
Ignored    == {"email"}
Removal(b) == Is(b, {"clear", "remove"})
Inline     == {"url", "badurl", "switch", "reply"}
Classic    == (Types \ Ignored) \ Inline
RowsOf(g, types) == SelectSeq([i \in DOMAIN g |-> SelectSeq(g[i], LAMBDA b : Is(b, types))], Full)

(* SetMergedKeyboard: a message has one of the two keyboards, its own one first. *)
SetMergedKeyboard(g) ==
  IF \E b \in Range(FlattenSeq(g)) : Removal(b) THEN [kind |-> "removed", rows |-> <<>>]
  ELSE IF RowsOf(g, Inline) # <<>> THEN [kind |-> "inline", rows |-> RowsOf(g, Inline)]
  ELSE [kind |-> IF RowsOf(g, Classic) = <<>> THEN "none" ELSE "classic", rows |-> RowsOf(g, Classic)]

(* Viber: the rows, as a list of buttons with their columns; six make a line. *)
ButtonsLayout(n) ==
  <<<<6>>, <<3, 3>>, <<2, 2, 2>>, <<2, 2, 1, 1>>, <<2, 1, 1, 1, 1>>, <<1, 1, 1, 1, 1, 1>>>>[n]

Cleared(g) == <<>>

Menu(g) ==
  LET Supported(b) == ~ Is(b, {"email"})
      Line(rows, row) == [NextRow(rows) EXCEPT ![Len(NextRow(rows))] = SelectSeq(row, Supported)]
      rows == IF Holds(g, {"clear"}) THEN Cleared(g) ELSE FoldLeft(Line, <<>>, g)
      Laid(row) == [i \in DOMAIN row |-> [button |-> row[i], columns |-> ButtonsLayout(Len(row))[i]]]
  IN FlattenSeq([i \in DOMAIN rows |-> Laid(rows[i])])

(* The Viber client puts the buttons into lines of six columns. *)
Lines(btns) ==
  LET Put(s, b) ==
        IF s.left < b.columns
        THEN [lines |-> Append(s.lines, <<b.button>>), left |-> 6 - b.columns]
        ELSE [lines |-> [s.lines EXCEPT ![Len(s.lines)] = Append(@, b.button)], left |-> s.left - b.columns]
  IN FoldLeft(Put, [lines |-> <<>>, left |-> 0], btns).lines

(* VK: a row for every row. *)
BuildVKKeyboard(g) == IF Holds(g, {"clear", "remove"}) THEN <<>> ELSE g

(* Messenger and Instagram: quick replies and the buttons of a template;      *)
(* Instagram takes no request to share, and has no quick replies by a template. *)
FacebookMenu(g, instagram) ==
  LET Template(b) == Is(b, {"postback", "url", "badurl"})
      Quick(b)    == ~ Template(b) /\ ~ Is(b, {"location"})
                     /\ ~ (instagram /\ Is(b, {"email", "contact", "phone"}))
      buttons == SelectSeq(FlattenSeq(g), Template)
  IN [buttons |-> buttons,
      replies |-> IF instagram /\ buttons # <<>> THEN <<>> ELSE SelectSeq(FlattenSeq(g), Quick)]

(* WhatsApp: replies only, three as buttons, more of them as a list. *)
WhatsAppSendButtons(g) == LET Reply(b) == Is(b, {"reply", "postback"}) IN SelectSeq(FlattenSeq(g), Reply)
-----------------------------------------------------------------------------
(* What a press of the button sends back: a code, or what is shared. *)
Press(b) == IF Is(b, {"contact", "phone"}) THEN <<"share", "contact">>
            ELSE IF Is(b, {"email", "location"}) THEN <<"share", b.type>> ELSE <<"code", b.code>>
Presses(btns) == {Press(b) : b \in {c \in Range(btns) : ~ Is(c, {"url", "badurl"})}}

Offered(g) ==
  LET fb == FacebookMenu(g, FALSE)
      ig == FacebookMenu(g, TRUE)
      Active(e) == ~ Is(e.button, {"switch", "remove"})
      viber == SelectSeq(Menu(g), Active)
  IN UNION {Presses(s) : s \in
       {FlattenSeq(SetMergedKeyboard(g).rows), [i \in DOMAIN viber |-> viber[i].button],
        FlattenSeq(BuildVKKeyboard(g)), fb.buttons \o fb.replies, ig.buttons \o ig.replies, WhatsAppSendButtons(g)}}

Init == grid = <<>>

AddRow == grid' = Append(grid, <<>>) /\ Len(grid) < MaxMixed

Room(b) == \/ Len(FlattenSeq(grid)) < MaxMixed
           \/ Len(FlattenSeq(grid)) < MaxButtons /\ Range(FlattenSeq(grid)) \cup {b} \subseteq Filler

AddButton(b) == /\ grid # <<>> /\ Room(b)
                /\ grid' = [grid EXCEPT ![Len(grid)] = Append(@, b)]

Next == AddRow \/ \E b \in Button : AddButton(b)

Spec == Init /\ [][Next]_keyboardVars
-----------------------------------------------------------------------------
(* A code or a request that any provider's keyboard lets the customer send back  *)
(* is one of the stored keyboard, although it keeps each one once: a press is    *)
(* recognised.  A layout that removes the keyboard, or ends at a wrong address,  *)
(* is set apart: Messenger shows a quick reply for "clear", and the buttons      *)
(* behind a wrong address are shown and not stored.                              *)
OfferedIsStored ==
  ~ Holds(grid, {"clear", "remove", "badurl"}) => Offered(grid) \subseteq Presses(FlattenSeq(MarkupV2(grid)))

(* The stored keyboard has no empty row, whatever rows of the layout are empty   *)
(* or lose all their buttons as duplicates; only a wrong address leaves one.     *)
StoredRowsFull == ~ Holds(grid, {"badurl"}) => \A r \in Range(MarkupV2(grid)) : Full(r)

(* "clear" takes the keyboard away in the stored message, on Telegram, Viber     *)
(* and VK alike, wherever in the layout it stands.                               *)
ClearAgrees ==
  Holds(grid, {"clear"}) =>
    /\ SetMergedKeyboard(grid).rows = <<>> /\ Menu(grid) = <<>> /\ BuildVKKeyboard(grid) = <<>>
    /\ ~ Holds(grid, {"badurl"}) => MarkupV2(grid) = <<>>

(* Viber gets one list of buttons and breaks it into lines itself: the lines are *)
(* the rows of the layout, less the buttons Viber does not know.                 *)
LinesAreRows ==
  ~ Holds(grid, {"clear"}) => Lines(Menu(grid)) = RowsOf(grid, Types \ {"email"})
=============================================================================
