-------------------------------- MODULE Newt ---------------------------------
(***************************************************************************)
(* The text view: class Newt (include/cloysterhpc/view/newt.h, view/).  A  *)
(* call of one of its methods opens a window and waits for the operator,   *)
(* who presses buttons until the method returns, ends the program with     *)
(* Cancel, or runs into an entry that the list does not have.  Windows are *)
(* stacked: help, the complaint about an empty field and the form behind   *)
(* "Add" open above the window that they belong to.  What the newt library *)
(* does between two buttons (cursor, typing) is left to the operator's     *)
(* choice.  F12 does what OK does.                                         *)
(***************************************************************************)
EXTENDS Naturals, Sequences, SequencesExt

CONSTANTS
  Texts,       \* what the operator may type into a field, or Blank
  MaxItems     \* bound: how long a list that can be added to grows

\* A field that was left empty.
Blank == ""

ASSUME NewtAssumption == Blank \in Texts /\ MaxItems \in Nat

VARIABLES
  windows,   \* the windows on the screen, the one in front last
  returned,  \* what the last method has returned: one string, or several
  exit       \* how the program ended, or "none"

view == <<windows, returned, exit>>

-----------------------------------------------------------------------------
(* The windows.  A list shows C strings, items are the C++ strings.         *)

Message == [kind |-> "message"]

List(items) == [kind |-> "list", items |-> items, shown |-> items]

\* A list that can be added to and removed from: collectListMenu.
Collect(items) == [kind |-> "collect", items |-> items, shown |-> items]

Fields(size) == [kind |-> "fields", size |-> size]

InFront(kind) == exit = "none" /\ windows # <<>> /\ Last(windows).kind = kind

Open(window) ==
  /\ windows' = Append(windows, window)
  /\ UNCHANGED <<returned, exit>>

Replace(window) ==
  /\ windows' = Append(Front(windows), window)
  /\ UNCHANGED <<returned, exit>>

Return(value) ==
  /\ windows' = Front(windows)
  /\ returned' = value
  /\ UNCHANGED exit

\* The method does not come back.
End(how) ==
  /\ windows' = <<>>
  /\ exit' = how
  /\ UNCHANGED returned

\* Where the list's cursor may be.
Positions(window) == IF window.items = <<>> THEN {1} ELSE DOMAIN window.items

-----------------------------------------------------------------------------
(* The buttons                                                              *)

Dismiss == InFront("message") /\ Return(returned)

\* listMenu reads the vector at the cursor, in an empty vector as well.
PickFromList ==
  /\ InFront("list")
  /\ \E i \in Positions(Last(windows)) :
       IF i \in DOMAIN Last(windows).items THEN Return(<<Last(windows).items[i]>>)
       ELSE End("crash")

KeepCollected == InFront("collect") /\ Return(Last(windows).items)

\* The form that addCallback opens above the list.
AddItem == InFront("collect") /\ Len(Last(windows).items) < MaxItems /\ Open(Fields(1))

\* Mutant: the C strings of the list are not made again.
RemoveItemStale ==
  /\ InFront("collect")
  /\ LET list == Last(windows)
     IN \E i \in Positions(list) :
          IF i \in DOMAIN list.items
          THEN Replace([list EXCEPT !.items = RemoveAt(list.items, i)])
          ELSE End("crash")

\* The cursor is compared with the length of the C strings, which end in a
\* null pointer: the empty vector loses an element too.
RemoveItem ==
  /\ InFront("collect")
  /\ LET list == Last(windows)
     IN \E i \in Positions(list) :
          IF i \in DOMAIN list.items THEN Replace(Collect(RemoveAt(list.items, i)))
          ELSE End("crash")

\* OK on a form: no field may be empty.  What was typed goes to the caller,
\* which for the form behind "Add" is the list below.
FillIn ==
  /\ InFront("fields")
  /\ \E texts \in [1 .. Last(windows).size -> Texts] :
       LET below == Front(windows)
       IN IF \E i \in DOMAIN texts : texts[i] = Blank THEN Open(Message)
          ELSE IF below = <<>> THEN Return(texts)
          ELSE /\ windows' = Append(Front(below), Collect(Append(Last(below).items, texts[1])))
               /\ UNCHANGED <<returned, exit>>

Help == (InFront("list") \/ InFront("collect") \/ InFront("fields")) /\ Open(Message)

\* Newt::abort ends the whole program, with success.
Cancel == (InFront("list") \/ InFront("collect") \/ InFront("fields")) /\ End("success")

Press ==
  Dismiss \/ PickFromList \/ KeepCollected \/ AddItem \/ RemoveItem \/ FillIn \/ Help \/ Cancel

-----------------------------------------------------------------------------
\* What the list shows is what it holds: the C strings point into the C++
\* strings, so each change of the latter must be followed by
\* convertToNewtList before newt draws again.
ListShowsItems ==
  \A i \in DOMAIN windows :
    windows[i].kind \in {"list", "collect"} => windows[i].shown = windows[i].items

=============================================================================
