---------------------------- MODULE StartupProofs ----------------------------
(***************************************************************************)
(* What main guarantees of the start-up for every set of command lines,    *)
(* machines, time zones and answers of the operator.                       *)
(***************************************************************************)
EXTENDS Startup, FiniteSetTheorems, SequenceTheorems, TLAPS

\* Where main is once the operator has agreed, and then once the model is made.
Filling == {"print", "welcome", "instructions", "general", "names", "boot-target", "area",
            "location", "timeservers", "locale"}

Agreed == {"cli", "model", "answerfile", "dump", "init", "test", "engine"} \cup Filling

\* ConsentFirst is not inductive: that main got past its checks and its prompt
\* has to be remembered by where it is.
Consenting ==
  /\ pc \in {"prompt"} \cup Agreed => world.root \/ Has("test")
  /\ pc \in Agreed => consent \/ Has("unattended") \/ Has("dry")
  /\ done # {} => pc \in Agreed

\* The initial state satisfies the strengthened invariant.
LEMMA ConsentInit == Init => Consenting
BY DEF Init, Consenting, Agreed, Filling

\* Only main's own steps change what Consenting speaks of.
LEMMA ConsentKept ==
  ASSUME Consenting, UNCHANGED main
  PROVE  Consenting'
BY DEF Consenting, main, setup, cluster, effects, Agreed, Filling, Has

\* A step from one place behind the prompt to another one keeps it.
LEMMA ConsentOn ==
  ASSUME Consenting, pc \in Agreed, pc' \in Agreed, UNCHANGED <<world, opts, consent>>
  PROVE  Consenting'
BY DEF Consenting, Has

\* Each step of the program and of the operator preserves it.
LEMMA ConsentNext ==
  ASSUME Consenting, Next
  PROVE  Consenting'
<1> USE DEF At
<1>1. CASE Factory
  BY <1>1, ConsentKept DEF Factory, Throw, Stop, GoTo, effects, cluster, Consenting, Agreed, Filling, Has
<1>2. CASE InitializeSingletonsOptions
  BY <1>2, ConsentKept
  DEF InitializeSingletonsOptions, Throw, Stop, GoTo, effects, cluster, Consenting, Agreed, Filling, Has
<1>3. CASE Reject
  BY <1>3, ConsentKept DEF Reject, Throw, Stop
<1>4. CASE Accept
  BY <1>4 DEF Accept, Rejected, GoTo, effects, cluster, Consenting, Agreed, Filling, Has
<1>5. CASE NoPrompt
  BY <1>5 DEF NoPrompt, Asks, GoTo, setup, effects, cluster, Consenting, Agreed, Filling, Has
<1>6. CASE CLI
  BY <1>6, ConsentKept, ConsentOn DEF CLI, Stop, GoTo, setup, effects, cluster, Agreed, Filling
<1>7. CASE MakeModel \/ NoZones
  BY <1>7, ConsentKept, ConsentOn
  DEF MakeModel, NoZones, Throw, Stop, GoTo, setup, effects, cluster, Agreed, Filling
<1>8. CASE FillData \/ PrintData
  BY <1>8, ConsentKept, ConsentOn
  DEF FillData, PrintData, Throw, Stop, GoTo, setup, effects, cluster, Agreed, Filling
<1>9. CASE Presenters
  <2>1. pc \in Agreed /\ pc' \in Agreed /\ UNCHANGED <<world, opts, consent>>
    BY <1>9 DEF Presenters, PresentWelcome, PresentInstructions, PresentGeneralSettings,
                PresentBootTarget, PresentAreas, PresentLocations, PresentTimeservers,
                PresentLocale, Ask, setup, effects, Agreed, Filling
  <2> QED BY <2>1, ConsentOn
<1>10. CASE Dump \/ InitializeSingletonsModel
  BY <1>10, ConsentKept, ConsentOn
  DEF Dump, InitializeSingletonsModel, Throw, Stop, GoTo, setup, effects, cluster, Agreed, Filling
<1>11. CASE RunTestCommand
  BY <1>11, ConsentKept, ConsentOn DEF RunTestCommand, Stop, setup, effects, cluster, Agreed, Filling
<1>12. CASE Install
  BY <1>12, ConsentOn DEF Install, setup, effects, cluster, Agreed, Filling
<1>13. CASE Operator
  <2>1. CASE Yes
    BY <2>1 DEF Yes, GoTo, setup, effects, cluster, Consenting, Agreed, Filling, Has
  <2>2. CASE No \/ AskAgain \/ (Press /\ UNCHANGED main)
    BY <2>2, ConsentKept DEF No, AskAgain, Stop, vars
  <2> QED BY <1>13, <2>1, <2>2 DEF Operator
<1> QED
  BY <1>1, <1>2, <1>3, <1>4, <1>5, <1>6, <1>7, <1>8, <1>9, <1>10, <1>11, <1>12, <1>13 DEF Next, Work

\* Whatever is done to the machine is done with the operator's consent, or
\* because the options waive it, and by root except in a test.
THEOREM Consented == Spec => []ConsentFirst
<1>1. Consenting => ConsentFirst
  BY DEF Consenting, ConsentFirst, Agreed
<1>2. Consenting /\ [Next]_vars => Consenting'
  BY ConsentNext, ConsentKept DEF vars
<1> QED BY ConsentInit, <1>1, <1>2, PTL DEF Spec

-----------------------------------------------------------------------------
(* What the engine finds                                                    *)

Printed == Filling \cup {"answerfile", "dump", "init", "test", "engine"}

\* The engine's needs are met one after the other, so each one is tied to the
\* places that main reaches only when it is met.
Preparing ==
  /\ pc \in {"checks", "prompt", "cli", "model"} \cup Printed =>
       /\ {"Options", "MessageBus", "IRunner"} \subseteq singletons
       /\ runner = IF Has("dry") THEN "dry" ELSE "real"
  /\ pc \in Printed => os.id \in Distros \cup {None}
  /\ pc \in {"test", "engine"} => singletons = Singletons /\ os.id # None
  /\ pc \in {"dump", "init", "engine"} => filled \/ Has("test")
  /\ pc = "engine" => ~Has("test")
  /\ pc \in Filling \ {"print"} => ~Has("test")
  /\ pc = "print" => filled = Has("answerfile")
  /\ "engine" \in done => pc = "engine"
  /\ "test" \in done => pc \in {"test", "engine"}
  /\ singletons \subseteq Singletons

\* A step that leaves main where it is leaves what it has prepared.
LEMMA PrepareKept ==
  ASSUME Preparing, UNCHANGED main
  PROVE  Preparing'
BY DEF Preparing, main, setup, cluster, effects, Printed, Filling, Has

\* The distribution of a model that could be made is supported, or not known.
LEMMA DiscoveredKnown ==
  ASSUME NEW release, release # Missing, Has("test") \/ Supported(release)
  PROVE  Discovered(release).id \in Distros \cup {None}
BY DEF Discovered, Supported, Given, Distros

\* Each step of the program and of the operator preserves it.
LEMMA PrepareNext ==
  ASSUME Preparing, Next
  PROVE  Preparing'
<1> USE DEF At
<1>1. CASE Factory
  BY <1>1, PrepareKept
  DEF Factory, Throw, Stop, GoTo, effects, cluster, Preparing, Printed, Filling, Has, Singletons
<1>2. CASE InitializeSingletonsOptions
  BY <1>2, PrepareKept
  DEF InitializeSingletonsOptions, Throw, Stop, GoTo, effects, cluster, Preparing, Printed, Filling,
      Has, Singletons
<1>3. CASE Reject
  BY <1>3, PrepareKept DEF Reject, Throw, Stop
<1>4. CASE Accept
  BY <1>4 DEF Accept, GoTo, effects, cluster, Preparing, Printed, Filling, Has
<1>5. CASE NoPrompt
  BY <1>5 DEF NoPrompt, GoTo, setup, effects, cluster, Preparing, Printed, Filling, Has
<1>6. CASE CLI
  BY <1>6, PrepareKept DEF CLI, Stop, GoTo, setup, effects, cluster, Preparing, Printed, Filling, Has
<1>7. CASE MakeModel
  <2>1. CASE UNCHANGED main
    BY <2>1, PrepareKept
  <2>2. CASE ~UNCHANGED main
    <3>1. PICK release \in OsReleases :
            /\ release # Missing /\ (Has("test") \/ Supported(release))
            /\ os' = Discovered(release) /\ GoTo("answerfile")
            /\ UNCHANGED <<setup, answers, filled, effects>>
      BY <1>7, <2>2 DEF MakeModel, Throw, Stop
    <3>2. os'.id \in Distros \cup {None}
      BY <3>1, DiscoveredKnown
    <3> QED
      BY <1>7, <3>1, <3>2 DEF MakeModel, GoTo, setup, effects, Preparing, Printed, Filling, Has
  <2> QED BY <2>1, <2>2
<1>8. CASE NoZones
  BY <1>8, PrepareKept DEF NoZones, Throw, Stop
<1>9. CASE FillData
  BY <1>9, PrepareKept
  DEF FillData, Throw, Stop, GoTo, setup, effects, Preparing, Printed, Filling, Has
<1>10. CASE PrintData
  BY <1>10, PrepareKept
  DEF PrintData, Throw, Stop, GoTo, setup, effects, cluster, Preparing, Printed, Filling, Has
<1>11. CASE Presenters
  <2>1. /\ pc \in Filling \ {"print"} /\ pc' \in Filling \ {"print"}
        /\ UNCHANGED <<opts, singletons, runner, os, done>>
    BY <1>11 DEF Presenters, PresentWelcome, PresentInstructions, PresentGeneralSettings,
                 PresentBootTarget, PresentAreas, PresentLocations, PresentTimeservers,
                 PresentLocale, Ask, setup, effects, Filling
  <2> QED BY <2>1 DEF Preparing, Printed, Filling, Has
<1>12. CASE Dump
  BY <1>12, PrepareKept
  DEF Dump, Throw, Stop, GoTo, setup, effects, cluster, Preparing, Printed, Filling, Has
<1>13. CASE InitializeSingletonsModel
  BY <1>13, PrepareKept
  DEF InitializeSingletonsModel, Throw, Stop, GoTo, setup, effects, cluster, Preparing, Printed,
      Filling, Has, Singletons
<1>14. CASE RunTestCommand
  BY <1>14, PrepareKept
  DEF RunTestCommand, Stop, setup, effects, cluster, Preparing, Printed, Filling, Has
<1>15. CASE Install
  BY <1>15 DEF Install, setup, effects, cluster, Preparing, Printed, Filling, Has
<1>16. CASE Operator
  <2>1. CASE Yes
    BY <2>1 DEF Yes, GoTo, setup, effects, cluster, Preparing, Printed, Filling, Has
  <2>2. CASE No \/ AskAgain \/ (Press /\ UNCHANGED main)
    BY <2>2, PrepareKept DEF No, AskAgain, Stop, vars
  <2> QED BY <1>16, <2>1, <2>2 DEF Operator
<1> QED
  BY <1>1, <1>2, <1>3, <1>4, <1>5, <1>6, <1>7, <1>8, <1>9, <1>10, <1>11, <1>12, <1>13, <1>14, <1>15,
     <1>16 DEF Next, Work

\* The engine and the tests read no singleton before it is initialized, run
\* commands only when they should, and the engine has the answerfile's model.
THEOREM Prepared == Spec => []EngineFindsAll
<1>1. Init => Preparing
  BY DEF Init, Preparing, Printed, Filling
<1>2. Preparing => EngineFindsAll
  BY DEF Preparing, EngineFindsAll, Printed, Distros
<1>3. Preparing /\ [Next]_vars => Preparing'
  BY PrepareNext, PrepareKept DEF vars
<1> QED BY <1>1, <1>2, <1>3, PTL DEF Spec

-----------------------------------------------------------------------------
(* The windows                                                              *)

\* What a list may hold: what is typed, and what the presenters offer.
ZoneParts == UNION {{Split(name)[1], Split(name)[2]} : name \in ZoneNames}

Item == Texts \cup {"Text", "Graphical", "0.br.pool.ntp.org"} \cup ZoneParts

Window ==
  {Message} \cup {List(items) : items \in Seq(Item)} \cup {Collect(items) : items \in Seq(Item)}
    \cup {Fields(size) : size \in {1, 3}}

\* A list is the first window, a form is the first or above a list that is
\* added to, and nothing opens above a message.
StackOK ==
  /\ windows \in Seq(Window)
  /\ \A i \in DOMAIN windows :
       /\ windows[i].kind \in {"list", "collect"} => i = 1
       /\ windows[i].kind = "fields" =>
            i = 1 \/ (i = 2 /\ windows[1].kind = "collect" /\ windows[2].size = 1)
       /\ windows[i].kind = "message" => i = Len(windows)

\* A window is of one of four kinds, and a list shows what it holds.
LEMMA WindowKinds ==
  ASSUME NEW window \in Window
  PROVE  \/ window = Message /\ window.kind = "message"
         \/ /\ window.kind \in {"list", "collect"}
            /\ window.items \in Seq(Item) /\ window.shown = window.items
         \/ window.kind = "fields" /\ window.size \in {1, 3}
BY DEF Window, Message, List, Collect, Fields

\* What the constructors make are windows.
LEMMA WindowsMade ==
  /\ Message \in Window /\ Message.kind = "message"
  /\ \A size \in {1, 3} :
       Fields(size) \in Window /\ Fields(size).kind = "fields" /\ Fields(size).size = size
  /\ \A items \in Seq(Item) :
       /\ List(items) \in Window /\ List(items).kind = "list" /\ List(items).items = items
       /\ Collect(items) \in Window /\ Collect(items).kind = "collect" /\ Collect(items).items = items
BY DEF Window, Message, List, Collect, Fields

\* Opening a window above the ones that are there, and taking one away.
LEMMA Stacking ==
  ASSUME windows \in Seq(Window), windows # <<>>
  PROVE  /\ Len(windows) \in Nat \ {0} /\ Last(windows) \in Window
         /\ Front(windows) \in Seq(Window) /\ Len(Front(windows)) = Len(windows) - 1
         /\ \A i \in 1 .. Len(windows) - 1 : Front(windows)[i] = windows[i]
<1> DEFINE n == Len(windows)
<1>1. n \in Nat \ {0}
  BY EmptySeq
<1>2. windows[n] \in Window
  BY <1>1
<1>3. /\ SubSeq(windows, 1, n - 1) \in Seq(Window)
      /\ Len(SubSeq(windows, 1, n - 1)) = n - 1
      /\ \A i \in 1 .. n - 1 : SubSeq(windows, 1, n - 1)[i] = windows[i]
  <2>1. \A i \in 1 .. n - 1 : windows[i] \in Window
    BY <1>1
  <2> HIDE DEF n
  <2>2. 1 \in Int /\ n - 1 \in Int
    BY <1>1
  <2> QED BY <1>1, <2>1, <2>2, SubSeqProperties
<1> QED BY <1>1, <1>2, <1>3 DEF Last, Front

\* The list without one of its entries.
LEMMA RemovedItems ==
  ASSUME NEW items \in Seq(Item), NEW i \in DOMAIN items
  PROVE  RemoveAt(items, i) \in Seq(Item)
BY DEF RemoveAt
\* Which windows a step may leave: the first one stays, or is a list that is
\* added to before and after.
FirstStays ==
  windows' # <<>> =>
    /\ windows # <<>>
    /\ \/ windows'[1] = windows[1]
       \/ windows[1].kind = "collect" /\ windows'[1].kind = "collect"

\* A window opened above the others is one that may be there.
LEMMA Opened ==
  ASSUME StackOK, NEW window \in Window, Open(window), windows # <<>>,
         Last(windows).kind # "message",
         \/ window.kind = "message"
         \/ window.kind = "fields" /\ window.size = 1 /\ Last(windows).kind = "collect"
  PROVE  StackOK' /\ FirstStays
<1> DEFINE n == Len(windows)
<1>1. n \in Nat \ {0} /\ Last(windows) = windows[n]
  BY Stacking DEF StackOK, Last
<1>2. windows' = Append(windows, window)
  BY DEF Open
<1>3. /\ windows' \in Seq(Window) /\ Len(windows') = n + 1 /\ windows'[n + 1] = window
      /\ \A i \in 1 .. n : windows'[i] = windows[i]
  BY <1>2, AppendProperties DEF StackOK
<1> HIDE DEF n
<1>4. DOMAIN windows = 1 .. n /\ DOMAIN windows' = 1 .. n + 1
  BY <1>3 DEF StackOK, n
<1>5. \A i \in 1 .. n : windows[i].kind # "message"
  BY <1>1, <1>4 DEF StackOK, n
<1>6. window.kind = "fields" => n = 1 /\ windows[1].kind = "collect"
  BY <1>1, <1>4 DEF StackOK
<1>7. ASSUME NEW i \in DOMAIN windows'
      PROVE  /\ windows'[i].kind \in {"list", "collect"} => i = 1
             /\ windows'[i].kind = "fields" =>
                  i = 1 \/ (i = 2 /\ windows'[1].kind = "collect" /\ windows'[2].size = 1)
             /\ windows'[i].kind = "message" => i = Len(windows')
  <2>1. CASE i = n + 1
    BY <1>1, <1>3, <1>6, <2>1
  <2>2. CASE i \in 1 .. n
    <3>1. windows'[i] = windows[i] /\ windows'[1] = windows[1]
      BY <1>1, <1>3, <2>2
    <3>2. i = 2 => windows'[2] = windows[2]
      BY <1>3, <2>2
    <3> QED BY <1>4, <1>5, <2>2, <3>1, <3>2 DEF StackOK
  <2> QED BY <1>1, <1>4, <1>7, <2>1, <2>2
<1>8. windows'[1] = windows[1]
  BY <1>1, <1>3
<1> QED BY <1>3, <1>7, <1>8 DEF StackOK, FirstStays

\* So is what is left when the window in front is closed.
LEMMA Closed ==
  ASSUME StackOK, windows # <<>>, windows' = Front(windows)
  PROVE  /\ StackOK' /\ FirstStays
         /\ windows' = <<>> => Last(windows) = windows[1]
<1> DEFINE n == Len(windows)
<1>1. /\ n \in Nat \ {0} /\ Last(windows) = windows[n]
      /\ windows' \in Seq(Window) /\ Len(windows') = n - 1
      /\ \A i \in 1 .. n - 1 : windows'[i] = windows[i]
  BY Stacking DEF StackOK, Last
<1> HIDE DEF n
<1>2. DOMAIN windows = 1 .. n /\ DOMAIN windows' = 1 .. n - 1
  BY <1>1 DEF StackOK, n
<1>3. ASSUME NEW i \in DOMAIN windows'
      PROVE  /\ i \in 1 .. n /\ i # n /\ windows'[i] = windows[i] /\ windows'[1] = windows[1]
             /\ i = 2 => windows'[2] = windows[2]
  BY <1>1, <1>2
<1>4. StackOK'
  BY <1>1, <1>2, <1>3 DEF StackOK, n
<1>5. windows' # <<>> => 1 \in DOMAIN windows'
  BY <1>1, <1>2, EmptySeq
<1>6. windows' = <<>> => n = 1
  BY <1>1
<1> QED BY <1>1, <1>3, <1>4, <1>5, <1>6 DEF FirstStays

\* One list that is added to, alone on the screen.
LEMMA Alone ==
  ASSUME NEW items \in Seq(Item), windows' = <<Collect(items)>>
  PROVE  StackOK' /\ windows' # <<>> /\ windows'[1].kind = "collect"
<1>1. Collect(items) \in Window /\ Collect(items).kind = "collect"
  BY WindowsMade
<1>2. windows' \in Seq(Window) /\ DOMAIN windows' = {1} /\ windows'[1].kind = "collect"
  BY <1>1
<1> QED BY <1>2 DEF StackOK
\* What the buttons do to the windows, and how they end the program: by Cancel,
\* or in a list that has no entry.
LEMMA Pressed ==
  ASSUME StackOK, Press
  PROVE  /\ StackOK' /\ FirstStays /\ exit = "none" /\ windows # <<>>
         /\ \/ exit' \in {"none", "success"}
            \/ /\ exit' = "crash"
               /\ windows[1].kind = "collect" \/ (windows[1].kind = "list" /\ windows[1].items = <<>>)
         /\ windows' = <<>> /\ exit' = "none" /\ windows[1].kind = "list" =>
              \E i \in DOMAIN windows[1].items : returned' = <<windows[1].items[i]>>
<1> DEFINE front == Last(windows)
<1>1. exit = "none" /\ windows # <<>>
  BY DEF Press, Dismiss, PickFromList, KeepCollected, AddItem, RemoveItem, FillIn, Help, Cancel, InFront
<1>2. Len(windows) \in Nat \ {0} /\ front = windows[Len(windows)] /\ front \in Window
  BY <1>1, Stacking DEF StackOK, Last
<1>3. front.kind \in {"list", "collect"} =>
        /\ Len(windows) = 1 /\ front = windows[1] /\ front.items \in Seq(Item)
        /\ Front(windows) = <<>> /\ windows # <<>>
  <2> SUFFICES ASSUME front.kind \in {"list", "collect"} PROVE
        /\ Len(windows) = 1 /\ front = windows[1] /\ front.items \in Seq(Item)
        /\ Front(windows) = <<>> /\ windows # <<>>
    OBVIOUS
  <2>1. Len(windows) \in DOMAIN windows
    BY <1>2 DEF StackOK
  <2>2. Len(windows) = 1
    BY <1>2, <2>1 DEF StackOK
  <2>3. front.items \in Seq(Item)
    BY <1>2, WindowKinds DEF Message
  <2>4. Front(windows) \in Seq(Window) /\ Len(Front(windows)) = 0
    BY <1>1, <2>2, Stacking DEF StackOK
  <2> QED BY <1>1, <1>2, <2>2, <2>3, <2>4, EmptySeq
<1>4. ASSUME NEW how, End(how)
      PROVE  StackOK' /\ FirstStays
  <2>1. windows' = <<>> /\ windows' \in Seq(Window)
    BY <1>4 DEF End
  <2> QED BY <2>1 DEF StackOK, FirstStays
<1> HIDE DEF front
<1>5. CASE Dismiss
  <2>1. front.kind = "message" /\ windows' = Front(windows) /\ exit' = exit
    BY <1>5 DEF Dismiss, Return, InFront, front
  <2> QED BY <1>1, <2>1, Closed DEF front
<1>6. CASE PickFromList
  <2>1. front.kind = "list"
    BY <1>6 DEF PickFromList, InFront, front
  <2>2. PICK i \in Positions(front) :
          IF i \in DOMAIN front.items THEN Return(<<front.items[i]>>) ELSE End("crash")
    BY <1>6 DEF PickFromList, front
  <2>3. CASE i \in DOMAIN front.items
    BY <1>1, <1>3, <2>1, <2>2, <2>3, Closed DEF Return, front
  <2>4. CASE i \notin DOMAIN front.items
    BY <1>1, <1>3, <1>4, <2>1, <2>2, <2>4 DEF End, Positions
  <2> QED BY <2>3, <2>4
<1>7. CASE KeepCollected
  <2>1. front.kind = "collect" /\ windows' = Front(windows) /\ exit' = exit
    BY <1>7 DEF KeepCollected, Return, InFront, front
  <2> QED BY <1>1, <1>3, <2>1, Closed
<1>8. CASE AddItem
  <2>1. front.kind = "collect" /\ Open(Fields(1)) /\ exit' = exit
    BY <1>8 DEF AddItem, InFront, front, Open
  <2>2. Fields(1) \in Window /\ Fields(1).kind = "fields" /\ Fields(1).size = 1
    BY WindowsMade
  <2>3. StackOK' /\ FirstStays
    BY <1>1, <2>1, <2>2, Opened DEF front
  <2> QED BY <1>1, <1>3, <2>1, <2>3
<1>9. CASE RemoveItem
  <2>1. front.kind = "collect"
    BY <1>9 DEF RemoveItem, InFront, front
  <2>2. PICK i \in Positions(front) :
          IF i \in DOMAIN front.items THEN Replace(Collect(RemoveAt(front.items, i))) ELSE End("crash")
    BY <1>9 DEF RemoveItem, front
  <2>3. CASE i \in DOMAIN front.items
    <3>1. RemoveAt(front.items, i) \in Seq(Item)
      BY <1>3, <2>1, <2>3, RemovedItems
    <3>2. windows' = <<Collect(RemoveAt(front.items, i))>> /\ exit' = exit
      BY <1>3, <2>1, <2>2, <2>3 DEF Replace
    <3>3. StackOK' /\ windows' # <<>> /\ windows'[1].kind = "collect"
      BY <3>1, <3>2, Alone
    <3> QED BY <1>1, <1>3, <2>1, <3>2, <3>3 DEF FirstStays
  <2>4. CASE i \notin DOMAIN front.items
    BY <1>1, <1>3, <1>4, <2>1, <2>2, <2>4 DEF End
  <2> QED BY <2>3, <2>4
<1>10. CASE FillIn
  <2>1. front.kind = "fields"
    BY <1>10 DEF FillIn, InFront, front
  <2>2. PICK texts \in [1 .. front.size -> Texts] :
          \/ Open(Message)
          \/ Front(windows) = <<>> /\ Return(texts)
          \/ /\ Front(windows) # <<>>
             /\ windows' = Append(Front(Front(windows)),
                                  Collect(Append(Last(Front(windows)).items, texts[1])))
             /\ UNCHANGED <<returned, exit>>
    BY <1>10 DEF FillIn, front
  <2>3. CASE Open(Message)
    BY <1>1, <2>1, <2>3, WindowsMade, Opened DEF Open, front
  <2>4. CASE Front(windows) = <<>> /\ Return(texts)
    BY <1>1, <2>1, <2>4, Closed DEF Return, front
  <2>5. CASE /\ Front(windows) # <<>>
             /\ windows' = Append(Front(Front(windows)),
                                  Collect(Append(Last(Front(windows)).items, texts[1])))
             /\ UNCHANGED <<returned, exit>>
    <3> DEFINE below == Front(windows)
    <3>1. below \in Seq(Window) /\ below # <<>> /\ Len(below) = Len(windows) - 1
      BY <1>1, <2>5, Stacking DEF StackOK
    <3>2. Len(below) \in Nat \ {0} /\ Len(windows) \in DOMAIN windows
      BY <1>2, <3>1, EmptySeq DEF StackOK
    <3>3. Len(windows) = 2 /\ windows[1].kind = "collect" /\ front.size = 1
      BY <1>2, <2>1, <3>1, <3>2 DEF StackOK
    <3>4. Len(below) = 1 /\ below[1] = windows[1]
      BY <1>1, <3>1, <3>3, Stacking DEF StackOK
    <3>5. below[1] \in Window /\ below[1].kind = "collect" /\ Last(below) = below[1]
      BY <3>1, <3>3, <3>4 DEF Last
    <3>6. below[1].items \in Seq(Item)
      BY <3>5, WindowKinds
    <3>7. texts[1] \in Item
      BY <3>3 DEF Item
    <3>8. Append(below[1].items, texts[1]) \in Seq(Item)
      BY <3>6, <3>7, AppendProperties
    <3>9. Front(below) = <<>>
      <4>1. SubSeq(below, 1, 0) = <<>>
        BY 0 < 1, SubSeqEmpty
      <4> HIDE DEF below
      <4>2. Len(below) - 1 = 0
        BY <3>4
      <4> QED BY <4>1, <4>2 DEF Front
    <3> HIDE DEF below
    <3>10. windows' = <<Collect(Append(below[1].items, texts[1]))>>
      BY <2>5, <3>5, <3>9 DEF below
    <3>11. StackOK' /\ windows' # <<>> /\ windows'[1].kind = "collect"
      BY <3>8, <3>10, Alone
    <3> QED BY <1>1, <2>5, <3>3, <3>11 DEF FirstStays
  <2> QED BY <2>2, <2>3, <2>4, <2>5
<1>11. CASE Help
  <2>1. front.kind # "message" /\ Open(Message)
    BY <1>11 DEF Help, InFront, front
  <2>2. StackOK' /\ FirstStays
    BY <1>1, <2>1, WindowsMade, Opened DEF front
  <2>3. windows' # <<>> /\ exit' = exit
    BY <2>1, WindowsMade, AppendProperties DEF Open, StackOK
  <2> QED BY <1>1, <2>2, <2>3
<1>12. CASE Cancel
  <2>1. End("success") /\ exit' = "success"
    BY <1>12 DEF Cancel, End
  <2> QED BY <1>1, <1>4, <2>1
<1> QED
  BY <1>5, <1>6, <1>7, <1>8, <1>9, <1>10, <1>11, <1>12 DEF Press
-----------------------------------------------------------------------------
(* What the windows ask                                                     *)

\* The first window is that of the question that main is at, and of the lists
\* only that of the areas may have no entry, in a dry run.
FirstAsks ==
  \/ pc \in {"instructions", "general"} /\ windows[1].kind = "message"
  \/ pc = "names" /\ windows[1].kind = "fields"
  \/ pc \in {"boot-target", "location"} /\ windows[1].kind = "list" /\ windows[1].items # <<>>
  \/ /\ pc = "area" /\ windows[1].kind = "list"
     /\ windows[1].items = <<>> => Has("dry")
     /\ \A i \in DOMAIN windows[1].items : \E zone \in zones : windows[1].items[i] = zone[1]
  \/ pc = "timeservers" /\ windows[1].kind = "collect"

\* The area that was chosen is that of some time zone.
AreaChosen ==
  pc = "area" /\ windows = <<>> /\ exit = "none" => \E zone \in zones : returned[1] = zone[1]

\* The time zones are the machine's, and there are some except in a dry run.
ZonesOK ==
  /\ zones \in SUBSET {Split(name) : name \in ZoneNames}
  /\ pc \in Filling \cup {"answerfile"} => zones # {} \/ Has("dry")

\* CrashesOnEmptyLists is not inductive: which list is in front, and what it
\* may hold, follows from the question that main is at.
Asked ==
  /\ StackOK /\ ZonesOK /\ AreaChosen
  /\ windows # <<>> => FirstAsks
  /\ CrashesOnEmptyLists

\* The areas and the locations on offer are finitely many, and the list of
\* finitely many strings has each of them and no other.
LEMMA Listed ==
  ASSUME NEW S, IsFiniteSet(S), S \subseteq Item
  PROVE  /\ SetToSeq(S) \in Seq(Item)
         /\ S # {} => SetToSeq(S) # <<>>
         /\ \A i \in DOMAIN SetToSeq(S) : SetToSeq(S)[i] \in S
<1> DEFINE n == Cardinality(S)
<1>1. n \in Nat /\ ExistsBijection(1 .. n, S)
  BY FS_CardinalityType
<1>2. \E f \in [1 .. n -> S] : IsInjective(f)
  BY <1>1 DEF ExistsBijection, Bijection, Injection
<1>3. SetToSeq(S) \in [1 .. n -> S]
  BY <1>2 DEF SetToSeq
<1>4. S # {} => n # 0
  BY FS_EmptySet
<1> HIDE DEF n
<1>5. SetToSeq(S) \in Seq(Item) /\ Len(SetToSeq(S)) = n
  BY <1>1, <1>3
<1> QED BY <1>3, <1>4, <1>5

\* What some elements of a finite set have at one place.
LEMMA FiniteParts ==
  ASSUME NEW S, IsFiniteSet(S), NEW k
  PROVE  IsFiniteSet({z[k] : z \in S})
<1> DEFINE T == {z[k] : z \in S}
<1> DEFINE f == [z \in S |-> z[k]]
<1>1. f \in Surjection(S, T)
  BY DEF Surjection
<1> QED BY <1>1, FS_Surjection

\* The machine's time zones are finitely many.
LEMMA FiniteZones ==
  ASSUME ZonesOK
  PROVE  IsFiniteSet(zones)
<1> DEFINE T == {Split(name) : name \in ZoneNames}
<1> DEFINE f == [name \in ZoneNames |-> Split(name)]
<1>1. f \in Surjection(ZoneNames, T)
  BY DEF Surjection
<1>2. IsFiniteSet(T)
  BY <1>1, FS_Surjection, StartupAssumption DEF StartupAssumption
<1> QED BY <1>2, FS_Subset DEF ZonesOK

\* The strings of a time zone may be listed.
LEMMA ZoneItems ==
  ASSUME ZonesOK
  PROVE  \A zone \in zones : zone[1] \in Item /\ zone[2] \in Item
BY DEF ZonesOK, Split, Item, ZoneParts
\* A step of main that opens no window keeps the invariant, wherever it goes
\* except to the areas, and so does one that ends the program.
LEMMA AskedOn ==
  ASSUME Asked, exit = "none", windows = <<>>, ZonesOK',
         \/ UNCHANGED view /\ pc' # "area"
         \/ \E how \in {"success", "failure", "exception"} : End(how)
         \/ End("crash") /\ pc' = "test"
  PROVE  Asked'
<1>1. windows' = <<>> /\ <<>> \in Seq(Window)
  BY EmptySeq DEF view, End
<1>2. StackOK'
  BY <1>1 DEF StackOK
<1> QED BY <1>1, <1>2 DEF view, End, Asked, AreaChosen, CrashesOnEmptyLists

\* A step that leaves main where it is keeps what is known of the time zones.
LEMMA ZonesKept ==
  ASSUME ZonesOK, UNCHANGED <<opts, zones>>, pc' \in Filling \cup {"answerfile"} => pc \in Filling \cup {"answerfile"}
  PROVE  ZonesOK'
BY DEF ZonesOK, Has

\* A presenter opens the first window.
LEMMA FirstOpens ==
  ASSUME Asked, exit = "none", windows = <<>>, NEW window \in Window, NEW label, Ask(label, window),
         pc \in Filling, pc' \in Filling, FirstAsks'
  PROVE  Asked'
<1>1. windows' = <<window>> /\ exit' = "none"
  BY DEF Ask, Open
<1>2. StackOK'
  <2>1. windows' \in Seq(Window) /\ Len(windows') = 1 /\ DOMAIN windows' = {1}
    BY <1>1
  <2> QED BY <2>1 DEF StackOK
<1>3. ZonesOK'
  BY ZonesKept DEF Ask, setup, Asked
<1> QED BY <1>1, <1>2, <1>3 DEF Asked, AreaChosen, CrashesOnEmptyLists

\* Each presenter preserves the invariant.
LEMMA PresentersAsk ==
  ASSUME Asked, Presenters
  PROVE  Asked'
<1> USE DEF At, Filling
<1>1. CASE PresentWelcome \/ PresentInstructions
  BY <1>1, FirstOpens, WindowsMade DEF PresentWelcome, PresentInstructions, Ask, Open, FirstAsks
<1>2. CASE PresentGeneralSettings
  BY <1>2, FirstOpens, WindowsMade DEF PresentGeneralSettings, Ask, Open, FirstAsks
<1>3. CASE PresentBootTarget
  <2>1. BootTargets \in Seq(Item) /\ BootTargets # <<>>
    BY DEF BootTargets, Item
  <2> QED BY <1>3, <2>1, FirstOpens, WindowsMade DEF PresentBootTarget, Ask, Open, FirstAsks
<1>4. CASE PresentAreas
  <2> DEFINE areas == {zone[1] : zone \in zones}
  <2>1. IsFiniteSet(areas) /\ areas \subseteq Item
    BY FiniteZones, FiniteParts, ZoneItems DEF Asked
  <2>2. areas = {} => Has("dry")
    BY <1>4 DEF PresentAreas, Asked, ZonesOK
  <2> DEFINE list == SetToSeq(areas)
  <2>3. /\ list \in Seq(Item) /\ (list = <<>> => Has("dry"))
        /\ \A i \in DOMAIN list : \E zone \in zones : list[i] = zone[1]
    BY <2>1, <2>2, Listed
  <2>4. Ask("area", List(list))
    BY <1>4 DEF PresentAreas
  <2> HIDE DEF list
  <2>5. /\ List(list) \in Window /\ List(list).kind = "list" /\ List(list).items = list
    BY <2>3, WindowsMade
  <2>6. windows' = <<List(list)>> /\ pc' = "area" /\ UNCHANGED <<zones, opts>>
    BY <1>4, <2>4 DEF PresentAreas, Ask, Open, setup
  <2>7. FirstAsks'
    BY <2>3, <2>5, <2>6 DEF FirstAsks, Has
  <2> QED BY <1>4, <2>4, <2>5, <2>6, <2>7, FirstOpens DEF PresentAreas
<1>5. CASE PresentLocations
  <2> DEFINE chosen == {z \in zones : z[1] = returned[1]}
  <2> DEFINE locations == {zone[2] : zone \in chosen}
  <2>1. IsFiniteSet(chosen)
    BY FiniteZones, FS_Subset DEF Asked
  <2>2. IsFiniteSet(locations) /\ locations \subseteq Item
    BY <2>1, FiniteParts, ZoneItems DEF Asked
  <2>3. locations # {}
    BY <1>5 DEF PresentLocations, Asked, AreaChosen
  <2> DEFINE list == SetToSeq(locations)
  <2>4. list \in Seq(Item) /\ list # <<>>
    BY <2>2, <2>3, Listed
  <2>5. Ask("location", List(list))
    BY <1>5 DEF PresentLocations
  <2> HIDE DEF list
  <2>6. /\ List(list) \in Window /\ List(list).kind = "list" /\ List(list).items = list
    BY <2>4, WindowsMade
  <2>7. windows' = <<List(list)>> /\ pc' = "location"
    BY <1>5, <2>5 DEF PresentLocations, Ask, Open
  <2>8. FirstAsks'
    BY <2>4, <2>6, <2>7 DEF FirstAsks
  <2> QED BY <1>5, <2>5, <2>6, <2>7, <2>8, FirstOpens DEF PresentLocations
<1>6. CASE PresentTimeservers
  <2> DEFINE list == <<"0.br.pool.ntp.org">>
  <2>1. list \in Seq(Item)
    BY DEF Item
  <2>2. At("location") /\ Ask("timeservers", Collect(list))
    BY <1>6 DEF PresentTimeservers
  <2> HIDE DEF list
  <2>3. Collect(list) \in Window /\ Collect(list).kind = "collect"
    BY <2>1, WindowsMade
  <2>4. pc' = "timeservers" /\ FirstAsks'
    BY <2>2, <2>3 DEF Ask, Open, FirstAsks
  <2> QED BY <2>2, <2>3, <2>4, FirstOpens
<1>7. CASE PresentLocale
  BY <1>7, AskedOn, ZonesKept DEF PresentLocale, setup, Asked
<1> QED
  BY <1>1, <1>2, <1>3, <1>4, <1>5, <1>6, <1>7 DEF Presenters

\* Each button preserves it.
LEMMA PressAsks ==
  ASSUME Asked, Press, UNCHANGED main
  PROVE  Asked'
<1>1. /\ StackOK' /\ FirstStays /\ exit = "none" /\ windows # <<>>
      /\ \/ exit' \in {"none", "success"}
         \/ /\ exit' = "crash"
            /\ windows[1].kind = "collect" \/ (windows[1].kind = "list" /\ windows[1].items = <<>>)
      /\ windows' = <<>> /\ exit' = "none" /\ windows[1].kind = "list" =>
           \E i \in DOMAIN windows[1].items : returned' = <<windows[1].items[i]>>
  BY Pressed DEF Asked
<1>2. FirstAsks /\ UNCHANGED <<pc, opts, zones>>
  BY <1>1 DEF Asked, main, setup, cluster
<1>3. windows' # <<>> => FirstAsks'
  BY <1>1, <1>2 DEF FirstStays, FirstAsks, Has
<1>4. AreaChosen'
  BY <1>1, <1>2 DEF FirstAsks, AreaChosen
<1>5. CrashesOnEmptyLists'
  BY <1>1, <1>2 DEF FirstAsks, CrashesOnEmptyLists, Has
<1>6. ZonesOK'
  BY <1>2, ZonesKept DEF Asked
<1> QED BY <1>1, <1>3, <1>4, <1>5, <1>6 DEF Asked

\* Each step of the program and of the operator preserves it.
LEMMA AskedNext ==
  ASSUME Asked, [Next]_vars
  PROVE  Asked'
<1> USE DEF At
<1>1. CASE Factory \/ InitializeSingletonsOptions
  BY <1>1, AskedOn
  DEF Factory, InitializeSingletonsOptions, Throw, Stop, main, GoTo, setup, effects, cluster, Asked,
      ZonesOK, Has, Filling
<1>2. CASE Reject \/ Accept \/ NoPrompt \/ CLI
  BY <1>2, AskedOn
  DEF Reject, Accept, NoPrompt, CLI, Throw, Stop, main, GoTo, setup, effects, cluster, Asked,
      ZonesOK, Has, Filling
<1>3. CASE MakeModel
  <2>1. CASE Throw
    BY <1>3, <2>1, AskedOn, ZonesKept DEF MakeModel, Throw, Stop, main, setup, cluster, Asked
  <2>2. CASE ~Throw
    <3>1. zones' = FetchedZones /\ GoTo("answerfile") /\ UNCHANGED setup
      BY <1>3, <2>2 DEF MakeModel
    <3>2. ZonesOK'
      BY <3>1, StartupAssumption DEF StartupAssumption, ZonesOK, FetchedZones, setup, Has
    <3> QED BY <1>3, <3>1, <3>2, AskedOn DEF MakeModel, GoTo
  <2> QED BY <2>1, <2>2
<1>4. CASE NoZones
  BY <1>4, AskedOn, ZonesKept DEF NoZones, Throw, Stop, main, setup, cluster, Asked
<1>5. CASE FillData \/ PrintData
  BY <1>5, AskedOn, ZonesKept
  DEF FillData, PrintData, Throw, Stop, main, GoTo, setup, cluster, Asked, Filling
<1>6. CASE Presenters
  BY <1>6, PresentersAsk
<1>7. CASE Dump \/ InitializeSingletonsModel
  BY <1>7, AskedOn, ZonesKept
  DEF Dump, InitializeSingletonsModel, Throw, Stop, main, GoTo, setup, cluster, Asked, Filling
<1>8. CASE RunTestCommand \/ Install
  BY <1>8, AskedOn, ZonesKept DEF RunTestCommand, Install, Stop, main, setup, cluster, Asked, Filling
<1>9. CASE Yes \/ No
  BY <1>9, AskedOn, ZonesKept DEF Yes, No, Stop, main, GoTo, setup, cluster, Asked, Filling
<1>10. CASE Press /\ UNCHANGED main
  BY <1>10, PressAsks
<1>11. CASE UNCHANGED vars
  BY <1>11 DEF vars, main, view, setup, cluster, Asked, StackOK, ZonesOK, AreaChosen, FirstAsks,
              CrashesOnEmptyLists, Has
<1> QED
  BY <1>1, <1>2, <1>3, <1>4, <1>5, <1>6, <1>7, <1>8, <1>9, <1>10, <1>11
  DEF Next, Work, Operator, AskAgain

\* No window is there at first.
LEMMA AskedInit == Init => Asked
<1> SUFFICES ASSUME Init PROVE Asked
  OBVIOUS
<1>1. windows = <<>> /\ windows \in Seq(Window)
  BY DEF Init
<1>2. StackOK
  BY <1>1 DEF StackOK
<1> QED BY <1>1, <1>2 DEF Init, Asked, ZonesOK, AreaChosen, CrashesOnEmptyLists, Filling

\* The program reads past the end of a vector only in the areas of a dry run,
\* in the time servers, and in a test that has no argument, whatever the
\* operator presses: every other list has an entry.
THEOREM CrashesNowhereElse == Spec => []CrashesOnEmptyLists
<1>1. Asked => CrashesOnEmptyLists
  BY DEF Asked
<1> QED BY AskedInit, AskedNext, <1>1, PTL DEF Spec

\* The C strings that newt draws are those of the vector that the window was
\* opened with or the last button left: convertToNewtList follows each change.
THEOREM ListsShown == Spec => []ListShowsItems
<1>1. Asked => ListShowsItems
  <2> SUFFICES ASSUME Asked, NEW i \in DOMAIN windows, windows[i].kind \in {"list", "collect"}
               PROVE  windows[i].shown = windows[i].items
    BY DEF ListShowsItems
  <2>1. windows[i] \in Window
    BY DEF Asked, StackOK
  <2> QED BY <2>1, WindowKinds
<1> QED BY AskedInit, AskedNext, <1>1, PTL DEF Spec
=============================================================================
