-------------------------------- MODULE Desktop --------------------------------
(***************************************************************************)
(* The windows of the TV desktop: Compositor, DockItem and InputManager of *)
(* daemon/comp/imira-comp.cpp.  Everything runs in the event loop of       *)
(* imira-comp; an action is one event.  Qt's Wayland compositor is         *)
(* external: it tells when a surface is mapped, unmapped or destroyed.     *)
(*                                                                         *)
(* A window (WindowChrome) is named by its address, and an address is used *)
(* again.  The signals of a surface keep the address they were connected   *)
(* with for as long as the surface lives, InputManager those of a drag and *)
(* a resize until a left button is let go.  Mice come and go, so a button  *)
(* may be pressed twice, or never let go.  Sizes and places are left out:  *)
(* a click falls on any window that is not minimized.                      *)
(***************************************************************************)
EXTENDS Naturals, Sequences, FiniteSets

CONSTANTS
  Apps,       \* apps the dock may show
  Optional,   \* those the user may take out of it
  Clients,    \* processes
  AppOf,      \* of each process, its app
  Surfaces,   \* Wayland surfaces but for covers, which get no window
  Owner,      \* of each surface, its process
  Addresses,  \* where a WindowChrome may lie
  MaxHooks,   \* bound: addresses one surface is connected with
  MaxHeld,    \* bound: windows dragged and resized at once
  NoSurface

ASSUME ClientsAssumption ==
  /\ AppOf \in [Clients -> Apps] /\ Owner \in [Surfaces -> Clients]
  /\ NoSurface \notin Surfaces
  /\ Optional \subseteq Apps /\ Addresses \subseteq Nat /\ MaxHooks \in Nat \ {0}
  /\ MaxHeld \in 1..2

VARIABLES
  \* the clients
  proc,       \* none, sh (the shell that will become the app), app, dead
  surf,       \* none, mapped, hidden
  \* Compositor
  chromes,    \* m_chromes
  stack,      \* the windows by their z, the last on top
  of,         \* of each address, the surface of the window there, or NoSurface
  minimized,  \* windows
  hooks,      \* of each surface, the addresses its signals are connected with
  focus,      \* keyboard focus
  \* DockItem and InputManager
  docked,     \* m_apps
  grab,       \* m_drag and m_resize: none, one or two windows
  ended       \* imira-comp has crashed

clientVars == <<proc, surf>>
windowVars == <<chromes, stack, of, minimized, focus>>
inputVars == <<docked, grab>>
desktopVars == <<clientVars, windowVars, hooks, inputVars, ended>>

Elements(q) == {q[i] : i \in DOMAIN q}
Distinct(q) == \A i, j \in DOMAIN q : q[i] = q[j] => i = j
Top(q) == q[Len(q)]

\* q without the windows of W: its n-th is the n-th of q that is kept
Rank(K, i) == Cardinality({j \in K : j <= i})
Without(q, W) ==
  LET K == {i \in DOMAIN q : q[i] \notin W}
  IN [n \in 1..Cardinality(K) |-> q[CHOOSE i \in K : Rank(K, i) = n]]

DesktopTypeOK ==
  /\ proc \in [Clients -> {"none", "sh", "app", "dead"}]
  /\ surf \in [Surfaces -> {"none", "mapped", "hidden"}]
  /\ of \in [Addresses -> Surfaces \cup {NoSurface}]
  /\ {w \in Addresses : of[w] # NoSurface} = Elements(chromes)
  /\ chromes \in Seq(Addresses) /\ Distinct(chromes)
  /\ minimized \subseteq Elements(chromes)
  /\ hooks \in [Surfaces -> SUBSET Addresses] /\ focus \in Surfaces \cup {NoSurface}
  /\ docked \subseteq Apps /\ ended \in BOOLEAN
  /\ grab \subseteq Addresses /\ Cardinality(grab) <= MaxHeld

NoClients == [c \in Clients |-> "none"]
NoSurfaces == [s \in Surfaces |-> "none"]
NoWindows == [w \in Addresses |-> NoSurface]
NoHooks == [s \in Surfaces |-> {}]

DesktopInit ==
  /\ proc = NoClients /\ surf = NoSurfaces /\ chromes = <<>> /\ stack = <<>>
  /\ of = NoWindows /\ minimized = {} /\ hooks = NoHooks /\ focus = NoSurface
  /\ docked = Apps /\ grab = {} /\ ended = FALSE

--------------------------------------------------------------------------------
(* Compositor *)

\* Mutant: a window keeps its place in the list.
RaiseDrawnOnly(w) ==
  /\ chromes' = IF w \in Elements(chromes) THEN chromes ELSE Append(chromes, w)
  /\ stack' = Append(Without(stack, {w}), w)
  /\ focus' = of'[w]

\* raise()
Raise(w) ==
  /\ chromes' = Append(Without(chromes, {w}), w)
  /\ stack' = Append(Without(stack, {w}), w)
  /\ focus' = of'[w]

\* removeChrome() for the windows of W that are listed; the last one left is
\* raised.  deleteLater() comes before the next event.
RemoveChromes(W, otherwise) ==
  LET gone == W \cap Elements(chromes)
      left == Without(chromes, gone)
  IN /\ of' = [w \in Addresses |-> IF w \in gone THEN NoSurface ELSE of[w]]
     /\ minimized' = minimized \ gone
     /\ chromes' = left
     /\ IF gone = {} \/ left = <<>>
        THEN stack' = Without(stack, gone) /\ focus' = otherwise
        ELSE /\ stack' = Append(Without(stack, gone \cup {Top(left)}), Top(left))
             /\ focus' = of[Top(left)]

\* Free memory; that which nobody refers to is all alike
FreeAddresses ==
  LET free == {w \in Addresses : of[w] = NoSurface}
      stale == {w \in free : w \in grab \/ \E s \in Surfaces : w \in hooks[s]}
  IN stale \cup {w \in free \ stale : \A v \in free \ stale : w <= v}

\* surfaceCreated() and the mapped signal
Map(s) ==
  /\ surf[s] # "mapped" /\ proc[Owner[s]] = "app" /\ surf' = [surf EXCEPT ![s] = "mapped"]
  /\ Cardinality(hooks[s]) < MaxHooks
  /\ \E w \in FreeAddresses :
       /\ of' = [of EXCEPT ![w] = s] /\ Raise(w)
       /\ hooks' = [hooks EXCEPT ![s] = @ \cup {w}]
  /\ UNCHANGED <<proc, minimized, inputVars, ended>>

\* Mutant: the unmapped signal is not connected.
UnmapUnseen(s) ==
  /\ surf[s] = "mapped" /\ proc[Owner[s]] = "app" /\ surf' = [surf EXCEPT ![s] = "hidden"]
  /\ UNCHANGED <<windowVars, proc, hooks, inputVars, ended>>

\* The unmapped signal: the client hides its window
Unmap(s) ==
  /\ surf[s] = "mapped" /\ proc[Owner[s]] = "app" /\ surf' = [surf EXCEPT ![s] = "hidden"]
  /\ RemoveChromes(hooks[s], focus) /\ UNCHANGED <<proc, hooks, inputVars, ended>>

\* surfaceDestroyed, destroyed: closed by the client or with its connection
Destroy(s) ==
  /\ surf[s] # "none" /\ surf' = [surf EXCEPT ![s] = "none"]
  /\ RemoveChromes(hooks[s], IF focus = s THEN NoSurface ELSE focus)
  /\ hooks' = [hooks EXCEPT ![s] = {}]
  /\ LET left == {t \in Surfaces \ {s} : Owner[t] = Owner[s] /\ surf[t] # "none"}
     IN proc' = [proc EXCEPT ![Owner[s]] = IF @ = "dead" /\ left = {} THEN "none" ELSE @]
  /\ UNCHANGED <<inputVars, ended>>

\* Whoever uses the address of a window that is gone may bring imira-comp
\* down, and its clients with it: sizeChanged, contentOrientationChanged or
\* titleChanged of a surface that was hidden, the mouse in a drag
StaleUse ==
  /\ \/ \E s \in Surfaces : \E w \in hooks[s] : of[w] = NoSurface
     \/ \E w \in grab : of[w] = NoSurface
  /\ ended' = TRUE /\ UNCHANGED docked
  /\ proc' = NoClients /\ surf' = NoSurfaces /\ chromes' = <<>> /\ stack' = <<>>
  /\ of' = NoWindows /\ minimized' = {} /\ hooks' = NoHooks /\ focus' = NoSurface
  /\ grab' = {}

--------------------------------------------------------------------------------
(* Processes *)

Exec(c) ==
  /\ proc[c] = "sh" /\ proc' = [proc EXCEPT ![c] = "app"]
  /\ UNCHANGED <<surf, windowVars, hooks, inputVars, ended>>

\* On its own or by the SIGTERM of closeWindow(); its windows may stay
Dies(c) ==
  /\ proc[c] = "app"
  /\ LET left == {s \in Surfaces : Owner[s] = c /\ surf[s] # "none"}
     IN proc' = [proc EXCEPT ![c] = IF left = {} THEN "none" ELSE "dead"]
  /\ UNCHANGED <<surf, windowVars, hooks, inputVars, ended>>

--------------------------------------------------------------------------------
(* The dock *)

IsOf(a, w) == proc[Owner[of[w]]] = "app" /\ AppOf[Owner[of[w]]] = a

\* Mutant: the topmost window of the app.
FindTop(a) ==
  LET at == {i \in DOMAIN chromes : IsOf(a, chromes[i])}
  IN {chromes[i] : i \in {j \in at : \A k \in at : k <= j}}

\* findByComm()
FindByComm(a) ==
  LET at == {i \in DOMAIN chromes : IsOf(a, chromes[i])}
  IN {chromes[i] : i \in {j \in at : \A k \in at : j <= k}}

\* activateExisting(), restoreWindow()
Activate(a) ==
  \E w \in FindByComm(a) :
    /\ UNCHANGED <<of, proc>> /\ Raise(w) /\ minimized' = minimized \ {w}

\* With a window or without, here or on the phone
AlreadyRunning(a) == \E c \in Clients : AppOf[c] = a /\ proc[c] = "app"

Launch(a) ==
  /\ FindByComm(a) = {} /\ ~AlreadyRunning(a)
  /\ \E c \in Clients :
       /\ AppOf[c] = a /\ proc[c] = "none" /\ proc' = [proc EXCEPT ![c] = "sh"]
  /\ UNCHANGED windowVars

\* handleClick()
DockClick(a) ==
  /\ a \in docked
  /\ Activate(a) \/ Launch(a)
  /\ UNCHANGED <<surf, hooks, inputVars, ended>>

\* The user has chosen A besides the apps that stay
LoadApps(A) == docked' = (Apps \ Optional) \cup A

Reload ==
  /\ \E A \in SUBSET Optional : LoadApps(A)
  /\ UNCHANGED <<clientVars, windowVars, hooks, grab, ended>>

--------------------------------------------------------------------------------
(* The mouse *)

\* Some place of the screen has w on top, unless it is minimized
ChromeAt == Elements(chromes) \ minimized

\* An edge is held in m_resize, the title bar in m_drag; K is in the other
Hold(w) ==
  /\ \E K \in SUBSET grab :
       /\ Cardinality(grab) - 1 <= Cardinality(K) /\ Cardinality(K) <= 1
       /\ grab' = K \cup {w} /\ Cardinality(grab') <= MaxHeld
  /\ UNCHANGED minimized

\* minimizeWindow()
Minimize(w) == minimized' = minimized \cup {w} /\ UNCHANGED grab

\* The content, or a button that only changes the size
Refit == UNCHANGED <<minimized, grab>>

Press(w) ==
  /\ of' = of /\ Raise(w)
  /\ Hold(w) \/ Minimize(w) \/ Refit

\* closeWindow(), after raise(): the frame of a dead client is removed, and
\* another raised; a living one is told to end
Close(w) ==
  /\ UNCHANGED grab
  /\ IF proc[Owner[of[w]]] = "dead"
     THEN RemoveChromes({w}, of[w])
     ELSE of' = of /\ Raise(w) /\ UNCHANGED minimized

Click ==
  /\ \E w \in ChromeAt : Press(w) \/ Close(w)
  /\ UNCHANGED <<clientVars, hooks, docked, ended>>

Release ==
  /\ grab # {} /\ grab' = {}
  /\ UNCHANGED <<clientVars, windowVars, hooks, docked, ended>>

--------------------------------------------------------------------------------
DesktopNext ==
  /\ ~ended
  /\ \/ \E s \in Surfaces : Map(s) \/ Unmap(s) \/ Destroy(s)
     \/ \E c \in Clients : Exec(c) \/ Dies(c)
     \/ \E a \in Apps : DockClick(a)
     \/ Click \/ Reload \/ Release \/ StaleUse

DesktopSpec == DesktopInit /\ [][DesktopNext]_desktopVars

--------------------------------------------------------------------------------
(* Properties *)

\* "The chrome must never outlive [its surface]" (imira-comp.cpp 688-689):
\* each window on the list is of a surface that is mapped, and no surface
\* has two, however often it is hidden and shown again.
ChromeHasSurface ==
  /\ \A w \in Elements(chromes) : surf[of[w]] = "mapped"
  /\ \A v, w \in Elements(chromes) : of[v] = of[w] => v = w

\* "Stacking order = list order" (imira-comp.cpp 708): a click goes to the
\* window that is seen, the one drawn above the others under the cursor.
StackIsDrawn == chromes = stack

\* Windows of its app that the dock finds before w
Ahead(w) ==
  LET place(v) == CHOOSE i \in DOMAIN chromes : chromes[i] = v
  IN Cardinality({v \in Elements(chromes) :
                    IsOf(AppOf[Owner[of[w]]], v) /\ place(v) < place(w)})

\* A minimized window of a living app comes back by clicks on its icon, as
\* many as the app has windows: nothing puts another window before it, and
\* each click restores it or puts the one before it behind (findByComm,
\* restoreWindow, raise).
MinimizedComesNearer ==
  [][\A w \in minimized :
       proc[Owner[of[w]]] = "app" /\ w \in minimized' /\ of'[w] = of[w] =>
         /\ Ahead(w)' <= Ahead(w)
         /\ DockClick(AppOf[Owner[of[w]]]) => Ahead(w)' < Ahead(w)]_desktopVars
================================================================================
