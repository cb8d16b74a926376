---------------------------- MODULE GameSceneContext ----------------------------
(***************************************************************************)
(* The life of the game: Engine::Run, Game::LoadContent, Update, Render    *)
(* and UnloadContent, and the scene switch of Engine/src/GameSceneContext, *)
(* over the singletons of the engine that the scenes create and destroy.   *)
(*                                                                         *)
(* The program is one thread.  The user is not: a digit key may go down at *)
(* any time, in the middle of loading a scene too, and GetAsyncKeyState    *)
(* keeps that press until it is asked for that key.                        *)
(***************************************************************************)
EXTENDS Scenes

CONSTANTS Digit       \* the digit keys the user presses
ASSUME DigitAssumption == Digit \subseteq Scene

VARIABLES
  pc,           \* where the thread is
  todo,         \* the calls of Load or Unload still to make
  next,         \* the argument of the SetState in progress
  digit,        \* the key Game::Update looks at next; 6 when it is through
  latched,      \* keys pressed since they were last asked for
  pState, activeScene, isLoaded,   \* GameSceneContext; pState 0 is nullptr
  device,       \* StateDirectXMan has an instance
  mgr,          \* per singleton: none, or an instance that is empty or filled
  current,      \* the camera types CameraNodeMan has a current camera of
  posDefaultCompareStrategy,       \* ManBase's static: allocated or not
  keeps,        \* pointers to live objects
  dangling      \* pointers to objects that were deleted

context == <<pState, activeScene, isLoaded>>
engine == <<mgr, current, posDefaultCompareStrategy, keeps, dangling>>
vars == <<pc, todo, next, digit, latched, context, device, engine>>

Exists(m) == mgr[m] # "none"

------------------------------------------------------------------------------
Init ==
  /\ pc = "start" /\ todo = <<>> /\ next = 1 /\ digit = 6 /\ latched = {}
  /\ pState = 0 /\ activeScene = 1 /\ isLoaded = FALSE
  /\ device = FALSE
  /\ mgr = [m \in Manager |-> "none"]
  /\ current = {} /\ posDefaultCompareStrategy = FALSE
  /\ keeps = {} /\ dangling = {}

\* The user presses a key.
Press(d) ==
  /\ pc # "over"
  /\ latched' = latched \cup {d}
  /\ UNCHANGED <<pc, todo, next, digit, context, device, engine>>

\* GameSceneContext::SetState up to its first call: the scene that is loaded
\* is not loaded again, any other one is unloaded first.
SetState(s) ==
  IF isLoaded /\ pState # 0 /\ s = activeScene
  THEN UNCHANGED <<pc, todo, next>>
  ELSE /\ pc' = "unloading"
       /\ next' = s
       /\ todo' = IF isLoaded /\ pState # 0 THEN Unload(pState) ELSE <<>>

\* wWinMain: InitDirectX, then LoadContent asks for scene 1.
Start ==
  /\ pc = "start"
  /\ device' = TRUE
  /\ SetState(1)
  /\ UNCHANGED <<digit, latched, context, engine>>

\* One call of Load or Unload.
Perform ==
  /\ todo # <<>>
  /\ LET c == Head(todo)
         gone == IF c.op = "destroy" THEN c.on ELSE {}
         lost == {p \in keeps : p[2] \in gone}
     IN  /\ mgr' = [m \in Manager |->
                      IF m \notin c.on THEN mgr[m]
                      ELSE CASE c.op = "create" -> "empty"
                             [] c.op = "destroy" -> "none"
                             [] c.op = "add" -> "filled"
                             [] OTHER -> mgr[m]]
         /\ current' = IF "Camera" \in gone THEN {}
                       ELSE current \cup ({c.op} \cap CameraType)
         /\ posDefaultCompareStrategy' =
              IF c.on \in {{"System"}, {"World"}} THEN posDefaultCompareStrategy
              ELSE CASE c.op = "create" -> TRUE
                     [] c.op = "destroy" -> FALSE
                     [] OTHER -> posDefaultCompareStrategy
         /\ keeps' = {p \in keeps \ lost : p[1] \notin gone} \cup c.keeps
         /\ dangling' = {p \in dangling \cup lost : p[1] \notin gone}
  /\ todo' = Tail(todo)
  /\ UNCHANGED <<pc, next, digit, latched, context, device>>

\* Mutant: activeScene keeps the scene before.
EnterUnnoticed ==
  /\ pc = "unloading" /\ todo = <<>>
  /\ pState' = next /\ isLoaded' = FALSE
  /\ todo' = Load(next) /\ pc' = "loading"
  /\ UNCHANGED <<next, digit, latched, activeScene, device, engine>>

\* SetState between the two: the new scene becomes the state and is loaded.
Enter ==
  /\ pc = "unloading" /\ todo = <<>>
  /\ pState' = next /\ activeScene' = next /\ isLoaded' = FALSE
  /\ todo' = Load(next) /\ pc' = "loading"
  /\ UNCHANGED <<next, digit, latched, device, engine>>

\* Load returns true in every scene; LoadContent or Game::Update goes on.
Loaded ==
  /\ pc = "loading" /\ todo = <<>>
  /\ isLoaded' = TRUE
  /\ pc' = IF digit = 6 THEN "peek" ELSE "keys"
  /\ digit' = IF digit = 6 THEN 6 ELSE digit + 1
  /\ UNCHANGED <<todo, next, latched, pState, activeScene, device, engine>>

\* PeekMessage finds nothing: a frame begins.
Idle ==
  /\ pc = "peek"
  /\ pc' = "keys" /\ digit' = 1
  /\ UNCHANGED <<todo, next, latched, context, device, engine>>

\* Mutant: the loop ends without UnloadContent.
QuitLoaded ==
  /\ pc = "peek" /\ pc' = "closing"
  /\ UNCHANGED <<todo, next, digit, latched, context, device, engine>>

\* Escape or the closed window: PeekMessage finds WM_QUIT, the loop ends, and
\* UnloadContent shuts the context down.
Quit ==
  /\ pc = "peek" /\ pc' = "closing"
  /\ todo' = IF isLoaded /\ pState # 0 THEN Unload(pState) ELSE <<>>
  /\ UNCHANGED <<next, digit, latched, context, device, engine>>

\* The key that was not pressed since it was last asked for.
KeyUp ==
  /\ pc = "keys" /\ digit \in Scene \ latched
  /\ digit' = digit + 1
  /\ UNCHANGED <<pc, todo, next, latched, context, device, engine>>

\* Mutant: asking for one key forgets the presses of all.
KeyDownOfAll ==
  /\ pc = "keys" /\ digit \in latched
  /\ latched' = {}
  /\ SetState(digit)
  /\ digit' = IF pc' = "keys" THEN digit + 1 ELSE digit
  /\ UNCHANGED <<context, device, engine>>

\* A key that was: asking forgets the press, and its scene is set.
KeyDown ==
  /\ pc = "keys" /\ digit \in latched
  /\ latched' = latched \ {digit}
  /\ SetState(digit)
  /\ digit' = IF pc' = "keys" THEN digit + 1 ELSE digit
  /\ UNCHANGED <<context, device, engine>>

KeysRead ==
  /\ pc = "keys" /\ digit = 6
  /\ pc' = "update"
  /\ UNCHANGED <<todo, next, digit, latched, context, device, engine>>

\* WorldMan::GetWorld makes a World when there is none.
GetWorld == mgr' = [mgr EXCEPT !["World"] = "filled"]

\* Update of the scene, then Game::Render: both only read the singletons.
Update ==
  /\ pc = "update" /\ pc' = "render"
  /\ GetWorld
  /\ UNCHANGED <<todo, next, digit, latched, context, device,
                 current, posDefaultCompareStrategy, keeps, dangling>>

Render ==
  /\ pc = "render" /\ pc' = "peek"
  /\ GetWorld
  /\ UNCHANGED <<todo, next, digit, latched, context, device,
                 current, posDefaultCompareStrategy, keeps, dangling>>

\* UnloadContent deletes the context, GameMan::Destroy the game: ~Engine
\* destroys the device.
Close ==
  /\ pc = "closing" /\ todo = <<>>
  /\ pc' = "over"
  /\ pState' = 0 /\ isLoaded' = FALSE /\ device' = FALSE
  /\ UNCHANGED <<todo, next, digit, latched, activeScene, engine>>

Program == \/ Start \/ Perform \/ Enter \/ Loaded
           \/ Idle \/ KeyUp \/ KeyDown \/ KeysRead \/ Update \/ Render \/ Close

Next == Program \/ Quit \/ \E d \in Digit : Press(d)

\* The thread runs, and the message queue is empty again and again: Idle is a
\* step of the program, and Engine::Run takes it only when PeekMessage finds
\* nothing.  Nobody has to press a key or to quit.
Spec == Init /\ [][Next]_vars /\ WF_vars(Program)

------------------------------------------------------------------------------
(* Properties.                                                             *)

\* No call of Load or Unload asserts or dereferences null, whichever scenes
\* came before: Create finds no instance (TexNodeMan.cpp:70), the others find
\* one, and a Find looks into a manager that is not empty: TexNodeMan::Find
\* dereferences what baseFind returns.  (World is made on first use.)
CallSucceeds ==
  todo # <<>> =>
    LET c == Head(todo)
    IN  /\ \A m \in c.on \ {"World"} : Exists(m) <=> c.op # "create"
        /\ \A m \in c.finds : mgr[m] = "filled"
        /\ device

\* A frame meets only live objects: what Update and Render look up is there,
\* both current cameras are set, and no component, image, glyph or animation
\* points to an object that an Unload deleted.
FrameFindsLiveObjects ==
  /\ pc = "update" => \A m \in UpdateNeeds(pState) : mgr[m] # "none"
  /\ pc = "render" => \A m \in RenderNeeds(pState) : mgr[m] # "none"
  /\ pc \in {"update", "render"} => dangling = {} /\ current = CameraType

\* A frame updates the scene whose objects are in the World: it is the active
\* one, it is loaded, and exactly its own singletons exist.
RightSceneRuns ==
  pc \in {"update", "render"} =>
    /\ isLoaded /\ pState = activeScene
    /\ {m \in Manager : Exists(m)} =
         {"World"} \cup UNION {c.on : c \in {Load(pState)[i] :
                                             i \in 1..Len(Load(pState))}}

\* Unload undoes Load, in the order the code has: when the next scene is
\* about to load, and when the device is destroyed, no singleton, no current
\* camera, no pointer and no compare strategy of the last scene is left.
NothingOutlivesScene ==
  (pc = "unloading" /\ todo = <<>>) \/ ~device =>
    /\ \A m \in Manager : ~Exists(m)
    /\ current = {} /\ keeps = {} /\ dangling = {}
    /\ ~posDefaultCompareStrategy

\* A key press is never lost, not even one during the loading of another
\* scene: the scene of that key is entered and loaded some time later, unless
\* the user closes the game first.
PressAnswered ==
  \A d \in Digit :
    d \in latched /\ pc \notin {"closing", "over"} ~>
      (isLoaded /\ pState = d /\ activeScene = d) \/ pc = "closing"

\* Quitting ends the program with everything freed.
QuitFreesAll ==
  pc = "closing" ~> pc = "over" /\ ~device /\ \A m \in Manager : ~Exists(m)
==============================================================================
