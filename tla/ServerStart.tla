---------------------------- MODULE ServerStart ----------------------------
(***************************************************************************)
(* The API server's process from main() of cmd/eventlet/apmec_server.py to *)
(* the listening socket: the extensions of api/extensions.py, the plugins  *)
(* of manager.py, the controllers, and the socket of wsgi.py, with         *)
(* api_workers = 0.  Dictionaries are iterated in any order, as Python 2   *)
(* does; under Python 3 the loop of extend_resources, which deletes from   *)
(* the dict it iterates over, would raise RuntimeError.                    *)
(***************************************************************************)
EXTENDS Integers, Sequences, FiniteSets

CONSTANTS
  Files,       \* the extension files, in their sorted order: each the alias it
               \* loads, or None when it holds no sound extension
  None,
  Extending,   \* the aliases that have get_extended_resources
  Requires,    \* Requires[e]: their get_required_extensions
  Configs,     \* the values service_plugins may have, with commonservices: the
               \* type each plugin provides, None if it cannot be imported
  PluginOf,    \* PluginOf[e]: the type whose plugin e's controllers call, or None
  HostFails,   \* whether the host's address or SSL files may be missing
  Window,      \* retry_until_window, in turns of the loop that listens
  MaxBoots     \* bound: how often the server is started

Range1(f)  == {f[x] : x \in DOMAIN f}
Extension  == Range1(Files) \ {None}
ASSUME StartAssumption ==
  /\ Len(Files) \in Nat /\ DOMAIN Files = 1..Len(Files)
  /\ DOMAIN Requires = Extension /\ DOMAIN PluginOf = Extension
  /\ Extending \subseteq Extension
  /\ HostFails \in BOOLEAN /\ Window \in Nat /\ MaxBoots \in Nat

VARIABLES
  phase,       \* "down", "files", "extend", "update", "plugins", "routes",
               \* "bind", "serving", or "failed"
  nextFile,    \* the file to load
  extensions,  \* ExtensionManager.extensions: the aliases loaded
  waiting,     \* exts_to_process
  turn,        \* the rest of the copy of exts_to_process one pass iterates over
  before,      \* processed_ext_count of the pass
  extended,    \* processed_exts, in the order their attributes were added
  updates,     \* update_exts
  mapped,      \* the extensions whose update_attributes_map has run
  plugins,     \* the types of ApmecManager.service_plugins
  routes,      \* the extensions whose controllers are routed
  tries,       \* turns of the loop that listens
  port,        \* who has the port: "free", "us", or "other", another process
  boots
startVars == <<phase, nextFile, extensions, waiting, turn, before, extended, updates,
               mapped, plugins, routes, tries, port, boots>>
extVars   == <<waiting, turn, before, extended, updates, mapped>>

Processed == Range1(extended)
Serving   == phase = "serving"

Fresh ==
  /\ nextFile' = 1 /\ extensions' = {} /\ waiting' = {} /\ turn' = {} /\ before' = 0
  /\ extended' = <<>> /\ updates' = <<>> /\ mapped' = {} /\ plugins' = {}
  /\ routes' = {} /\ tries' = 0

StartInit ==
  /\ phase = "down" /\ nextFile = 1 /\ extensions = {} /\ waiting = {} /\ turn = {}
  /\ before = 0 /\ extended = <<>> /\ updates = <<>> /\ mapped = {} /\ plugins = {}
  /\ routes = {} /\ tries = 0 /\ port \in {"free", "other"} /\ boots = 0

\* main: load_paste_app, whose router asks for the ExtensionManager
Boot ==
  /\ phase = "down" /\ boots < MaxBoots
  /\ boots' = boots + 1
  /\ phase' = "files"
  /\ UNCHANGED <<nextFile, extensions, extVars, plugins, routes, tries, port>>

\* _load_all_extensions_from_path and add_extension: a file that fails, or
\* whose alias is taken, is passed over.
LoadFile ==
  /\ phase = "files" /\ nextFile <= Len(Files)
  /\ nextFile' = nextFile + 1
  /\ extensions' = extensions \union ({Files[nextFile]} \ {None})
  /\ UNCHANGED <<phase, extVars, plugins, routes, tries, port, boots>>

\* extend_resources begins; a pass of its loop begins in NextPass.
FilesLoaded ==
  /\ phase = "files" /\ nextFile > Len(Files)
  /\ phase' = IF extensions = {} THEN "update" ELSE "extend"
  /\ waiting' = extensions /\ turn' = extensions /\ before' = 0
  /\ UNCHANGED <<nextFile, extensions, extended, updates, mapped, plugins, routes,
                 tries, port, boots>>

\* Mutant: it is enough that the requirements are loaded.
ReadyIfLoaded(e) == Requires[e] \subseteq extensions

\* required_exts_set - processed_exts is empty
Ready(e) == Requires[e] \subseteq Processed

\* The body of the for loop.  Every extension is noted for the update of
\* its attributes, at each pass, whether its requirements are met or not.
Extend(e) ==
  /\ phase = "extend" /\ e \in turn
  /\ turn' = turn \ {e}
  /\ IF e \notin Extending
     THEN waiting' = waiting \ {e} /\ UNCHANGED <<extended, updates>>
     ELSE /\ updates' = Append(updates, e)
          /\ IF Ready(e)
             THEN waiting' = waiting \ {e} /\ extended' = Append(extended, e)
             ELSE UNCHANGED <<waiting, extended>>
  /\ UNCHANGED <<phase, nextFile, extensions, before, mapped, plugins, routes, tries,
                 port, boots>>

\* Mutant: a pass that processed something is the last one.
ProgressEnds == Len(extended) = before
Progress == Len(extended) # before

\* Mutant: each pass is over all the extensions loaded.
NextPassOverAll ==
  /\ phase = "extend" /\ turn = {}
  /\ IF Progress /\ waiting # {}
     THEN turn' = extensions /\ before' = Len(extended) /\ UNCHANGED phase
     ELSE phase' = "update" /\ UNCHANGED <<turn, before>>
  /\ UNCHANGED <<nextFile, extensions, waiting, extended, updates, mapped, plugins,
                 routes, tries, port, boots>>

\* The end of a pass: the loop goes on while there is something to process
\* and the pass has processed something.
NextPass ==
  /\ phase = "extend" /\ turn = {}
  /\ IF Progress /\ waiting # {}
     THEN turn' = waiting /\ before' = Len(extended) /\ UNCHANGED phase
     ELSE phase' = "update" /\ UNCHANGED <<turn, before>>
  /\ UNCHANGED <<nextFile, extensions, waiting, extended, updates, mapped, plugins,
                 routes, tries, port, boots>>

\* The loop over update_exts
UpdateAttributes ==
  /\ phase = "update"
  /\ IF updates = <<>> THEN phase' = "plugins" /\ UNCHANGED <<updates, mapped>>
     ELSE /\ updates' = Tail(updates)
          /\ mapped' = mapped \union {Head(updates)}
          /\ UNCHANGED phase
  /\ UNCHANGED <<nextFile, extensions, waiting, turn, before, extended, plugins, routes,
                 tries, port, boots>>

\* ApmecManager._load_service_plugins: a plugin that is missing
\* (ImportError) or a second one of a type (ValueError) ends the process.
LoadPlugins ==
  /\ phase = "plugins"
  /\ \E providers \in Configs :
       IF \/ None \in Range1(providers)
          \/ \E i, k \in DOMAIN providers : i # k /\ providers[i] = providers[k]
       THEN phase' = "failed" /\ UNCHANGED plugins
       ELSE phase' = "routes" /\ plugins' = Range1(providers)
  /\ UNCHANGED <<nextFile, extensions, extVars, routes, tries, port, boots>>

\* ExtensionMiddleware: the controllers of one extension after the other.
\* get_service_plugins()[type] raises KeyError for a plugin that is not
\* configured, and load_paste_app makes a RuntimeError of it.
Route(e) ==
  /\ phase = "routes" /\ e \in extensions \ routes
  /\ IF PluginOf[e] \in plugins \union {None}
     THEN routes' = routes \union {e} /\ UNCHANGED phase
     ELSE phase' = "failed" /\ UNCHANGED routes
  /\ UNCHANGED <<nextFile, extensions, extVars, plugins, tries, port, boots>>
Routed ==
  /\ phase = "routes" /\ routes = extensions
  /\ phase' = "bind"
  /\ UNCHANGED <<nextFile, extensions, extVars, plugins, routes, tries, port, boots>>

\* Server._get_socket: getaddrinfo or one of the SSL files fails.
SocketRefused ==
  /\ phase = "bind" /\ tries = 0 /\ HostFails
  /\ phase' = "failed"
  /\ UNCHANGED <<nextFile, extensions, extVars, plugins, routes, tries, port, boots>>

\* Mutant: the window starts anew with every try.
ListenAnew ==
  /\ phase = "bind"
  /\ IF port = "free" THEN phase' = "serving" /\ port' = "us" /\ UNCHANGED tries
     ELSE tries' = 1 /\ UNCHANGED <<phase, port>>
  /\ UNCHANGED <<nextFile, extensions, extVars, plugins, routes, boots>>

\* Its loop: eventlet.listen succeeds, or finds the address in use and is
\* tried again until the window is over.
Listen ==
  /\ phase = "bind"
  /\ IF tries >= Window THEN phase' = "failed" /\ UNCHANGED <<port, tries>>
     ELSE IF port = "free" THEN phase' = "serving" /\ port' = "us" /\ UNCHANGED tries
     ELSE tries' = tries + 1 /\ UNCHANGED <<phase, port>>
  /\ UNCHANGED <<nextFile, extensions, extVars, plugins, routes, boots>>

\* Another process, a former server perhaps, lets go of the port.
PortFreed ==
  /\ port = "other"
  /\ port' = "free"
  /\ UNCHANGED <<phase, nextFile, extensions, extVars, plugins, routes, tries, boots>>

\* A signal, a crash: WsgiService.stop does nothing, so nothing is waited
\* for, and all that was loaded is gone.
Stop ==
  /\ phase # "down"
  /\ phase' = "down"
  /\ port' = IF port = "us" THEN "free" ELSE port
  /\ Fresh
  /\ UNCHANGED boots

Starting == \/ Boot \/ LoadFile \/ FilesLoaded \/ NextPass \/ UpdateAttributes
            \/ LoadPlugins \/ Routed \/ SocketRefused \/ Listen
            \/ \E e \in Extension : Extend(e) \/ Route(e)
StartNext == Starting \/ PortFreed \/ Stop

(* The attributes of an extension are added after those of all it requires, *)
(* whatever the order the dict of extensions is iterated in.                *)
RequiredFirst ==
  \A i \in DOMAIN extended : \A r \in Requires[extended[i]] : \E k \in 1..(i - 1) : extended[k] = r

(* When the loop gives up, no extension it left out had its requirements    *)
(* processed: with RequiredFirst, the extensions processed are the least    *)
(* set closed under the requirements, the same on every server.             *)
NoneLeftReady ==
  phase \notin {"down", "files", "extend"} => \A e \in waiting : ~Ready(e)

(* A start ends: the server listens or its process fails, whatever the      *)
(* extensions require of each other and whoever has the port.               *)
StartEnds == [](phase = "files" => <>(phase \in {"serving", "failed", "down"}))
=============================================================================
