------------------------------- MODULE Startup -------------------------------
(***************************************************************************)
(* What happens before slserver serves: config.lua calls functions of      *)
(* Config (config.cpp), main opens the store that was asked for (main.cpp) *)
(* and PluginRegistry loads the plugins (pluginregistry.cpp).  A script    *)
(* may call the functions in any order; it has no libraries, so an error   *)
(* that is raised in it ends it, and nothing catches what main throws.     *)
(***************************************************************************)
EXTENDS Naturals, FiniteSets

CONSTANTS Names,      \* of plugins, numbered in the order of std::map
          Libraries,  \* files that can be loaded
          Declares,   \* what name() of a library returns; None without a create()
          NeedsUrl,   \* libraries whose setup() wants the url of a database
          Tables,     \* the settings that a script may write
          None

(* A table without entries is read as null (readObject).  `file' may name  *)
(* what cannot be loaded, be missing, or be a table.                       *)
Null     == [file |-> "null", url |-> FALSE]
Settings == [file : Libraries \union {"unloadable", "table"}, url : BOOLEAN] \union {Null}

Causes   == {"ConfigError", "PersistenceError", "exit", "crash", "signal"}

ASSUME StartConstants ==
    /\ Tables \subseteq Settings
    /\ Names \subseteq Nat
    /\ None \notin Names /\ None \notin Causes
    /\ Declares \in [Libraries -> Names \union {None}]
    /\ {"null", "unloadable", "table"} \intersect Libraries = {}

VARIABLES
    phase,            \* how far main has come
    persistenceType,
    currentPlugin,    \* the name that Plugin was called with last
    pluginConfig,     \* name -> settings
    persistence,      \* the store that main has made
    todo,             \* the names that loadPlugins has not come to
    plugins,          \* the registry: name() -> the plugin
    userData,         \* what connections take for the invocation ring
    ended,            \* why the process is gone
    wanted,           \* history: what Nulldb and Mongodb were called for
    unfilled,         \* history: names whose Plugin call was given no table yet
    plain,            \* history: each Plugin call was given its table at once
    written           \* history: name -> the settings written for it

scriptVars  == <<persistenceType, currentPlugin, wanted, unfilled, plain, written>>
vars == <<phase, pluginConfig, persistence, todo, plugins, userData, ended, scriptVars>>

Plugins  == [file : Libraries, settings : Settings]

Extend(f, n, v) == [m \in DOMAIN f \union {n} |-> IF m = n THEN v ELSE f[m]]
Nothing == [m \in {} |-> None]

(* onSignal, which also runs when an exception is not caught.              *)
Die(cause) == ended' = cause /\ persistence' = None

Init ==
    /\ phase = "script"
    /\ persistenceType = "UNCONFIGURED" /\ wanted = {}
    /\ currentPlugin = None
    /\ pluginConfig = Nothing /\ written = Nothing
    /\ unfilled = {} /\ plain = TRUE
    /\ persistence = None
    /\ todo = {}
    /\ plugins = Nothing
    /\ userData = None
    /\ ended = None

-----------------------------------------------------------------------------
(* The script *)

InScript == phase = "script" /\ ended = None

(* Mutant: the later call wins.                                            *)
Persist_LastWins(type) ==
    /\ InScript
    /\ wanted' = wanted \union {type}
    /\ persistenceType' = type
    /\ UNCHANGED <<phase, pluginConfig, persistence, todo, plugins, userData, currentPlugin,
                   ended, unfilled, plain, written>>

(* Nulldb and Mongodb, where url says whether the driver can parse it.     *)
Persist(type) ==
    /\ InScript
    /\ wanted' = wanted \union {type}
    /\ IF persistenceType = "UNCONFIGURED"
       THEN persistenceType' = type /\ UNCHANGED <<ended, persistence>>
       ELSE Die("ConfigError") /\ UNCHANGED persistenceType
    /\ UNCHANGED <<phase, pluginConfig, todo, plugins, userData, currentPlugin,
                   unfilled, plain, written>>

(* Mutant: the first name stays.                                           *)
Plugin_KeepsName(name) ==
    /\ InScript
    /\ currentPlugin' = IF currentPlugin = None THEN name ELSE currentPlugin
    /\ plain' = (plain /\ unfilled = {})
    /\ unfilled' = unfilled \union {name}
    /\ UNCHANGED <<phase, persistenceType, pluginConfig, persistence, todo, plugins, userData,
                   ended, wanted, written>>

Plugin(name) ==
    /\ InScript
    /\ currentPlugin' = name
    /\ plain' = (plain /\ unfilled = {})
    /\ unfilled' = unfilled \union {name}
    /\ UNCHANGED <<phase, persistenceType, pluginConfig, persistence, todo, plugins, userData,
                   ended, wanted, written>>

(* The function that Plugin(name) has returned is called; it is the same   *)
(* for all names.                                                          *)
Pcdata(name, data) ==
    /\ InScript
    /\ name \in unfilled \union DOMAIN written
    /\ pluginConfig' = Extend(pluginConfig, currentPlugin, data)
    /\ written' = Extend(written, name, data)
    /\ plain' = (plain /\ name \in unfilled)
    /\ unfilled' = unfilled \ {name}
    /\ UNCHANGED <<phase, persistenceType, currentPlugin, persistence, todo, plugins, userData,
                   ended, wanted>>

(* An error in the script, or an argument of a wrong type.                 *)
ScriptError ==
    /\ InScript
    /\ Die("ConfigError")
    /\ UNCHANGED <<phase, pluginConfig, todo, plugins, userData, scriptVars>>

EndOfScript ==
    /\ InScript
    /\ phase' = "store"
    /\ UNCHANGED <<pluginConfig, persistence, todo, plugins, userData, ended, scriptVars>>

-----------------------------------------------------------------------------
(* main *)

(* A script that asks for no store gets none: Nulldb is no default.        *)
GetPersistenceLayer ==
    /\ phase = "store" /\ ended = None
    /\ \/ /\ persistenceType \in {"NULLDB", "MONGODB"}
          /\ persistence' = persistenceType
          /\ phase' = "plugins" /\ todo' = DOMAIN pluginConfig
          /\ UNCHANGED ended
       \/ /\ persistenceType = "UNCONFIGURED"
          /\ Die("PersistenceError") /\ UNCHANGED <<phase, todo>>
       \/ /\ persistenceType = "MONGODB_BAD_URL"
          /\ Die("crash") /\ UNCHANGED <<phase, todo>>
    /\ UNCHANGED <<pluginConfig, plugins, userData, scriptVars>>

(* Mutant: a plugin that is there stays, as with map::insert.              *)
SetUp_KeepsFirst(file) ==
    LET name == Declares[file]
        settings == IF name \in DOMAIN pluginConfig THEN pluginConfig[name] ELSE Null
    IN  /\ pluginConfig' = Extend(pluginConfig, name, settings)
        /\ plugins' = IF name \in DOMAIN plugins THEN plugins
                      ELSE Extend(plugins, name, [file |-> file, settings |-> settings])
        /\ UNCHANGED <<ended, persistence>>

(* loadPlugin(file): the plugin is set up with the settings that stand     *)
(* under the name it gives itself, which getPluginConfig inserts if there  *)
(* are none.                                                               *)
SetUp(file) ==
    LET name == Declares[file]
        settings == IF name \in DOMAIN pluginConfig THEN pluginConfig[name] ELSE Null
    IN  /\ pluginConfig' = Extend(pluginConfig, name, settings)
        /\ IF file \in NeedsUrl /\ ~settings.url
           THEN Die("crash") /\ UNCHANGED plugins
           ELSE /\ plugins' = Extend(plugins, name, [file |-> file, settings |-> settings])
                /\ UNCHANGED <<ended, persistence>>

LoadPlugin(name) ==
    /\ phase = "plugins" /\ ended = None
    /\ name \in todo /\ \A other \in todo : name <= other
    /\ todo' = todo \ {name}
    /\ LET file == pluginConfig[name].file
       IN  \/ /\ pluginConfig[name] = Null
              /\ UNCHANGED <<pluginConfig, plugins, ended, persistence>>
           \/ /\ file = "unloadable"
              /\ ended' = "exit"
              /\ UNCHANGED <<pluginConfig, plugins, persistence>>
           \/ /\ file = "table" \/ (file \in Libraries /\ Declares[file] = None)
              /\ Die("crash")
              /\ UNCHANGED <<pluginConfig, plugins>>
           \/ /\ file \in Libraries /\ Declares[file] # None
              /\ SetUp(file)
    /\ UNCHANGED <<phase, userData, scriptVars>>

(* Mutant: main waits for a plugin.                                        *)
Serve_NeedsPlugin ==
    /\ phase = "plugins" /\ ended = None /\ todo = {} /\ plugins # Nothing
    /\ phase' = "serving" /\ userData' = "ring"
    /\ UNCHANGED <<pluginConfig, persistence, todo, plugins, ended, scriptVars>>

(* The server binds its port and two threads are started.  If the port is  *)
(* taken, mg_bind returns null and that is written to.  Connections get    *)
(* their user_data from HttpServer::invocations, which is read before main *)
(* sets it: what stood there may be the ring or anything else.             *)
Serve ==
    /\ phase = "plugins" /\ ended = None /\ todo = {}
    /\ \/ /\ phase' = "serving"
          /\ userData' \in {"ring", "wild"}
          /\ UNCHANGED <<persistence, ended>>
       \/ Die("crash") /\ UNCHANGED <<phase, userData>>
    /\ UNCHANGED <<pluginConfig, todo, plugins, scriptVars>>

(* A request for a result calls putCallback of what is no ring.            *)
ResolveWild ==
    /\ phase = "serving" /\ ended = None
    /\ userData = "wild"
    /\ Die("crash")
    /\ UNCHANGED <<phase, pluginConfig, todo, plugins, userData, scriptVars>>

(* getPlugin and callPlugin: the registry answers with a null pointer for  *)
(* a name that it does not have.                                           *)
CallUnknownPlugin(name) ==
    /\ phase = "serving" /\ ended = None
    /\ name \notin DOMAIN plugins
    /\ Die("crash")
    /\ UNCHANGED <<phase, pluginConfig, todo, plugins, userData, scriptVars>>

Signal ==
    /\ ended = None
    /\ Die("signal")
    /\ UNCHANGED <<phase, pluginConfig, todo, plugins, userData, scriptVars>>

Script ==
    \/ \E type \in {"NULLDB", "MONGODB", "MONGODB_BAD_URL"} : Persist(type)
    \/ \E name \in Names : Plugin(name)
    \/ \E name \in Names, data \in Tables : Pcdata(name, data)
    \/ ScriptError
    \/ EndOfScript

Next ==
    \/ Script
    \/ GetPersistenceLayer
    \/ \E name \in Names : LoadPlugin(name)
    \/ Serve \/ ResolveWild
    \/ \E name \in Names : CallUnknownPlugin(name)
    \/ Signal

Fairness ==
    /\ WF_vars(GetPersistenceLayer)
    /\ \A name \in Names : WF_vars(LoadPlugin(name))
    /\ WF_vars(Serve)

Spec == Init /\ [][Next]_vars /\ Fairness

-----------------------------------------------------------------------------

Types == {"UNCONFIGURED", "NULLDB", "MONGODB", "MONGODB_BAD_URL"}

(* Every variable has its type; maps are functions on a part of Names.     *)
StartTypeOK ==
    /\ phase \in {"script", "store", "plugins", "serving"}
    /\ persistenceType \in Types /\ persistence \in Types \union {None}
    /\ currentPlugin \in Names \union {None}
    /\ DOMAIN pluginConfig \subseteq Names
    /\ \A n \in DOMAIN pluginConfig : pluginConfig[n] \in Settings
    /\ DOMAIN written \subseteq Names
    /\ DOMAIN plugins \subseteq Names
    /\ \A n \in DOMAIN plugins : plugins[n] \in Plugins
    /\ todo \subseteq DOMAIN pluginConfig
    /\ userData \in {None, "ring", "wild"}
    /\ ended \in Causes \union {None}
    /\ unfilled \subseteq Names /\ plain \in BOOLEAN /\ wanted \subseteq Types

(* A script whose Plugin calls are each given their table before the next  *)
(* one is made has its settings stored under the names it wrote them for,  *)
(* whatever is inserted later.  Config keeps one name only, so this is not *)
(* so for a table that is written inside of another one's.                 *)
FiledUnderOwnName ==
    plain =>
      /\ DOMAIN written \subseteq DOMAIN pluginConfig
      /\ \A n \in DOMAIN written : pluginConfig[n] = written[n]
      /\ \A n \in DOMAIN pluginConfig \ DOMAIN written : pluginConfig[n] = Null

Loading == ended = None /\ phase \in {"plugins", "serving"}
ComeTo  == DOMAIN pluginConfig \ todo
Loads(n, name) ==
    pluginConfig[n].file \in Libraries /\ Declares[pluginConfig[n].file] = name

(* The registry follows the configuration: each plugin in it has the       *)
(* settings that stand under its own name, and was loaded from the file    *)
(* under the last of the names come to so far whose library calls itself   *)
(* so; and the library under each of these names is there.                 *)
RegistryFollowsConfig ==
    Loading =>
      /\ \A m \in DOMAIN plugins :
           /\ m \in DOMAIN pluginConfig /\ plugins[m].settings = pluginConfig[m]
           /\ \E n \in ComeTo :
                /\ Loads(n, m) /\ plugins[m].file = pluginConfig[n].file
                /\ \A k \in ComeTo : Loads(k, m) => k <= n
      /\ \A n \in ComeTo :
           pluginConfig[n] # Null => \E m \in DOMAIN plugins : Loads(n, m)

(* If the script asks for stores, slserver serves with the one that it     *)
(* asked for, and not at all if it asked for two different ones.           *)
ServesWhatWasAsked == Loading => wanted \subseteq {persistence}

(* The inductive invariant: a plain script has one name unfilled, the last *)
(* one; names are come to in their order; nothing is loaded before.        *)
StartInv ==
    /\ StartTypeOK
    /\ FiledUnderOwnName
    /\ unfilled \union DOMAIN written # {} => currentPlugin \in Names
    /\ plain => unfilled \subseteq {currentPlugin}
    /\ ended = None /\ phase \in {"script", "store"} =>
          /\ plugins = Nothing /\ todo = {}
          /\ wanted = IF persistenceType = "UNCONFIGURED" THEN {} ELSE {persistenceType}
    /\ \A n \in ComeTo, later \in todo : Loading /\ pluginConfig[n] # Null => n <= later
    /\ RegistryFollowsConfig
    /\ ServesWhatWasAsked

(* Once its script has ended, slserver serves or the process is gone.      *)
ServesOrEnds == phase = "store" ~> phase = "serving" \/ ended # None

=============================================================================
