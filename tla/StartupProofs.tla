---------------------------- MODULE StartupProofs ----------------------------
(***************************************************************************)
(* Proofs about Startup, for any names, libraries and settings.            *)
(***************************************************************************)
EXTENDS Startup, TLAPS

LEMMA StartInvInit == Init => StartInv
<1> SUFFICES ASSUME Init PROVE StartInv
  OBVIOUS
<1>1. DOMAIN pluginConfig = {} /\ DOMAIN written = {} /\ DOMAIN plugins = {}
  BY DEF Init, Nothing
<1>2. StartTypeOK
  BY <1>1 DEF Init, StartTypeOK, Types
<1>3. FiledUnderOwnName
  BY <1>1 DEF FiledUnderOwnName
<1>4. ~Loading
  BY DEF Init, Loading
<1>5. RegistryFollowsConfig /\ ServesWhatWasAsked
  BY <1>4 DEF RegistryFollowsConfig, ServesWhatWasAsked
<1> QED
  BY <1>1, <1>2, <1>3, <1>4, <1>5 DEF Init, StartInv

(* The end of the process, at whatever step, breaks nothing as long as the *)
(* configuration only gains empty entries.                                 *)
LEMMA EndKeepsInv ==
  ASSUME StartInv, ended' \in Causes, persistence' \in Types \union {None},
         UNCHANGED <<phase, pluginConfig, plugins, userData, currentPlugin, unfilled, plain,
                     written>>,
         persistenceType' = persistenceType, wanted' \subseteq Types, todo' \subseteq todo
  PROVE  StartInv'
<1>1. StartTypeOK'
  BY DEF StartInv, StartTypeOK
<1>2. FiledUnderOwnName'
  BY DEF StartInv, FiledUnderOwnName
<1>3. ~Loading'
  BY StartConstants DEF Loading
<1>4. ended' # None
  BY StartConstants
<1> QED
  BY <1>1, <1>2, <1>3, <1>4 DEF StartInv, RegistryFollowsConfig, ServesWhatWasAsked

LEMMA ScriptKeepsInv ==
  ASSUME StartInv, Script
  PROVE  StartInv'
<1> USE DEF StartInv
<1>1. ASSUME NEW type \in {"NULLDB", "MONGODB", "MONGODB_BAD_URL"}, Persist(type)
      PROVE  StartInv'
  <2>1. CASE persistenceType = "UNCONFIGURED"
    <3>1. /\ persistenceType' = type /\ wanted' = {type} /\ phase' = "script" /\ ended' = None
          /\ UNCHANGED <<persistence, pluginConfig, todo, plugins, userData, currentPlugin,
                         unfilled, plain, written>>
      <4>1. wanted = {}
        BY <1>1, <2>1 DEF Persist, InScript
      <4> QED
        BY <1>1, <2>1, <4>1 DEF Persist, InScript
    <3>2. StartTypeOK'
      BY <3>1 DEF StartTypeOK, Types
    <3>3. FiledUnderOwnName'
      BY <3>1 DEF FiledUnderOwnName
    <3>4. ~Loading'
      BY <3>1 DEF Loading
    <3>5. plugins = Nothing /\ todo = {}
      BY <1>1 DEF Persist, InScript
    <3> QED
      BY <3>1, <3>2, <3>3, <3>4, <3>5 DEF RegistryFollowsConfig, ServesWhatWasAsked
  <2>2. CASE persistenceType # "UNCONFIGURED"
    <3>1. /\ ended' \in Causes /\ persistence' = None /\ persistenceType' = persistenceType
          /\ UNCHANGED <<phase, pluginConfig, todo, plugins, userData, currentPlugin,
                         unfilled, plain, written>>
      BY <1>1, <2>2, StartConstants DEF Persist, Die, Causes
    <3>2. wanted' \subseteq Types
      BY <1>1 DEF Persist, StartTypeOK, Types
    <3> QED
      BY <3>1, <3>2, EndKeepsInv
  <2> QED
    BY <2>1, <2>2
<1>2. ASSUME NEW name \in Names, Plugin(name)
      PROVE  StartInv'
  <2>1. /\ phase' = "script" /\ ended' = None /\ currentPlugin' = name
        /\ plain' = (plain /\ unfilled = {}) /\ unfilled' = unfilled \union {name}
        /\ UNCHANGED <<persistenceType, pluginConfig, persistence, todo, plugins, userData, wanted, written>>
    BY <1>2 DEF Plugin, InScript
  <2>2. StartTypeOK'
    BY <2>1 DEF StartTypeOK
  <2>3. FiledUnderOwnName'
    BY <2>1 DEF FiledUnderOwnName
  <2>4. ~Loading'
    BY <2>1 DEF Loading
  <2>5. /\ plugins = Nothing /\ todo = {}
        /\ wanted = IF persistenceType = "UNCONFIGURED" THEN {} ELSE {persistenceType}
    BY <1>2 DEF Plugin, InScript
  <2>6. plain' => unfilled' \subseteq {currentPlugin'}
    BY <2>1
  <2> QED
    BY <2>1, <2>2, <2>3, <2>4, <2>5, <2>6 DEF RegistryFollowsConfig, ServesWhatWasAsked
<1>3. ASSUME NEW name \in Names, NEW data \in Tables, Pcdata(name, data)
      PROVE  StartInv'
  <2>1. /\ phase' = "script" /\ ended' = None
        /\ pluginConfig' = Extend(pluginConfig, currentPlugin, data)
        /\ written' = Extend(written, name, data)
        /\ plain' = (plain /\ name \in unfilled) /\ unfilled' = unfilled \ {name}
        /\ UNCHANGED <<persistenceType, currentPlugin, persistence, todo, plugins, userData, wanted>>
    BY <1>3 DEF Pcdata, InScript
  <2>2. /\ plugins = Nothing /\ todo = {} /\ phase = "script" /\ ended = None
        /\ wanted = IF persistenceType = "UNCONFIGURED" THEN {} ELSE {persistenceType}
    BY <1>3 DEF Pcdata, InScript
  <2>3. currentPlugin \in Names
    BY <1>3 DEF Pcdata
  <2>4. data \in Settings
    BY StartConstants
  <2>5. StartTypeOK'
    <3>1. /\ DOMAIN pluginConfig' = DOMAIN pluginConfig \union {currentPlugin}
          /\ \A n \in DOMAIN pluginConfig' : pluginConfig'[n] \in Settings
      <4> DEFINE e == Extend(pluginConfig, currentPlugin, data)
      <4>1. /\ DOMAIN e = DOMAIN pluginConfig \union {currentPlugin}
            /\ e[currentPlugin] = data
            /\ \A m \in DOMAIN pluginConfig \ {currentPlugin} : e[m] = pluginConfig[m]
        BY DEF Extend
      <4> QED
        BY <2>1, <2>4, <4>1 DEF StartTypeOK
    <3>2. DOMAIN written' = DOMAIN written \union {name}
      BY <2>1 DEF Extend
    <3> QED
      BY <2>1, <2>2, <2>3, <3>1, <3>2 DEF StartTypeOK, Nothing
  <2>6. FiledUnderOwnName'
    <3> SUFFICES ASSUME plain' PROVE FiledUnderOwnName'
      BY DEF FiledUnderOwnName
    <3>1. plain /\ name = currentPlugin
      BY <2>1 DEF StartTypeOK
    <3>2. /\ DOMAIN pluginConfig' = DOMAIN pluginConfig \union {name}
          /\ DOMAIN written' = DOMAIN written \union {name}
          /\ pluginConfig'[name] = data /\ written'[name] = data
          /\ \A m \in DOMAIN pluginConfig \ {name} : pluginConfig'[m] = pluginConfig[m]
          /\ \A m \in DOMAIN written \ {name} : written'[m] = written[m]
      <4>1. pluginConfig' = Extend(pluginConfig, name, data)
        BY <2>1, <3>1
      <4>2. /\ DOMAIN Extend(pluginConfig, name, data) = DOMAIN pluginConfig \union {name}
            /\ Extend(pluginConfig, name, data)[name] = data
            /\ \A m \in DOMAIN pluginConfig \ {name} :
                  Extend(pluginConfig, name, data)[m] = pluginConfig[m]
        BY DEF Extend
      <4>3. /\ DOMAIN Extend(written, name, data) = DOMAIN written \union {name}
            /\ Extend(written, name, data)[name] = data
            /\ \A m \in DOMAIN written \ {name} : Extend(written, name, data)[m] = written[m]
        BY DEF Extend
      <4> QED
        BY <2>1, <4>1, <4>2, <4>3
    <3> QED
      BY <3>1, <3>2 DEF FiledUnderOwnName
  <2>7. ~Loading'
    BY <2>1 DEF Loading
  <2>8. plain' => unfilled' \subseteq {currentPlugin'}
    BY <2>1
  <2>9. currentPlugin' \in Names
    BY <2>1, <2>3
  <2> QED
    BY <2>1, <2>2, <2>5, <2>6, <2>7, <2>8, <2>9 DEF RegistryFollowsConfig, ServesWhatWasAsked
<1>4. CASE ScriptError
  <2>1. /\ ended' \in Causes /\ persistence' = None
        /\ UNCHANGED <<phase, pluginConfig, todo, plugins, userData, scriptVars>>
    BY <1>4, StartConstants DEF ScriptError, Die, Causes
  <2> QED
    BY <2>1, EndKeepsInv DEF scriptVars, StartTypeOK
<1>5. CASE EndOfScript
  <2>1. /\ phase' = "store" /\ ended' = None /\ ended = None /\ phase = "script"
        /\ UNCHANGED <<pluginConfig, persistence, todo, plugins, userData, scriptVars>>
    BY <1>5 DEF EndOfScript, InScript
  <2>2. StartTypeOK'
    BY <2>1 DEF StartTypeOK, scriptVars
  <2>3. FiledUnderOwnName'
    BY <2>1 DEF FiledUnderOwnName, scriptVars
  <2>4. ~Loading'
    BY <2>1 DEF Loading
  <2> QED
    BY <2>1, <2>2, <2>3, <2>4 DEF RegistryFollowsConfig, ServesWhatWasAsked, scriptVars
<1> QED
  BY <1>1, <1>2, <1>3, <1>4, <1>5 DEF Script

(* A plugin is set up: what was come to and its settings stay as they are, *)
(* a name that is inserted is empty.                                       *)
LEMMA SetUpKeepsInv ==
  ASSUME StartInv, NEW name \in Names, LoadPlugin(name),
         pluginConfig[name].file \in Libraries,
         Declares[pluginConfig[name].file] # None,
         SetUp(pluginConfig[name].file)
  PROVE  StartInv'
<1> DEFINE file == pluginConfig[name].file
           own  == Declares[file]
           Now(n, m) == pluginConfig'[n].file \in Libraries
                          /\ Declares[pluginConfig'[n].file] = m
           settings == IF own \in DOMAIN pluginConfig THEN pluginConfig[own] ELSE Null
<1>1. /\ phase = "plugins" /\ ended = None /\ Loading
      /\ name \in todo /\ \A other \in todo : name <= other
      /\ todo' = todo \ {name}
      /\ UNCHANGED <<phase, userData, persistenceType, currentPlugin, wanted, unfilled, plain,
                     written>>
  BY DEF LoadPlugin, scriptVars, Loading
<1>2. own \in Names /\ file \in Libraries /\ settings \in Settings
  BY StartConstants DEF StartInv, StartTypeOK, Settings
<1>3. /\ DOMAIN pluginConfig' = DOMAIN pluginConfig \union {own}
      /\ pluginConfig'[own] = settings
      /\ \A m \in DOMAIN pluginConfig : pluginConfig'[m] = pluginConfig[m]
      /\ own \notin DOMAIN pluginConfig => pluginConfig'[own] = Null
  BY DEF SetUp, Extend
<1>4. FiledUnderOwnName'
  BY <1>1, <1>3 DEF StartInv, FiledUnderOwnName
<1>5. CASE ended' # None
  <2>1. UNCHANGED plugins /\ ended' \in Causes /\ persistence' = None
    BY <1>1, <1>5 DEF SetUp, Die, Causes
  <2>2. StartTypeOK'
    BY <1>1, <1>2, <1>3, <2>1 DEF StartInv, StartTypeOK
  <2>3. ~Loading'
    BY <1>5 DEF Loading
  <2> QED
    BY <1>1, <1>4, <1>5, <2>2, <2>3 DEF StartInv, RegistryFollowsConfig, ServesWhatWasAsked
<1>6. CASE ended' = None
  <2>1. /\ DOMAIN plugins' = DOMAIN plugins \union {own}
        /\ plugins'[own] = [file |-> file, settings |-> settings]
        /\ \A m \in DOMAIN plugins \ {own} : plugins'[m] = plugins[m]
        /\ persistence' = persistence
    BY <1>6, StartConstants DEF SetUp, Extend, Die, Causes
  <2>2. StartTypeOK'
    BY <1>1, <1>2, <1>3, <1>6, <2>1 DEF StartInv, StartTypeOK, Plugins
  <2>3. ComeTo' = ComeTo \union {name} \union ({own} \ DOMAIN pluginConfig)
    BY <1>1, <1>3 DEF ComeTo, StartInv, StartTypeOK
  <2>4. /\ \A n \in ComeTo \union {name}, m \in Names : Now(n, m) <=> Loads(n, m)
        /\ own \notin DOMAIN pluginConfig => \A m \in Names : ~Now(own, m)
        /\ Loads(name, own)
    <3>1. ComeTo \union {name} \subseteq DOMAIN pluginConfig
      BY <1>1 DEF ComeTo, StartInv, StartTypeOK
    <3>2. \A n \in ComeTo \union {name} : pluginConfig'[n] = pluginConfig[n]
      BY <1>3, <3>1
    <3>3. \A n \in ComeTo \union {name}, m \in Names : Now(n, m) <=> Loads(n, m)
      BY <3>2 DEF Loads
    <3>4. own \notin DOMAIN pluginConfig => pluginConfig'[own].file \notin Libraries
      BY <1>3, StartConstants DEF Null
    <3>5. Loads(name, own)
      BY <1>2 DEF Loads
    <3> QED
      BY <3>3, <3>4, <3>5
  <2>5. \A n \in ComeTo, later \in todo : pluginConfig[n] # Null => n <= later
    BY <1>1 DEF StartInv
  <2>6. \A n \in ComeTo', later \in todo' : pluginConfig'[n] # Null => n <= later
    BY <1>1, <1>3, <2>3, <2>5 DEF ComeTo
  <2>7. \A n \in ComeTo, m \in Names : Loads(n, m) => pluginConfig[n] # Null
    BY StartConstants DEF Loads, Null
  <2>8. \A m \in DOMAIN plugins' :
           m \in DOMAIN pluginConfig' /\ plugins'[m].settings = pluginConfig'[m]
    BY <1>1, <1>3, <2>1 DEF StartInv, RegistryFollowsConfig
  <2>9. ASSUME NEW m \in DOMAIN plugins'
        PROVE  \E n \in ComeTo' :
                  /\ Now(n, m) /\ plugins'[m].file = pluginConfig'[n].file
                  /\ \A k \in ComeTo' : Now(k, m) => k <= n
    <3>1. m \in Names
      BY <2>2, <2>9 DEF StartTypeOK
    <3>2. CASE m = own
      <4>1. ASSUME NEW k \in ComeTo', Now(k, m)
            PROVE  k <= name
        <5>1. k \in ComeTo \union {name} /\ Loads(k, m)
          BY <2>3, <2>4, <3>1, <4>1
        <5>2. CASE k \in ComeTo
          <6>1. pluginConfig[k] # Null
            BY <2>7, <3>1, <5>1, <5>2
          <6> QED
            BY <1>1, <2>5, <5>2, <6>1
        <5>3. CASE k = name
          <6>1. name \in Nat
            BY StartConstants
          <6> QED
            BY <5>3, <6>1
        <5> QED
          BY <5>1, <5>2, <5>3
      <4>2. name \in ComeTo' /\ Now(name, m) /\ plugins'[m].file = pluginConfig'[name].file
        BY <1>1, <1>3, <2>1, <2>3, <2>4, <3>1, <3>2 DEF StartInv, StartTypeOK
      <4> QED
        BY <4>1, <4>2
    <3>3. CASE m # own
      <4>1. PICK n \in ComeTo :
                /\ Loads(n, m) /\ plugins[m].file = pluginConfig[n].file
                /\ \A k \in ComeTo : Loads(k, m) => k <= n
        BY <1>1, <2>1, <2>9, <3>3 DEF StartInv, RegistryFollowsConfig
      <4>2. ~Loads(name, m)
        BY <2>4, <3>3 DEF Loads
      <4>3. Now(n, m) /\ plugins'[m].file = pluginConfig'[n].file /\ n \in ComeTo'
        BY <1>3, <2>1, <2>3, <2>4, <2>9, <3>1, <3>3, <4>1 DEF ComeTo
      <4>4. \A k \in ComeTo' : Now(k, m) => k <= n
        <5>1. \A k \in ComeTo' : Now(k, m) => k \in ComeTo /\ Loads(k, m)
          BY <2>3, <2>4, <3>1, <4>2
        <5> QED
          BY <4>1, <5>1
      <4> QED
        BY <4>3, <4>4
    <3> QED
      BY <3>2, <3>3
  <2>10. ASSUME NEW n \in ComeTo', pluginConfig'[n] # Null
         PROVE  \E m \in DOMAIN plugins' : Now(n, m)
    <3>1. n \in ComeTo \union {name}
      BY <1>3, <2>3, <2>10
    <3>2. CASE n = name
      BY <2>1, <2>4, <1>2, <3>2
    <3>3. CASE n \in ComeTo
      <4>1. PICK m \in DOMAIN plugins : Loads(n, m)
        BY <1>1, <1>3, <2>10, <3>3 DEF StartInv, RegistryFollowsConfig, ComeTo
      <4> QED
        BY <2>1, <2>4, <3>3, <4>1 DEF StartInv, StartTypeOK
    <3> QED
      BY <3>1, <3>2, <3>3
  <2>11. RegistryFollowsConfig'
    BY <2>8, <2>9, <2>10 DEF RegistryFollowsConfig, Loads
  <2>12. ServesWhatWasAsked'
    BY <1>1, <1>6, <2>1 DEF StartInv, ServesWhatWasAsked, Loading
  <2> QED
    BY <1>1, <1>4, <2>2, <2>6, <2>11, <2>12 DEF StartInv
<1> QED
  BY <1>5, <1>6

LEMMA LoadPluginKeepsInv ==
  ASSUME StartInv, NEW name \in Names, LoadPlugin(name)
  PROVE  StartInv'
<1>1. /\ phase = "plugins" /\ ended = None /\ Loading
      /\ name \in todo /\ \A other \in todo : name <= other
      /\ todo' = todo \ {name}
      /\ UNCHANGED <<phase, userData, persistenceType, currentPlugin, wanted, unfilled, plain,
                     written>>
  BY DEF LoadPlugin, scriptVars, Loading
<1>2. CASE pluginConfig[name] = Null
  <2>1. UNCHANGED <<pluginConfig, plugins, ended, persistence>>
    BY <1>2, StartConstants DEF LoadPlugin, Null
  <2>2. StartTypeOK'
    BY <1>1, <2>1 DEF StartInv, StartTypeOK
  <2>3. FiledUnderOwnName'
    BY <1>1, <2>1 DEF StartInv, FiledUnderOwnName
  <2>4. /\ ComeTo' = ComeTo \union {name}
        /\ \A m \in Names : ~Loads(name, m)
    BY <1>1, <1>2, <2>1, StartConstants DEF ComeTo, Loads, Null, StartInv, StartTypeOK
  <2>5. RegistryFollowsConfig'
    <3>1. DOMAIN plugins \subseteq Names
      BY DEF StartInv, StartTypeOK
    <3> QED
      BY <1>1, <1>2, <2>1, <2>4, <3>1 DEF StartInv, RegistryFollowsConfig, Loads, Loading
  <2>6. \A n \in ComeTo', later \in todo' : pluginConfig'[n] # Null => n <= later
    BY <1>1, <1>2, <2>1, <2>4 DEF StartInv
  <2> QED
    BY <1>1, <2>1, <2>2, <2>3, <2>5, <2>6 DEF StartInv, ServesWhatWasAsked, Loading
<1>3. CASE ended' \in Causes /\ UNCHANGED <<pluginConfig, plugins>>
  <2>1. persistence' \in Types \union {None}
    BY <1>3 DEF LoadPlugin, SetUp, Die, StartInv, StartTypeOK
  <2> QED
    BY <1>1, <1>3, <2>1, EndKeepsInv DEF StartInv, StartTypeOK
<1>4. CASE /\ pluginConfig[name].file \in Libraries
           /\ Declares[pluginConfig[name].file] # None
           /\ SetUp(pluginConfig[name].file)
  BY <1>4, SetUpKeepsInv
<1> QED
  BY <1>2, <1>3, <1>4 DEF LoadPlugin, Die, Causes

LEMMA MainKeepsInv ==
  ASSUME StartInv,
         GetPersistenceLayer \/ Serve \/ ResolveWild \/ Signal \/ \E name \in Names : CallUnknownPlugin(name)
  PROVE  StartInv'
<1> USE DEF StartInv
<1>1. CASE GetPersistenceLayer /\ ended' = None
  <2>1. /\ persistenceType \in {"NULLDB", "MONGODB"} /\ persistence' = persistenceType
        /\ phase = "store" /\ phase' = "plugins" /\ todo' = DOMAIN pluginConfig
        /\ ended = None
        /\ UNCHANGED <<pluginConfig, plugins, userData, persistenceType, currentPlugin, wanted,
                       unfilled, plain, written>>
    BY <1>1, StartConstants DEF GetPersistenceLayer, Die, Causes, scriptVars
  <2>2. StartTypeOK'
    BY <1>1, <2>1 DEF StartTypeOK
  <2>3. FiledUnderOwnName'
    BY <2>1 DEF FiledUnderOwnName
  <2>4. ComeTo' = {} /\ DOMAIN plugins = {}
    BY <2>1 DEF ComeTo, Nothing
  <2>5. RegistryFollowsConfig'
    BY <2>1, <2>4 DEF RegistryFollowsConfig
  <2>6. ServesWhatWasAsked'
    BY <2>1 DEF ServesWhatWasAsked
  <2> QED
    BY <2>1, <2>2, <2>3, <2>4, <2>5, <2>6
<1>2. CASE /\ \/ GetPersistenceLayer \/ Serve \/ ResolveWild \/ Signal
              \/ \E name \in Names : CallUnknownPlugin(name)
           /\ ended' # None
  <2>1. /\ ended' \in Causes /\ persistence' \in Types \union {None} /\ todo' = todo
        /\ UNCHANGED <<phase, pluginConfig, plugins, userData, scriptVars>>
    BY <1>2 DEF GetPersistenceLayer, Serve, ResolveWild, Signal, CallUnknownPlugin, Die, Causes
  <2> QED
    BY <2>1, EndKeepsInv DEF scriptVars, StartTypeOK
<1>3. CASE Serve /\ ended' = None
  <2>1. /\ phase = "plugins" /\ phase' = "serving" /\ ended = None
        /\ userData' \in {"ring", "wild"}
        /\ UNCHANGED <<pluginConfig, persistence, todo, plugins, ended, scriptVars>>
    BY <1>3, StartConstants DEF Serve, Die, Causes
  <2>2. StartTypeOK'
    BY <2>1 DEF StartTypeOK, scriptVars
  <2>3. Loading /\ ComeTo' = ComeTo
    BY <2>1 DEF Loading, ComeTo
  <2>4. RegistryFollowsConfig'
    BY <2>1, <2>3 DEF RegistryFollowsConfig, Loads
  <2>5. FiledUnderOwnName' /\ ServesWhatWasAsked'
    BY <2>1, <2>3 DEF FiledUnderOwnName, ServesWhatWasAsked, scriptVars
  <2> QED
    BY <2>1, <2>2, <2>3, <2>4, <2>5 DEF scriptVars
<1> QED
  BY <1>1, <1>2, <1>3, StartConstants DEF ResolveWild, Signal, CallUnknownPlugin, Die, Causes

(* The inductive invariant of the start, for any script.                   *)
THEOREM StartInvariant == Spec => []StartInv
<1>1. ASSUME StartInv, [Next]_vars PROVE StartInv'
  <2>1. CASE Next
    BY <1>1, <2>1, ScriptKeepsInv, LoadPluginKeepsInv, MainKeepsInv DEF Next
  <2>2. CASE UNCHANGED vars
    BY <1>1, <2>2 DEF vars, scriptVars, StartInv, StartTypeOK, FiledUnderOwnName, Loading,
                      ComeTo, Loads, RegistryFollowsConfig, ServesWhatWasAsked
  <2> QED
    BY <1>1, <2>1, <2>2
<1> QED
  BY StartInvInit, <1>1, PTL DEF Spec

(* A plain script has its settings stored under the names it wrote them    *)
(* for: Config::pcdata trusts the last name that Plugin was given.         *)
THEOREM PlainScriptsAreFiled == Spec => []FiledUnderOwnName
  BY StartInvariant, PTL DEF StartInv

(* The plugins that slserver serves are those of its configuration, each   *)
(* with the settings under its own name: PluginRegistry::loadPlugin.       *)
THEOREM RegistryAsConfigured == Spec => []RegistryFollowsConfig
  BY StartInvariant, PTL DEF StartInv

(* A script that asks for stores is served with the one it wants:          *)
(* nulldb, mongodb and getPersistenceLayer.                                *)
THEOREM StoreAsConfigured == Spec => []ServesWhatWasAsked
  BY StartInvariant, PTL DEF StartInv

=============================================================================
