----------------------------- MODULE PluginHost -----------------------------
(***************************************************************************)
(* The plugin host (src/core/plugin_host/plugin_host.cpp) as a value: the  *)
(* plugins found on disk and those loaded.  How a load ends is an          *)
(* argument; whatever step it fails at, the library is closed again and    *)
(* pluginCrashed is emitted.  `failed' is the history of that signal, to   *)
(* which nothing is connected.                                             *)
(***************************************************************************)
EXTENDS Queues, SequencesExt

NewHost == [registry |-> {}, active |-> {}, failed |-> {}]

(* "library", "instance", "interface": not loaded, null, no IPlugin;       *)
(* "refused", "threw": initialize() returned false or a std::exception.    *)
Failures == {"library", "instance", "interface", "refused", "threw"}

(* The plugins among the files of all search paths, in order; one that     *)
(* lies in two paths, or in a path given twice, is listed twice.           *)
Discover(files) == Only(files, ToSet(files) \ {"not a plugin"})

Register(host, metas) == [host EXCEPT !.registry = @ \union ToSet(metas)]

(* load() emits pluginLoaded, once the plugin is among the active ones.    *)
Announces(host, id, outcome) ==
  outcome = "ok" /\ id \in host.registry \ host.active

Load(host, id, outcome) ==
  IF id \in host.active THEN host
    ELSE IF Announces(host, id, outcome) THEN [host EXCEPT !.active = @ \union {id}]
    ELSE [host EXCEPT !.failed = @ \union {id}]

(* unload() of each active plugin.                                         *)
UnloadAll(host) == [host EXCEPT !.active = {}]
=============================================================================
