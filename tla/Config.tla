------------------------------- MODULE Config -------------------------------
(***************************************************************************)
(* The configuration: its migration (src/utils/config_migrator.cpp), its   *)
(* validation (src/utils/config_validator.cpp) and what start-up reads of  *)
(* it (src/app/application.cpp), as operators on documents.                *)
(*                                                                         *)
(* A value is a pair of its kind and its content: a number that has no     *)
(* fraction, a string that reads as a number, another string (its trimmed, *)
(* lower-case form), a flag, a list, or a map.  A map is a function from   *)
(* keys to values, and a document is one.  Fractions, which are no more    *)
(* acceptable than words wherever the schema has a number or a flag, and   *)
(* warnings are left out.                                                  *)
(***************************************************************************)
EXTENDS Integers

CONSTANT IntMax  \* the largest int: 2^31 - 1 in the build

(* The bounds and defaults of the schema are ints. *)
ASSUME IntAssumption == IntMax \in Nat /\ IntMax >= 10485760

IntMin  == -IntMax - 1
Wrap(n) == ((n - IntMin) % (2 * (IntMax + 1))) + IntMin

Num(n)    == <<"number", n>>
Digits(n) == <<"digits", n>>
Word(w)   == <<"word", w>>
Flag(b)   == <<"flag", b>>
On        == Flag(TRUE)
List(s)   == <<"list", s>>
Obj(f)    == <<"map", f>>
Invalid   == <<"invalid", 0>>   \* QVariant()
Missing   == <<"missing", 0>>   \* the map has no such key
Empty     == <<>>

Lookup(map, key) == IF key \in DOMAIN map THEN map[key] ELSE Missing

Join(f, g) == [k \in DOMAIN f \union DOMAIN g |->
                 IF k \in DOMAIN f THEN f[k] ELSE g[k]]

(* toObject() and toMap(): what is no map reads as an empty one. *)
Content(value)    == IF value[1] = "map" THEN value[2] ELSE Empty
Section(map, key) == Content(Lookup(map, key))

-----------------------------------------------------------------------------
(* Migration *)

CurrentVersion == 2
Registered     == {1, 2}

VersionOf(doc) ==
  LET v == Lookup(doc, "configVersion")
  IN  IF v[1] = "number" /\ v[2] \in IntMin .. IntMax THEN v[2] ELSE 1

AddedInterval == [reconnectIntervalMs |-> Num(5000)]
AddedConsole  == [enableConsole |-> On]

MigrateV1ToV2_Overwrites(doc) ==
  LET telemetry == Join(AddedInterval, Section(doc, "telemetry"))
      logging   == Join(Section(doc, "logging"), AddedConsole)
  IN  Join([telemetry |-> Obj(telemetry), logging |-> Obj(logging),
            configVersion |-> Num(2)], doc)

MigrateV1ToV2(doc) ==
  LET telemetry == Join(Section(doc, "telemetry"), AddedInterval)
      logging   == Join(Section(doc, "logging"), AddedConsole)
  IN  Join([telemetry |-> Obj(telemetry), logging |-> Obj(logging),
            configVersion |-> Num(2)], doc)

MigrateV2ToV3(doc) == Join([configVersion |-> Num(3)], doc)

(* The steps from the version of the document up to `target', in order, or *)
(* nothing at all when one of them is missing.                             *)
Migrate(doc, target) ==
  LET steps == VersionOf(doc) .. target - 1
      first == IF 1 \in steps THEN MigrateV1ToV2(doc) ELSE doc
  IN  IF steps \subseteq Registered
        THEN IF 2 \in steps THEN MigrateV2ToV3(first) ELSE first
        ELSE doc

-----------------------------------------------------------------------------
(* The schema *)

Rule(type, default) == [type |-> type, default |-> default, allowed |-> {},
                        lo |-> IntMin, hi |-> IntMax]
IntRule(default, lo, hi)     == [Rule("int", Num(default)) EXCEPT !.lo = lo, !.hi = hi]
TextRule(default)            == Rule("string", default)
ChoiceRule(default, allowed) == [TextRule(default) EXCEPT !.allowed = allowed]
FlagRule                     == Rule("bool", On)
ArrayRule(default)           == Rule("array", List(default))
ObjectRule                   == Rule("object", Invalid)
Nest(rules)                  == [type |-> "object", default |-> Invalid, nested |-> rules]

Levels == {Word(w) : w \in {"debug", "info", "warning", "warn", "error", "critical"}}
Paths  == <<"./plugins", "program files">>
Known  == <<"telemetry_hud", "alert_console", "mission_editor", "map_view">>

TelemetryRules ==
  [bindAddress         |-> TextRule(Word("0.0.0.0")),
   bindPort            |-> IntRule(14550, 1, 65535),
   heartbeatTimeoutMs  |-> IntRule(3000, 100, IntMax),
   reconnectIntervalMs |-> IntRule(5000, 100, IntMax)]
LoggingRules ==
  [minLevel      |-> ChoiceRule(Word("debug"), Levels),
   file          |-> TextRule(Word("aegis.log")),
   maxFiles      |-> IntRule(5, 1, IntMax),
   maxSizeBytes  |-> IntRule(10485760, 1024, IntMax),
   enableConsole |-> FlagRule]
DummyRules   == [enabled |-> FlagRule, intervalMs |-> IntRule(100, 10, IntMax)]
ExportRules  == [exportPath |-> TextRule(Word("aegis-diagnostics.zip"))]
ConsoleRules == [maxItems |-> IntRule(200, 1, IntMax), showTimestamps |-> FlagRule]
MapRules     == [zoom |-> IntRule(15, 1, 20), tileUrlTemplate |-> TextRule(Word("osm"))]
PluginRules  ==
  [telemetry_hud  |-> ObjectRule,
   alert_console  |-> Nest(ConsoleRules),
   mission_editor |-> ObjectRule,
   map_view       |-> Nest(MapRules)]

Schema ==
  [configVersion    |-> IntRule(2, 1, IntMax),
   pluginPaths      |-> ArrayRule(Paths),
   autostartPlugins |-> ArrayRule(Known),
   telemetry        |-> Nest(TelemetryRules),
   logging          |-> Nest(LoggingRules),
   dummyTelemetry   |-> Nest(DummyRules),
   diagnostics      |-> Nest(ExportRules),
   plugins          |-> Nest(PluginRules)]

-----------------------------------------------------------------------------
(* Validation *)

CoerceToInt(value) ==
  CASE value[1] = "number" -> Num(Wrap(value[2]))
    [] value[1] = "digits" /\ value[2] \in IntMin .. IntMax -> Num(value[2])
    [] OTHER -> Invalid

CoerceToString(value) ==
  CASE value[1] = "number" -> Digits(value[2])
    [] value[1] = "flag"   -> Word(IF value[2] THEN "true" ELSE "false")
    [] value[1] \in {"digits", "word"} -> value
    [] OTHER -> Invalid

(* A number read from JSON is a LongLong, which the code does not accept.  *)
CoerceToBool(value) ==
  CASE value[1] = "flag" -> value
    [] value \in {Word("true"), Word("yes"), Word("on"), Digits(1)}  -> Flag(TRUE)
    [] value \in {Word("false"), Word("no"), Word("off"), Digits(0)} -> Flag(FALSE)
    [] OTHER -> Invalid

(* Of the values that JSON gives, an array alone makes a QVariantList.     *)
CoerceToType(type, value) ==
  CASE type = "int"    -> CoerceToInt(value)
    [] type = "string" -> CoerceToString(value)
    [] type = "bool"   -> CoerceToBool(value)
    [] type = "array"  -> IF value[1] = "list" THEN value ELSE Invalid
    [] type = "object" -> IF value[1] = "map" THEN value ELSE Invalid

Clamp_MaxOnly(rule, n) == IF n > rule.hi THEN rule.hi ELSE n

Clamp(rule, n) == IF n < rule.lo THEN rule.lo ELSE IF n > rule.hi THEN rule.hi ELSE n

(* A value under a rule that has no rules nested in it. *)
Leaf(rule, raw) ==
  LET value == CoerceToType(rule.type, raw)
  IN  IF value = Invalid THEN rule.default
        ELSE IF rule.type = "int" THEN Num(Clamp(rule, value[2]))
        ELSE IF rule.allowed # {} /\ value \notin rule.allowed THEN rule.default
        ELSE value

(* validateObject(): the values of the schema, and the unknown keys. *)
ValidateObject(values, raw) == Join(values, raw)

(* A map under nested rules, whose own values are validated; a map that is *)
(* missing is made of them.                                                *)
Nested(rule, raw, values) ==
  IF raw[1] = "map" \/ raw = Missing THEN Obj(ValidateObject(values, Content(raw)))
    ELSE rule.default

(* validateValue(): the schema nests twice. *)
LeafValues(rules, raw) == [k \in DOMAIN rules |-> Leaf(rules[k], Lookup(raw, k))]

SectionValue(rule, raw) ==
  IF "nested" \in DOMAIN rule
    THEN Nested(rule, raw, LeafValues(rule.nested, Content(raw)))
    ELSE Leaf(rule, raw)

SectionValues(rules, raw) == [k \in DOMAIN rules |-> SectionValue(rules[k], Lookup(raw, k))]

TopValue(rule, raw) ==
  IF "nested" \in DOMAIN rule
    THEN Nested(rule, raw, SectionValues(rule.nested, Content(raw)))
    ELSE Leaf(rule, raw)

Validate(doc) ==
  ValidateObject([k \in DOMAIN Schema |-> TopValue(Schema[k], Lookup(doc, k))], doc)

-----------------------------------------------------------------------------
(* What start-up reads, with its own fallbacks. *)

Read(map, key, fallback) == IF key \in DOMAIN map THEN map[key][2] ELSE fallback

Settings(config) ==
  LET telemetry == Section(config, "telemetry")
      logging   == Section(config, "logging")
      dummy     == Section(config, "dummyTelemetry")
      plugins   == Section(config, "plugins")
      atLeast1(n)  == IF n < 1 THEN 1 ELSE n
      bounded(n)   == IF n > 19 THEN 19 ELSE atLeast1(n)
  IN  [heartbeatTimeoutMs |-> Read(telemetry, "heartbeatTimeoutMs", 3000),
       minLevel      |-> Read(logging, "minLevel", "debug"),
       maxSizeBytes  |-> Read(logging, "maxSizeBytes", 10485760),
       maxFiles      |-> Read(logging, "maxFiles", 5),
       dummyEnabled  |-> Read(dummy, "enabled", FALSE),
       intervalMs    |-> Read(dummy, "intervalMs", 100),
       autostart     |-> Read(config, "autostartPlugins", <<>>),
       maxItems      |-> atLeast1(Read(Section(plugins, "alert_console"), "maxItems", 200)),
       zoom          |-> bounded(Read(Section(plugins, "map_view"), "zoom", 15))]

-----------------------------------------------------------------------------
(* What is true of documents *)

(* A document as it is read from JSON: what is called a number or a flag   *)
(* has the content of one, at each level the schema speaks of.             *)
Scalar(value) ==
  /\ value[1] = "number" => value[2] \in Int /\ value = Num(value[2])
  /\ value[1] = "flag" => value[2] \in BOOLEAN

Scalars(map)   == \A k \in DOMAIN map : Scalar(map[k])
Sections(map)  == \A k \in DOMAIN map : Scalar(map[k]) /\ Scalars(Content(map[k]))
Document(map)  == \A k \in DOMAIN map : Scalar(map[k]) /\ Sections(Content(map[k]))

(* A value the schema has nothing against. *)
Fits(rule, value) ==
  CASE rule.type = "int"    -> value[1] = "number" /\ value[2] \in rule.lo .. rule.hi
    [] rule.type = "string" -> /\ value[1] \in {"digits", "word"}
                               /\ rule.allowed = {} \/ value \in rule.allowed
    [] rule.type = "bool"   -> value[1] = "flag"
    [] rule.type = "array"  -> value[1] = "list"
    [] rule.type = "object" -> value[1] = "map"

Keeps(rules, before, after, Kept(_, _, _)) ==
  \A k \in DOMAIN before :
    /\ k \in DOMAIN after
    /\ IF k \in DOMAIN rules THEN Kept(rules[k], before[k], after[k])
         ELSE after[k] = before[k]

LeafKept(rule, before, after) == Fits(rule, before) => after = before

SectionKept(rule, before, after) ==
  IF "nested" \in DOMAIN rule
    THEN before[1] = "map" => after[1] = "map" /\ Keeps(rule.nested, before[2], after[2], LeafKept)
    ELSE LeafKept(rule, before, after)

TopKept(rule, before, after) ==
  IF "nested" \in DOMAIN rule
    THEN before[1] = "map" => after[1] = "map" /\ Keeps(rule.nested, before[2], after[2], SectionKept)
    ELSE LeafKept(rule, before, after)

(* Settings that the code that uses them can do with.                      *)
InRange(settings) ==
  /\ settings.heartbeatTimeoutMs \in 100 .. IntMax
  /\ Word(settings.minLevel) \in Levels
  /\ settings.maxSizeBytes \in 1024 .. IntMax /\ settings.maxFiles \in 1 .. IntMax
  /\ settings.dummyEnabled \in BOOLEAN /\ settings.intervalMs \in 10 .. IntMax
  /\ settings.maxItems \in 1 .. IntMax /\ settings.zoom \in 1 .. 19
=============================================================================
