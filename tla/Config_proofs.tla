---------------------------- MODULE Config_proofs ---------------------------
(***************************************************************************)
(* What migration and validation make of a document, for every document    *)
(* and every size of the int.                                              *)
(***************************************************************************)
EXTENDS Config, TLAPS

(* Each conversion gives the value itself, when it has the type already.   *)
LEMMA WrapInRange ==
  ASSUME NEW n \in Int
  PROVE  Wrap(n) \in IntMin .. IntMax /\ (n \in IntMin .. IntMax => Wrap(n) = n)
  <1> DEFINE w == 2 * (IntMax + 1)
             m == n - IntMin
  <1>1. IntMax \in Nat /\ w \in Nat \ {0} /\ m \in Int /\ IntMin \in Int /\ IntMin + w = IntMax + 1
    BY IntAssumption DEF IntMin
  <1>2. m % w \in 0 .. w - 1
    BY <1>1
  <1>3. n \in IntMin .. IntMax => m \in 0 .. w - 1
    BY <1>1 DEF IntMin
  <1>4. m \in 0 .. w - 1 => m % w = m
    BY <1>1
  <1> HIDE DEF w
  <1>5. Wrap(n) = (m % w) + IntMin
    BY DEF Wrap, w
  <1> QED  BY <1>1, <1>2, <1>3, <1>4, <1>5

Proper(rule) ==
  /\ rule.type \in {"int", "string", "bool", "array", "object"}
  /\ rule.type = "int" =>
       /\ rule.lo \in IntMin .. IntMax /\ rule.hi \in IntMin .. IntMax /\ rule.lo <= rule.hi
       /\ rule.default[1] = "number" /\ rule.default[2] \in rule.lo .. rule.hi
  /\ rule.type = "bool" => rule.default[1] = "flag" /\ rule.default[2] \in BOOLEAN
  /\ rule.allowed # {} => rule.type = "string" /\ rule.default \in rule.allowed

LEMMA FlagsAreKept ==
  ASSUME NEW value, value[1] = "flag"
  PROVE  CoerceToBool(value) = value
  <1>1. \A w : value # Word(w) /\ value # Digits(w)
    BY DEF Word, Digits
  <1>2. /\ value \notin {Word("true"), Word("yes"), Word("on"), Digits(1)}
        /\ value \notin {Word("false"), Word("no"), Word("off"), Digits(0)}
    BY <1>1
  <1> QED  BY <1>2 DEF CoerceToBool

(* A number under an int rule ends between its bounds, a flag is one.      *)
LEMMA LeafInRange ==
  ASSUME NEW rule, Proper(rule), NEW raw, Scalar(raw)
  PROVE  /\ rule.type = "int" => Leaf(rule, raw)[2] \in rule.lo .. rule.hi
         /\ rule.type = "bool" => Leaf(rule, raw)[2] \in BOOLEAN
         /\ rule.type = "string" /\ rule.allowed # {} => Leaf(rule, raw) \in rule.allowed
  <1> DEFINE value == CoerceToType(rule.type, raw)
  <1>1. ASSUME rule.type = "int" PROVE Leaf(rule, raw)[2] \in rule.lo .. rule.hi
    <2>1. value = CoerceToInt(raw)
      BY <1>1 DEF CoerceToType
    <2>2. IntMin \in Int /\ IntMax \in Int
      BY IntAssumption DEF IntMin
    <2>3. value = Invalid \/ value[2] \in Int
      BY <2>1, <2>2, WrapInRange DEF CoerceToInt, Num, Scalar
    <2>4. rule.lo \in Int /\ rule.hi \in Int /\ rule.lo <= rule.hi
      BY <1>1, <2>2 DEF Proper
    <2>5. value[2] \in Int => Clamp(rule, value[2]) \in rule.lo .. rule.hi
      BY <2>4 DEF Clamp
    <2>6. Leaf(rule, raw) = IF value = Invalid THEN rule.default ELSE Num(Clamp(rule, value[2]))
      BY <1>1 DEF Leaf
    <2>7. rule.default[2] \in rule.lo .. rule.hi
      BY <1>1 DEF Proper
    <2> QED  BY <2>3, <2>5, <2>6, <2>7 DEF Num
  <1>2. ASSUME rule.type = "bool" PROVE Leaf(rule, raw)[2] \in BOOLEAN
    <2>1. value = CoerceToBool(raw)
      BY <1>2 DEF CoerceToType
    <2>2. value = Invalid \/ value[2] \in BOOLEAN
      <3>1. CASE raw[1] = "flag"
        <4>1. value = raw
          BY <2>1, <3>1, FlagsAreKept
        <4> QED  BY <3>1, <4>1 DEF Scalar
      <3>2. CASE raw[1] # "flag"
        <4>1. value \in {Flag(TRUE), Flag(FALSE), Invalid}
          BY <2>1, <3>2 DEF CoerceToBool
        <4>2. \A b \in BOOLEAN : Flag(b)[2] = b
          BY DEF Flag
        <4> HIDE DEF value
        <4> QED  BY <4>1, <4>2
      <3> QED  BY <3>1, <3>2
    <2>3. Leaf(rule, raw) \in {value, rule.default} /\ (value = Invalid => Leaf(rule, raw) = rule.default)
      BY <1>2 DEF Leaf
    <2>4. rule.default[2] \in BOOLEAN
      BY <1>2 DEF Proper
    <2> QED  BY <2>2, <2>3, <2>4
  <1>3. ASSUME rule.type = "string", rule.allowed # {} PROVE Leaf(rule, raw) \in rule.allowed
    <2>1. rule.default \in rule.allowed
      BY <1>3 DEF Proper
    <2> QED  BY <1>3, <2>1 DEF Leaf
  <1> QED  BY <1>1, <1>2, <1>3

(* Validation leaves a value alone that its rule accepts.                  *)
LEMMA LeafIsKept ==
  ASSUME NEW rule, Proper(rule), NEW raw, Scalar(raw)
  PROVE  LeafKept(rule, raw, Leaf(rule, raw))
  <1> SUFFICES ASSUME Fits(rule, raw) PROVE Leaf(rule, raw) = raw
    BY DEF LeafKept
  <1>1. CASE rule.type = "int"
    <2>1. raw[1] = "number" /\ raw[2] \in rule.lo .. rule.hi
      BY <1>1 DEF Fits
    <2>2. raw[2] \in Int /\ raw = Num(raw[2])
      BY <2>1 DEF Scalar
    <2>3. IntMin \in Int /\ IntMax \in Int /\ rule.lo \in IntMin .. IntMax /\ rule.hi \in IntMin .. IntMax
      BY <1>1, IntAssumption DEF Proper, IntMin
    <2>4. raw[2] \in IntMin .. IntMax
      BY <2>1, <2>2, <2>3
    <2>5. CoerceToType(rule.type, raw) = raw
      BY <1>1, <2>1, <2>2, <2>4, WrapInRange DEF CoerceToType, CoerceToInt
    <2>6. Clamp(rule, raw[2]) = raw[2]
      BY <2>1, <2>2, <2>3 DEF Clamp
    <2>7. raw # Invalid
      BY <2>1 DEF Invalid
    <2> QED  BY <1>1, <2>2, <2>5, <2>6, <2>7 DEF Leaf
  <1>2. CASE rule.type = "string"
    <2>1. raw[1] \in {"digits", "word"} /\ (rule.allowed = {} \/ raw \in rule.allowed)
      BY <1>2 DEF Fits
    <2>2. CoerceToType(rule.type, raw) = raw
      BY <1>2, <2>1 DEF CoerceToType, CoerceToString
    <2>3. raw # Invalid
      BY <2>1 DEF Invalid
    <2> QED  BY <1>2, <2>1, <2>2, <2>3 DEF Leaf
  <1>3. CASE rule.type \in {"bool", "array", "object"}
    <2>1. \/ rule.type = "bool"   /\ raw[1] = "flag"
          \/ rule.type = "array"  /\ raw[1] = "list"
          \/ rule.type = "object" /\ raw[1] = "map"
      BY <1>3 DEF Fits
    <2>2. CoerceToType(rule.type, raw) = raw
      BY <2>1, FlagsAreKept DEF CoerceToType
    <2>3. raw # Invalid
      BY <2>1 DEF Invalid
    <2>4. rule.allowed = {}
      BY <1>3 DEF Proper
    <2> QED  BY <1>3, <2>2, <2>3, <2>4 DEF Leaf
  <1> QED  BY <1>1, <1>2, <1>3 DEF Proper
-----------------------------------------------------------------------------
(* The schema is well-made: each default is acceptable, and each interval  *)
(* of numbers is a part of the int.                                        *)
ProperLeaves(rules) == \A k \in DOMAIN rules : Proper(rules[k])

ProperSection(rule) ==
  IF "nested" \in DOMAIN rule THEN ProperLeaves(rule.nested) ELSE Proper(rule)

ProperTop(rule) ==
  IF "nested" \in DOMAIN rule
    THEN \A k \in DOMAIN rule.nested : ProperSection(rule.nested[k])
    ELSE Proper(rule)

LEMMA IntRuleIsProper ==
  ASSUME NEW default \in Int, NEW lo \in Int, NEW hi \in Int,
         0 <= lo, lo <= default, default <= hi, hi <= IntMax
  PROVE  LET rule == IntRule(default, lo, hi)
         IN  /\ Proper(rule) /\ ProperSection(rule) /\ ProperTop(rule)
             /\ rule.type = "int" /\ rule.lo = lo /\ rule.hi = hi
  <1> DEFINE rule == IntRule(default, lo, hi)
  <1>1. /\ rule.type = "int" /\ rule.lo = lo /\ rule.hi = hi /\ rule.default = Num(default)
        /\ rule.allowed = {} /\ DOMAIN rule = {"type", "default", "allowed", "lo", "hi"}
    BY DEF IntRule, Rule
  <1>2. IntMin \in Int /\ IntMax \in Int /\ IntMin <= 0
    BY IntAssumption DEF IntMin
  <1> HIDE DEF rule
  <1>3. Proper(rule)
    BY <1>1, <1>2 DEF Proper, Num
  <1>4. "nested" \notin DOMAIN rule
    BY <1>1
  <1> QED  BY <1>1, <1>3, <1>4 DEF ProperSection, ProperTop, rule

LEMMA OtherRuleIsProper ==
  ASSUME NEW type \in {"string", "bool", "array", "object"}, NEW default,
         type = "bool" => \E b \in BOOLEAN : default = Flag(b)
  PROVE  LET rule == Rule(type, default)
         IN  Proper(rule) /\ ProperSection(rule) /\ ProperTop(rule) /\ rule.type = type
  <1> DEFINE rule == Rule(type, default)
  <1>1. /\ rule.type = type /\ rule.default = default /\ rule.allowed = {}
        /\ DOMAIN rule = {"type", "default", "allowed", "lo", "hi"}
    BY DEF Rule
  <1>2. type = "bool" => default[1] = "flag" /\ default[2] \in BOOLEAN
    <2>1. \A b \in BOOLEAN : Flag(b)[1] = "flag" /\ Flag(b)[2] = b
      BY DEF Flag
    <2> QED  BY <2>1
  <1> HIDE DEF rule
  <1>3. Proper(rule)
    BY <1>1, <1>2 DEF Proper
  <1>4. "nested" \notin DOMAIN rule
    BY <1>1
  <1> QED  BY <1>1, <1>3, <1>4 DEF ProperSection, ProperTop, rule

LEMMA NestIs ==
  ASSUME NEW rules
  PROVE  /\ "nested" \in DOMAIN Nest(rules) /\ Nest(rules).nested = rules
         /\ Nest(rules).default = Invalid
  BY DEF Nest

LEMMA ChoiceRuleIsProper ==
  ASSUME NEW default, NEW allowed, default \in allowed
  PROVE  LET rule == ChoiceRule(default, allowed)
         IN  Proper(rule) /\ ProperSection(rule) /\ rule.type = "string" /\ rule.allowed = allowed
  <1> DEFINE rule == ChoiceRule(default, allowed)
  <1>1. /\ rule.type = "string" /\ rule.default = default /\ rule.allowed = allowed
        /\ DOMAIN rule = {"type", "default", "allowed", "lo", "hi"}
    BY DEF ChoiceRule, TextRule, Rule
  <1> HIDE DEF rule
  <1>2. Proper(rule) /\ "nested" \notin DOMAIN rule
    BY <1>1 DEF Proper
  <1> QED  BY <1>1, <1>2 DEF ProperSection, rule

(* The rules of each section, one by one.                                  *)
LEMMA RulesAreProper ==
  /\ \A k \in DOMAIN TelemetryRules : ProperSection(TelemetryRules[k])
  /\ \A k \in DOMAIN LoggingRules : ProperSection(LoggingRules[k])
  /\ \A k \in DOMAIN DummyRules : ProperSection(DummyRules[k])
  /\ \A k \in DOMAIN ExportRules : ProperSection(ExportRules[k])
  /\ ProperLeaves(ConsoleRules) /\ ProperLeaves(MapRules)
  <1>0. IntMax \in Int /\ 10485760 <= IntMax
    BY IntAssumption, SMT
  <1>1. /\ ProperSection(IntRule(3000, 100, IntMax)) /\ ProperSection(IntRule(5000, 100, IntMax))
        /\ ProperSection(IntRule(5, 1, IntMax)) /\ ProperSection(IntRule(100, 10, IntMax))
        /\ Proper(IntRule(200, 1, IntMax))
    BY <1>0, IntRuleIsProper, SMT
  <1>2. ProperSection(IntRule(10485760, 1024, IntMax))
    BY <1>0, IntRuleIsProper, SMT
  <1>12. ProperSection(IntRule(14550, 1, 65535)) /\ Proper(IntRule(15, 1, 20))
    BY <1>0, IntRuleIsProper, SMT
  <1>3. \A w : ProperSection(TextRule(w)) /\ Proper(TextRule(w))
    BY OtherRuleIsProper DEF TextRule
  <1>4. ProperSection(FlagRule) /\ Proper(FlagRule)
    BY OtherRuleIsProper DEF FlagRule, On
  <1>5. ProperSection(ChoiceRule(Word("debug"), Levels))
    BY ChoiceRuleIsProper DEF Levels
  <1>6. \A k \in DOMAIN TelemetryRules : ProperSection(TelemetryRules[k])
    BY <1>1, <1>12, <1>3, SMT DEF TelemetryRules
  <1>7. \A k \in DOMAIN LoggingRules : ProperSection(LoggingRules[k])
    BY <1>1, <1>2, <1>3, <1>4, <1>5, SMT DEF LoggingRules
  <1>8. \A k \in DOMAIN DummyRules : ProperSection(DummyRules[k])
    BY <1>1, <1>4, SMT DEF DummyRules
  <1>9. \A k \in DOMAIN ExportRules : ProperSection(ExportRules[k])
    BY <1>3, SMT DEF ExportRules
  <1>10. ProperLeaves(ConsoleRules)
    BY <1>1, <1>4, SMT DEF ConsoleRules, ProperLeaves
  <1>11. ProperLeaves(MapRules)
    BY <1>12, <1>3, SMT DEF MapRules, ProperLeaves
  <1> QED  BY <1>6, <1>7, <1>8, <1>9, <1>10, <1>11

LEMMA SchemaIsProper == \A k \in DOMAIN Schema : ProperTop(Schema[k])
  <1>1. ProperTop(IntRule(2, 1, IntMax))
    BY IntRuleIsProper, IntAssumption, SMT
  <1>2. \A list : ProperTop(ArrayRule(list))
    BY OtherRuleIsProper DEF ArrayRule
  <1>3. \A rules : (\A k \in DOMAIN rules : ProperSection(rules[k])) => ProperTop(Nest(rules))
    BY NestIs DEF ProperTop
  <1>4. ProperSection(Nest(ConsoleRules)) /\ ProperSection(Nest(MapRules)) /\ ProperSection(ObjectRule)
    BY NestIs, RulesAreProper, OtherRuleIsProper DEF ProperSection, ObjectRule
  <1>5. \A k \in DOMAIN PluginRules : ProperSection(PluginRules[k])
    BY <1>4 DEF PluginRules
  <1>6. /\ ProperTop(Nest(TelemetryRules)) /\ ProperTop(Nest(LoggingRules))
        /\ ProperTop(Nest(DummyRules)) /\ ProperTop(Nest(ExportRules)) /\ ProperTop(Nest(PluginRules))
    BY <1>3, <1>5, RulesAreProper
  <1>7. ProperTop(ArrayRule(Paths)) /\ ProperTop(ArrayRule(Known))
    BY <1>2
  <1> QED  BY <1>1, <1>6, <1>7, SMT DEF Schema

-----------------------------------------------------------------------------
(* Validation keeps what the schema accepts, at each level.                *)
LEMMA JoinIs ==
  ASSUME NEW f, NEW g
  PROVE  /\ \A k : k \in DOMAIN Join(f, g) <=> k \in DOMAIN f \/ k \in DOMAIN g
         /\ \A k : k \in DOMAIN f => Join(f, g)[k] = f[k]
         /\ \A k : k \in DOMAIN g /\ k \notin DOMAIN f => Join(f, g)[k] = g[k]
  BY DEF Join

LEMMA EmptyIs == DOMAIN Empty = {} /\ Content(Missing) = Empty /\ Content(Invalid) = Empty
  BY DEF Empty, Content, Missing, Invalid

LEMMA SectionIsKept ==
  ASSUME NEW rule, ProperSection(rule), NEW raw, Scalar(raw), Scalars(Content(raw))
  PROVE  SectionKept(rule, raw, SectionValue(rule, raw))
  <1>1. CASE "nested" \notin DOMAIN rule
    BY <1>1, LeafIsKept DEF ProperSection, SectionKept, SectionValue
  <1>2. CASE "nested" \in DOMAIN rule
    <2> SUFFICES ASSUME raw[1] = "map"
                 PROVE  LET after == SectionValue(rule, raw)
                        IN  after[1] = "map" /\ Keeps(rule.nested, raw[2], after[2], LeafKept)
      BY <1>2 DEF SectionKept
    <2> DEFINE values == LeafValues(rule.nested, raw[2])
               joined == Join(values, raw[2])
    <2>1. Content(raw) = raw[2]
      BY DEF Content
    <2>2. SectionValue(rule, raw) = Obj(joined)
      BY <1>2, <2>1 DEF SectionValue, Nested, ValidateObject
    <2>3. /\ DOMAIN values = DOMAIN rule.nested
          /\ \A k \in DOMAIN rule.nested : values[k] = Leaf(rule.nested[k], Lookup(raw[2], k))
      BY DEF LeafValues
    <2> HIDE DEF values
    <2>5. \A k : /\ k \in DOMAIN raw[2] => k \in DOMAIN joined
                 /\ k \in DOMAIN rule.nested => joined[k] = values[k]
                 /\ k \in DOMAIN raw[2] /\ k \notin DOMAIN rule.nested => joined[k] = raw[2][k]
      BY <2>3, JoinIs
    <2> HIDE DEF joined
    <2>4. \A k \in DOMAIN raw[2] :
            /\ k \in DOMAIN joined
            /\ IF k \in DOMAIN rule.nested THEN LeafKept(rule.nested[k], raw[2][k], joined[k])
                 ELSE joined[k] = raw[2][k]
      <3> TAKE k \in DOMAIN raw[2]
      <3>1. k \in DOMAIN joined
        BY <2>5
      <3>2. CASE k \in DOMAIN rule.nested
        <4>1. joined[k] = Leaf(rule.nested[k], raw[2][k])
          BY <2>3, <2>5, <3>2 DEF Lookup
        <4>2. Proper(rule.nested[k]) /\ Scalar(raw[2][k])
          BY <1>2, <2>1, <3>2 DEF ProperSection, ProperLeaves, Scalars
        <4> QED  BY <3>1, <3>2, <4>1, <4>2, LeafIsKept
      <3>3. CASE k \notin DOMAIN rule.nested
        BY <2>5, <3>1, <3>3
      <3> QED  BY <3>2, <3>3
    <2> QED  BY <2>2, <2>4 DEF Keeps, Obj
  <1> QED  BY <1>1, <1>2

(* `raw' is `before', or a map that has grown by some keys.                *)
LEMMA TopIsKept ==
  ASSUME NEW rule, ProperTop(rule), NEW before, NEW raw,
         Scalar(before), Sections(Content(before)),
         "nested" \notin DOMAIN rule => raw = before,
         before[1] = "map" => /\ raw[1] = "map"
                              /\ \A k \in DOMAIN before[2] :
                                   k \in DOMAIN raw[2] /\ raw[2][k] = before[2][k]
  PROVE  TopKept(rule, before, TopValue(rule, raw))
  <1>1. CASE "nested" \notin DOMAIN rule
    BY <1>1, LeafIsKept DEF ProperTop, TopKept, TopValue
  <1>2. CASE "nested" \in DOMAIN rule
    <2> SUFFICES ASSUME before[1] = "map"
                 PROVE  LET after == TopValue(rule, raw)
                        IN  after[1] = "map" /\ Keeps(rule.nested, before[2], after[2], SectionKept)
      BY <1>2 DEF TopKept
    <2> DEFINE values == SectionValues(rule.nested, raw[2])
               joined == Join(values, raw[2])
    <2>1. Content(raw) = raw[2] /\ Content(before) = before[2]
      BY DEF Content
    <2>2. TopValue(rule, raw) = Obj(joined)
      BY <1>2, <2>1 DEF TopValue, Nested, ValidateObject
    <2>3. /\ DOMAIN values = DOMAIN rule.nested
          /\ \A k \in DOMAIN rule.nested : values[k] = SectionValue(rule.nested[k], Lookup(raw[2], k))
      BY DEF SectionValues
    <2> HIDE DEF values
    <2>5. \A k : /\ k \in DOMAIN raw[2] => k \in DOMAIN joined
                 /\ k \in DOMAIN rule.nested => joined[k] = values[k]
                 /\ k \in DOMAIN raw[2] /\ k \notin DOMAIN rule.nested => joined[k] = raw[2][k]
      BY <2>3, JoinIs
    <2> HIDE DEF joined
    <2>4. \A k \in DOMAIN before[2] :
            /\ k \in DOMAIN joined
            /\ IF k \in DOMAIN rule.nested THEN SectionKept(rule.nested[k], before[2][k], joined[k])
                 ELSE joined[k] = before[2][k]
      <3> TAKE k \in DOMAIN before[2]
      <3>1. k \in DOMAIN raw[2] /\ raw[2][k] = before[2][k]
        OBVIOUS
      <3>2. k \in DOMAIN joined
        BY <2>5, <3>1
      <3>3. CASE k \in DOMAIN rule.nested
        <4>1. joined[k] = SectionValue(rule.nested[k], before[2][k])
          BY <2>3, <2>5, <3>1, <3>3 DEF Lookup
        <4>2. ProperSection(rule.nested[k])
          BY <1>2, <3>3 DEF ProperTop
        <4>3. Scalar(before[2][k]) /\ Scalars(Content(before[2][k]))
          BY <2>1 DEF Sections
        <4> QED  BY <3>2, <3>3, <4>1, <4>2, <4>3, SectionIsKept
      <3>4. CASE k \notin DOMAIN rule.nested
        BY <2>5, <3>1, <3>2, <3>4
      <3> QED  BY <3>3, <3>4
    <2> QED  BY <2>2, <2>4 DEF Keeps, Obj
  <1> QED  BY <1>1, <1>2

-----------------------------------------------------------------------------
(* Migration.                                                              *)
LEMMA MigrateIs ==
  ASSUME NEW doc
  PROVE  Migrate(doc, CurrentVersion) \in {doc, MigrateV1ToV2(doc)}
  BY DEF Migrate, CurrentVersion

LEMMA MigrateV1ToV2Is ==
  ASSUME NEW doc
  PROVE  LET after == MigrateV1ToV2(doc)
         IN  /\ \A k : k \in DOMAIN after <=>
                        k \in DOMAIN doc \/ k \in {"telemetry", "logging", "configVersion"}
             /\ after["telemetry"] =
                  Obj(Join(Section(doc, "telemetry"), AddedInterval))
             /\ after["logging"] =
                  Obj(Join(Section(doc, "logging"), AddedConsole))
             /\ after["configVersion"] = Num(2)
             /\ \A k \in DOMAIN doc \ {"telemetry", "logging", "configVersion"} :
                  after[k] = doc[k]
  <1> DEFINE telemetry == Obj(Join(Section(doc, "telemetry"), AddedInterval))
             logging   == Obj(Join(Section(doc, "logging"), AddedConsole))
             new == [telemetry |-> telemetry, logging |-> logging, configVersion |-> Num(2)]
  <1>1. MigrateV1ToV2(doc) = Join(new, doc)
    BY DEF MigrateV1ToV2
  <1> HIDE DEF telemetry, logging
  <1>2. /\ DOMAIN new = {"telemetry", "logging", "configVersion"}
        /\ new["telemetry"] = telemetry /\ new["logging"] = logging
        /\ new["configVersion"] = Num(2)
    OBVIOUS
  <1> HIDE DEF new
  <1>3. \A k : k \in DOMAIN MigrateV1ToV2(doc) <=>
                 k \in DOMAIN doc \/ k \in {"telemetry", "logging", "configVersion"}
    BY <1>1, <1>2, JoinIs
  <1>4. \A k \in {"telemetry", "logging", "configVersion"} : MigrateV1ToV2(doc)[k] = new[k]
    BY <1>1, <1>2, JoinIs
  <1>5. \A k \in DOMAIN doc \ {"telemetry", "logging", "configVersion"} :
          MigrateV1ToV2(doc)[k] = doc[k]
    BY <1>1, <1>2, JoinIs
  <1> QED  BY <1>2, <1>3, <1>4, <1>5 DEF telemetry, logging

(* A document stays one.                                                   *)
LEMMA MigrateIsDocument ==
  ASSUME NEW doc, Document(doc)
  PROVE  Document(Migrate(doc, CurrentVersion))
  <1>1. Document(MigrateV1ToV2(doc))
    <2> DEFINE after == MigrateV1ToV2(doc)
    <2> SUFFICES ASSUME NEW k \in DOMAIN after
                 PROVE  Scalar(after[k]) /\ Sections(Content(after[k]))
      BY DEF Document
    <2>1. /\ Content(Num(2)) = Empty /\ Content(Num(5000)) = Empty /\ Content(On) = Empty
          /\ Scalar(Num(2)) /\ Scalar(Num(5000)) /\ Scalar(On)
      BY DEF Num, On, Flag, Content, Scalar
    <2>2. Scalars(Empty) /\ Sections(Empty)
      BY EmptyIs DEF Scalars, Sections
    <2>3. ASSUME NEW f, NEW g, Sections(f), Sections(g)
          PROVE  Sections(Join(f, g))
      BY <2>3, JoinIs DEF Sections
    <2>4. \A f : Content(Obj(f)) = f /\ Scalar(Obj(f))
      BY DEF Content, Obj, Scalar
    <2>5. \A key : Sections(Section(doc, key))
      BY <2>2, EmptyIs DEF Section, Lookup, Document
    <2>6. Sections(AddedInterval) /\ Sections(AddedConsole)
      <3>1. \A k1 \in DOMAIN AddedInterval : AddedInterval[k1] = Num(5000)
        BY DEF AddedInterval
      <3>2. \A k1 \in DOMAIN AddedConsole : AddedConsole[k1] = On
        BY DEF AddedConsole
      <3>3. Scalars(Content(Num(5000))) /\ Scalars(Content(On))
        BY <2>1, <2>2
      <3>4. Sections(AddedInterval)
        BY <2>1, <3>1, <3>3, SMT DEF Sections
      <3>5. Sections(AddedConsole)
        BY <2>1, <3>2, <3>3, SMT DEF Sections
      <3> QED  BY <3>4, <3>5
    <2>7. CASE k \in {"telemetry", "logging"}
      <3>1. PICK more : after[k] = Obj(Join(Section(doc, k), more)) /\ Sections(more)
        <4>1. /\ after["telemetry"] = Obj(Join(Section(doc, "telemetry"), AddedInterval))
              /\ after["logging"] = Obj(Join(Section(doc, "logging"), AddedConsole))
          BY MigrateV1ToV2Is
        <4> HIDE DEF after
        <4> QED  BY <2>6, <2>7, <4>1
      <3>2. Sections(Join(Section(doc, k), more))
        BY <2>3, <2>5, <3>1
      <3> QED  BY <2>4, <3>1, <3>2
    <2>8. CASE k = "configVersion"
      <3>1. after["configVersion"] = Num(2)
        BY MigrateV1ToV2Is
      <3> HIDE DEF after
      <3> QED  BY <2>1, <2>2, <2>8, <3>1
    <2>9. CASE k \notin {"telemetry", "logging", "configVersion"}
      BY <2>9, MigrateV1ToV2Is DEF Document
    <2> QED  BY <2>7, <2>8, <2>9
  <1> QED  BY <1>1, MigrateIs

(* Together they keep what the schema accepts and what it does not know.   *)
LEMMA DocumentIsKept ==
  ASSUME NEW doc, Document(doc)
  PROVE  Keeps(Schema, [k \in DOMAIN doc \ {"configVersion"} |-> doc[k]],
               Validate(Migrate(doc, CurrentVersion)), TopKept)
  <1> DEFINE before   == [k \in DOMAIN doc \ {"configVersion"} |-> doc[k]]
             migrated == Migrate(doc, CurrentVersion)
             values   == [k \in DOMAIN Schema |-> TopValue(Schema[k], Lookup(migrated, k))]
             after    == Join(values, migrated)
  <1>1. Validate(migrated) = after
    BY DEF Validate, ValidateObject
  <1>2. ASSUME NEW k \in DOMAIN before
        PROVE  /\ k \in DOMAIN migrated
               /\ k \notin {"telemetry", "logging"} => migrated[k] = doc[k]
               /\ doc[k][1] = "map" =>
                    /\ migrated[k][1] = "map"
                    /\ \A sub \in DOMAIN doc[k][2] :
                         sub \in DOMAIN migrated[k][2] /\ migrated[k][2][sub] = doc[k][2][sub]
    <2>1. CASE migrated = doc
      BY <1>2, <2>1
    <2>2. CASE migrated = MigrateV1ToV2(doc)
      <3> HIDE DEF migrated
      <3>1. k \in DOMAIN doc /\ k # "configVersion"
        BY <1>2
      <3>2. k \in DOMAIN migrated /\ (k \notin {"telemetry", "logging"} => migrated[k] = doc[k])
        BY <2>2, <3>1, MigrateV1ToV2Is
      <3>3. CASE k \notin {"telemetry", "logging"}
        BY <3>2, <3>3
      <3>4. CASE k \in {"telemetry", "logging"}
        <4>1. PICK more : migrated[k] = Obj(Join(Section(doc, k), more))
          BY <2>2, <3>4, MigrateV1ToV2Is
        <4>2. migrated[k][1] = "map" /\ migrated[k][2] = Join(Section(doc, k), more)
          BY <4>1 DEF Obj
        <4>3. doc[k][1] = "map" => Section(doc, k) = doc[k][2]
          BY <3>1 DEF Section, Lookup, Content
        <4> QED  BY <3>2, <3>4, <4>2, <4>3, JoinIs
      <3> QED  BY <3>3, <3>4
    <2> QED  BY <2>1, <2>2, MigrateIs
  <1>3. \A k \in DOMAIN before : before[k] = doc[k] /\ k \in DOMAIN doc
    OBVIOUS
  <1>4. DOMAIN values = DOMAIN Schema
    OBVIOUS
  <1>5. "nested" \in DOMAIN Schema["telemetry"] /\ "nested" \in DOMAIN Schema["logging"]
    BY NestIs DEF Schema
  <1>6. ASSUME NEW k \in DOMAIN before
        PROVE  /\ k \in DOMAIN after
               /\ IF k \in DOMAIN Schema THEN TopKept(Schema[k], before[k], after[k])
                    ELSE after[k] = before[k]
    <2>1. k \in DOMAIN after
      BY <1>2, JoinIs
    <2>2. CASE k \in DOMAIN Schema
      <3>1. after[k] = TopValue(Schema[k], migrated[k])
        BY <1>2, <1>4, <2>2, JoinIs DEF Lookup
      <3>2. ProperTop(Schema[k]) /\ Scalar(doc[k]) /\ Sections(Content(doc[k]))
        BY <1>3, <2>2, SchemaIsProper DEF Document
      <3>3. "nested" \notin DOMAIN Schema[k] => migrated[k] = doc[k]
        BY <1>2, <1>5
      <3>4. TopKept(Schema[k], doc[k], TopValue(Schema[k], migrated[k]))
        BY <1>2, <3>2, <3>3, TopIsKept
      <3> QED  BY <1>3, <2>1, <2>2, <3>1, <3>4
    <2>3. CASE k \notin DOMAIN Schema
      <3>1. k \notin {"telemetry", "logging"}
        BY <2>3 DEF Schema
      <3>2. after[k] = migrated[k]
        BY <1>2, <1>4, <2>3, JoinIs
      <3> QED  BY <1>2, <1>3, <2>1, <2>3, <3>1, <3>2
    <2> QED  BY <2>2, <2>3
  <1> HIDE DEF before, after
  <1>7. Keeps(Schema, before, after, TopKept)
    BY <1>6 DEF Keeps
  <1> QED  BY <1>1, <1>7 DEF before

-----------------------------------------------------------------------------
(* What start-up reads.                                                    *)
LEMMA SectionRead ==
  ASSUME NEW doc, Document(doc), NEW key \in DOMAIN Schema, NEW rules, Schema[key] = Nest(rules)
  PROVE  LET section == Section(Validate(doc), key)
         IN  \/ section = Empty
             \/ \A k \in DOMAIN rules :
                  /\ k \in DOMAIN section
                  /\ \E raw : /\ Scalar(raw) /\ Scalars(Content(raw))
                              /\ section[k] = SectionValue(rules[k], raw)
  <1> DEFINE raw     == Lookup(doc, key)
             values  == [k \in DOMAIN Schema |-> TopValue(Schema[k], Lookup(doc, k))]
             nested  == SectionValues(rules, Content(raw))
             section == Section(Validate(doc), key)
  <1>1. DOMAIN values = DOMAIN Schema /\ values[key] = TopValue(Schema[key], raw)
    OBVIOUS
  <1>2. Validate(doc) = Join(values, doc)
    BY DEF Validate, ValidateObject
  <1> HIDE DEF values
  <1>3. section = Content(TopValue(Nest(rules), raw))
    BY <1>1, <1>2, JoinIs DEF Section, Lookup
  <1>4. TopValue(Nest(rules), raw) \in {Obj(Join(nested, Content(raw))), Invalid}
    BY NestIs DEF TopValue, Nested, ValidateObject
  <1>5. Content(Obj(Join(nested, Content(raw)))) = Join(nested, Content(raw))
    BY DEF Content, Obj
  <1>6. section \in {Join(nested, Content(raw)), Empty}
    BY <1>3, <1>4, <1>5, EmptyIs
  <1>7. Sections(Content(raw))
    BY EmptyIs DEF Lookup, Document, Sections
  <1>8. /\ DOMAIN nested = DOMAIN rules
        /\ \A k \in DOMAIN rules : nested[k] = SectionValue(rules[k], Lookup(Content(raw), k))
    BY DEF SectionValues
  <1>9. \A k : Scalar(Lookup(Content(raw), k)) /\ Scalars(Content(Lookup(Content(raw), k)))
    BY <1>7, EmptyIs DEF Sections, Lookup, Scalars, Scalar, Missing
  <1> HIDE DEF nested, section, raw
  <1>10. ASSUME section # Empty, NEW k \in DOMAIN rules
         PROVE  /\ k \in DOMAIN section
                /\ \E r : Scalar(r) /\ Scalars(Content(r)) /\ section[k] = SectionValue(rules[k], r)
    <2>1. section = Join(nested, Content(raw))
      BY <1>6, <1>10
    <2>2. k \in DOMAIN section /\ section[k] = nested[k]
      BY <1>8, <2>1, JoinIs
    <2> QED  BY <1>8, <1>9, <2>2
  <1>11. section = Empty \/ \A k \in DOMAIN rules :
           /\ k \in DOMAIN section
           /\ \E r : Scalar(r) /\ Scalars(Content(r)) /\ section[k] = SectionValue(rules[k], r)
    BY <1>10
  <1> QED  BY <1>11 DEF section

(* The same one level down.                                                *)
LEMMA LeafRead ==
  ASSUME NEW rules, NEW raw, Scalars(Content(raw))
  PROVE  LET section == Content(SectionValue(Nest(rules), raw))
         IN  \/ section = Empty
             \/ \A k \in DOMAIN rules :
                  k \in DOMAIN section /\ \E r : Scalar(r) /\ section[k] = Leaf(rules[k], r)
  <1> DEFINE nested  == LeafValues(rules, Content(raw))
             section == Content(SectionValue(Nest(rules), raw))
  <1>1. SectionValue(Nest(rules), raw) \in {Obj(Join(nested, Content(raw))), Invalid}
    BY NestIs DEF SectionValue, Nested, ValidateObject
  <1>2. Content(Obj(Join(nested, Content(raw)))) = Join(nested, Content(raw))
    BY DEF Content, Obj
  <1>3. section \in {Join(nested, Content(raw)), Empty}
    BY <1>1, <1>2, EmptyIs
  <1>4. /\ DOMAIN nested = DOMAIN rules
        /\ \A k \in DOMAIN rules : nested[k] = Leaf(rules[k], Lookup(Content(raw), k))
    BY DEF LeafValues
  <1>5. \A k : Scalar(Lookup(Content(raw), k))
    BY DEF Scalars, Lookup, Scalar, Missing
  <1> HIDE DEF nested, section
  <1>6. ASSUME section # Empty, NEW k \in DOMAIN rules
        PROVE  k \in DOMAIN section /\ \E r : Scalar(r) /\ section[k] = Leaf(rules[k], r)
    <2>1. section = Join(nested, Content(raw))
      BY <1>3, <1>6
    <2>2. k \in DOMAIN section /\ section[k] = nested[k]
      BY <1>4, <2>1, JoinIs
    <2> QED  BY <1>4, <1>5, <2>2
  <1>7. section = Empty \/ \A k \in DOMAIN rules :
          k \in DOMAIN section /\ \E r : Scalar(r) /\ section[k] = Leaf(rules[k], r)
    BY <1>6
  <1> QED  BY <1>7 DEF section

(* A leaf of a section, read with a fallback.                              *)
LEMMA NumberRead ==
  ASSUME NEW rule, Proper(rule), rule.type = "int", NEW section, NEW k, NEW fallback,
         fallback \in rule.lo .. rule.hi,
         \/ section = Empty
         \/ k \in DOMAIN section /\ \E r : Scalar(r) /\ section[k] = Leaf(rule, r)
  PROVE  Read(section, k, fallback) \in rule.lo .. rule.hi
  <1>1. CASE section = Empty
    BY <1>1, EmptyIs DEF Read
  <1>2. CASE k \in DOMAIN section /\ \E r : Scalar(r) /\ section[k] = Leaf(rule, r)
    <2>1. PICK r : Scalar(r) /\ section[k] = Leaf(rule, r)
      BY <1>2
    <2>2. section[k][2] \in rule.lo .. rule.hi
      BY <2>1, LeafInRange
    <2> QED  BY <1>2, <2>2 DEF Read
  <1> QED  BY <1>1, <1>2

LEMMA LeafOfSection ==
  ASSUME NEW rule, "nested" \notin DOMAIN rule, NEW raw
  PROVE  SectionValue(rule, raw) = Leaf(rule, raw)
  BY DEF SectionValue

LEMMA RulesAreLeaves ==
  /\ \A default, lo, hi : "nested" \notin DOMAIN IntRule(default, lo, hi)
  /\ \A type, default : "nested" \notin DOMAIN Rule(type, default)
  /\ \A default, allowed : "nested" \notin DOMAIN ChoiceRule(default, allowed)
  BY DEF IntRule, ChoiceRule, TextRule, Rule

(* Whatever the document holds, the settings are in range.                 *)
LEMMA SettingsAreInRange ==
  ASSUME NEW doc, Document(doc)
  PROVE  InRange(Settings(Validate(doc)))
  <1> DEFINE config    == Validate(doc)
             telemetry == Section(config, "telemetry")
             logging   == Section(config, "logging")
             dummy     == Section(config, "dummyTelemetry")
             plugins   == Section(config, "plugins")
             console   == Section(plugins, "alert_console")
             map       == Section(plugins, "map_view")
  <1>0. IntMax \in Nat /\ 10485760 <= IntMax
    BY IntAssumption, SMT
  <1>1. /\ {"telemetry", "logging", "dummyTelemetry", "plugins"} \subseteq DOMAIN Schema
        /\ Schema["telemetry"] = Nest(TelemetryRules) /\ Schema["logging"] = Nest(LoggingRules)
        /\ Schema["dummyTelemetry"] = Nest(DummyRules) /\ Schema["plugins"] = Nest(PluginRules)
    BY DEF Schema
  <1>2. Read(telemetry, "heartbeatTimeoutMs", 3000) \in 100 .. IntMax
    <2> DEFINE k == "heartbeatTimeoutMs"
    <2>1. k \in DOMAIN TelemetryRules /\ TelemetryRules[k] = IntRule(3000, 100, IntMax)
      BY DEF TelemetryRules
    <2>2. \/ telemetry = Empty
          \/ k \in DOMAIN telemetry /\ \E r : Scalar(r) /\ telemetry[k] = Leaf(TelemetryRules[k], r)
      BY <1>1, <2>1, SectionRead, LeafOfSection, RulesAreLeaves
    <2> HIDE DEF telemetry
    <2>3. LET rule == IntRule(3000, 100, IntMax)
          IN  /\ Proper(rule) /\ rule.type = "int" /\ rule.lo = 100 /\ rule.hi = IntMax
              /\ 3000 \in 100 .. IntMax
      BY <1>0, IntRuleIsProper, SMT
    <2> QED  BY <2>1, <2>2, <2>3, NumberRead
  <1>3. Read(logging, "maxSizeBytes", 10485760) \in 1024 .. IntMax
    <2> DEFINE k == "maxSizeBytes"
    <2>1. k \in DOMAIN LoggingRules /\ LoggingRules[k] = IntRule(10485760, 1024, IntMax)
      BY DEF LoggingRules
    <2>2. \/ logging = Empty
          \/ k \in DOMAIN logging /\ \E r : Scalar(r) /\ logging[k] = Leaf(LoggingRules[k], r)
      BY <1>1, <2>1, SectionRead, LeafOfSection, RulesAreLeaves
    <2> HIDE DEF logging
    <2>3. LET rule == IntRule(10485760, 1024, IntMax)
          IN  /\ Proper(rule) /\ rule.type = "int" /\ rule.lo = 1024 /\ rule.hi = IntMax
              /\ 10485760 \in 1024 .. IntMax
      BY <1>0, IntRuleIsProper, SMT
    <2> QED  BY <2>1, <2>2, <2>3, NumberRead
  <1>4. Read(logging, "maxFiles", 5) \in 1 .. IntMax
    <2> DEFINE k == "maxFiles"
    <2>1. k \in DOMAIN LoggingRules /\ LoggingRules[k] = IntRule(5, 1, IntMax)
      BY DEF LoggingRules
    <2>2. \/ logging = Empty
          \/ k \in DOMAIN logging /\ \E r : Scalar(r) /\ logging[k] = Leaf(LoggingRules[k], r)
      BY <1>1, <2>1, SectionRead, LeafOfSection, RulesAreLeaves
    <2> HIDE DEF logging
    <2>3. LET rule == IntRule(5, 1, IntMax)
          IN  /\ Proper(rule) /\ rule.type = "int" /\ rule.lo = 1 /\ rule.hi = IntMax
              /\ 5 \in 1 .. IntMax
      BY <1>0, IntRuleIsProper, SMT
    <2> QED  BY <2>1, <2>2, <2>3, NumberRead
  <1>5. Read(dummy, "intervalMs", 100) \in 10 .. IntMax
    <2> DEFINE k == "intervalMs"
    <2>1. k \in DOMAIN DummyRules /\ DummyRules[k] = IntRule(100, 10, IntMax)
      BY DEF DummyRules
    <2>2. \/ dummy = Empty
          \/ k \in DOMAIN dummy /\ \E r : Scalar(r) /\ dummy[k] = Leaf(DummyRules[k], r)
      BY <1>1, <2>1, SectionRead, LeafOfSection, RulesAreLeaves
    <2> HIDE DEF dummy
    <2>3. LET rule == IntRule(100, 10, IntMax)
          IN  /\ Proper(rule) /\ rule.type = "int" /\ rule.lo = 10 /\ rule.hi = IntMax
              /\ 100 \in 10 .. IntMax
      BY <1>0, IntRuleIsProper, SMT
    <2> QED  BY <2>1, <2>2, <2>3, NumberRead
  <1>6. Word(Read(logging, "minLevel", "debug")) \in Levels
    <2> DEFINE k == "minLevel"
    <2>1. k \in DOMAIN LoggingRules /\ LoggingRules[k] = ChoiceRule(Word("debug"), Levels)
      BY DEF LoggingRules
    <2>2. \/ logging = Empty
          \/ k \in DOMAIN logging /\ \E r : Scalar(r) /\ logging[k] = Leaf(LoggingRules[k], r)
      BY <1>1, <2>1, SectionRead, LeafOfSection, RulesAreLeaves
    <2>3. \A value \in Levels : Word(value[2]) = value
      BY DEF Levels, Word
    <2>4. Word("debug") \in Levels /\ Levels # {}
      BY DEF Levels
    <2> HIDE DEF logging
    <2>5. CASE logging = Empty
      BY <2>4, <2>5, EmptyIs DEF Read
    <2>6. CASE k \in DOMAIN logging /\ \E r : Scalar(r) /\ logging[k] = Leaf(LoggingRules[k], r)
      <3>1. logging[k] \in Levels
        BY <2>1, <2>4, <2>6, ChoiceRuleIsProper, LeafInRange
      <3> QED  BY <2>3, <2>6, <3>1 DEF Read
    <2> QED  BY <2>2, <2>5, <2>6
  <1>7. Read(dummy, "enabled", FALSE) \in BOOLEAN
    <2> DEFINE k == "enabled"
    <2>1. k \in DOMAIN DummyRules /\ DummyRules[k] = FlagRule
      BY DEF DummyRules
    <2>2. \/ dummy = Empty
          \/ k \in DOMAIN dummy /\ \E r : Scalar(r) /\ dummy[k] = Leaf(DummyRules[k], r)
      BY <1>1, <2>1, SectionRead, LeafOfSection, RulesAreLeaves DEF FlagRule
    <2>3. Proper(FlagRule) /\ FlagRule.type = "bool"
      BY OtherRuleIsProper DEF FlagRule, On
    <2> HIDE DEF dummy
    <2>4. CASE dummy = Empty
      BY <2>4, EmptyIs DEF Read
    <2>5. CASE k \in DOMAIN dummy /\ \E r : Scalar(r) /\ dummy[k] = Leaf(DummyRules[k], r)
      <3>1. dummy[k][2] \in BOOLEAN
        BY <2>1, <2>3, <2>5, LeafInRange
      <3> QED  BY <2>5, <3>1 DEF Read
    <2> QED  BY <2>2, <2>4, <2>5
  <1>8. ASSUME NEW key \in DOMAIN PluginRules, NEW rules, PluginRules[key] = Nest(rules)
        PROVE  LET section == Section(plugins, key)
               IN  \/ section = Empty
                   \/ \A k \in DOMAIN rules :
                        k \in DOMAIN section /\ \E r : Scalar(r) /\ section[k] = Leaf(rules[k], r)
    <2>1. \/ plugins = Empty
          \/ /\ key \in DOMAIN plugins
             /\ \E r : /\ Scalar(r) /\ Scalars(Content(r))
                       /\ plugins[key] = SectionValue(PluginRules[key], r)
      BY <1>1, SectionRead
    <2> HIDE DEF plugins
    <2>2. CASE plugins = Empty
      BY <2>2, EmptyIs DEF Section, Lookup
    <2>3. CASE /\ key \in DOMAIN plugins
               /\ \E r : /\ Scalar(r) /\ Scalars(Content(r))
                         /\ plugins[key] = SectionValue(PluginRules[key], r)
      <3>1. PICK r : Scalars(Content(r)) /\ plugins[key] = SectionValue(Nest(rules), r)
        BY <1>8, <2>3
      <3>2. Section(plugins, key) = Content(SectionValue(Nest(rules), r))
        BY <2>3, <3>1 DEF Section, Lookup
      <3> QED  BY <3>1, <3>2, LeafRead
    <2> QED  BY <2>1, <2>2, <2>3
  <1>9. Read(console, "maxItems", 200) \in 1 .. IntMax
    <2> DEFINE k == "maxItems"
    <2>1. /\ k \in DOMAIN ConsoleRules /\ ConsoleRules[k] = IntRule(200, 1, IntMax)
          /\ "alert_console" \in DOMAIN PluginRules /\ PluginRules["alert_console"] = Nest(ConsoleRules)
      BY DEF ConsoleRules, PluginRules
    <2>2. \/ console = Empty
          \/ k \in DOMAIN console /\ \E r : Scalar(r) /\ console[k] = Leaf(ConsoleRules[k], r)
      BY <1>8, <2>1
    <2> HIDE DEF console
    <2>3. LET rule == IntRule(200, 1, IntMax)
          IN  /\ Proper(rule) /\ rule.type = "int" /\ rule.lo = 1 /\ rule.hi = IntMax
              /\ 200 \in 1 .. IntMax
      BY <1>0, IntRuleIsProper, SMT
    <2> QED  BY <2>1, <2>2, <2>3, NumberRead
  <1>10. Read(map, "zoom", 15) \in 1 .. 20
    <2> DEFINE k == "zoom"
    <2>1. /\ k \in DOMAIN MapRules /\ MapRules[k] = IntRule(15, 1, 20)
          /\ "map_view" \in DOMAIN PluginRules /\ PluginRules["map_view"] = Nest(MapRules)
      BY DEF MapRules, PluginRules
    <2>2. \/ map = Empty
          \/ k \in DOMAIN map /\ \E r : Scalar(r) /\ map[k] = Leaf(MapRules[k], r)
      BY <1>8, <2>1
    <2> HIDE DEF map
    <2>3. LET rule == IntRule(15, 1, 20)
          IN  /\ Proper(rule) /\ rule.type = "int" /\ rule.lo = 1 /\ rule.hi = 20
              /\ 15 \in 1 .. 20
      BY <1>0, IntRuleIsProper, SMT
    <2> QED  BY <2>1, <2>2, <2>3, NumberRead
  <1> HIDE DEF telemetry, logging, dummy, console, map
  <1>11. /\ Settings(config).heartbeatTimeoutMs = Read(telemetry, "heartbeatTimeoutMs", 3000)
         /\ Settings(config).minLevel = Read(logging, "minLevel", "debug")
         /\ Settings(config).maxSizeBytes = Read(logging, "maxSizeBytes", 10485760)
         /\ Settings(config).maxFiles = Read(logging, "maxFiles", 5)
         /\ Settings(config).dummyEnabled = Read(dummy, "enabled", FALSE)
         /\ Settings(config).intervalMs = Read(dummy, "intervalMs", 100)
    BY SMT DEF Settings, telemetry, logging, dummy
  <1>12. LET n == Read(console, "maxItems", 200)
         IN  Settings(config).maxItems = IF n < 1 THEN 1 ELSE n
    BY SMT DEF Settings, console
  <1>13. LET n == Read(map, "zoom", 15)
         IN  Settings(config).zoom = IF n > 19 THEN 19 ELSE IF n < 1 THEN 1 ELSE n
    BY SMT DEF Settings, map
  <1>14. Settings(config).maxItems \in 1 .. IntMax /\ Settings(config).zoom \in 1 .. 19
    BY <1>0, <1>9, <1>10, <1>12, <1>13, SMT
  <1> DEFINE s == Settings(config)
  <1> HIDE DEF config, s
  <1>15. s.heartbeatTimeoutMs \in 100 .. IntMax /\ s.maxSizeBytes \in 1024 .. IntMax
    BY <1>2, <1>3, <1>11, SMT DEF s
  <1>16. s.maxFiles \in 1 .. IntMax /\ s.intervalMs \in 10 .. IntMax
    BY <1>4, <1>5, <1>11, SMT DEF s
  <1>17. Word(s.minLevel) \in Levels /\ s.dummyEnabled \in BOOLEAN
    <2>1. s.minLevel = Read(logging, "minLevel", "debug")
      BY <1>11, SMT DEF s
    <2>2. s.dummyEnabled = Read(dummy, "enabled", FALSE)
      BY <1>11, SMT DEF s
    <2> QED  BY <1>6, <1>7, <2>1, <2>2, Zenon
  <1>18. s.maxItems \in 1 .. IntMax /\ s.zoom \in 1 .. 19
    BY <1>14, SMT DEF s
  <1>19. InRange(s)
    BY <1>15, <1>16, <1>17, <1>18, SMT DEF InRange
  <1> QED  BY <1>19, SMT DEF s, config
=============================================================================
