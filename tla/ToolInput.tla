------------------------------ MODULE ToolInput ------------------------------
(***************************************************************************)
(* How the input of a tool call becomes the parameters of a handler:       *)
(* json.Unmarshal into map[string]any and validateParams                   *)
(* (internal/tools/registry.go) over the schemas of customer.go.           *)
(*                                                                         *)
(* A JSON value is a record whose only field tells its kind:               *)
(*   [num |-> k], the number k/2; [str |-> s], [bool |-> b],               *)
(*   [arr |-> a sequence of values], [null |-> TRUE].                      *)
(* Numbers are float64: here floats have a mantissa of Precision bits (53  *)
(* in Go), int64 has IntBits bits.                                         *)
(***************************************************************************)
EXTENDS Integers, Sequences

CONSTANTS Precision, IntBits,
          MaxCatalogLimit      \* 20: the maximum of "limit", here and in the store

ASSUME ToolInputAssumption ==
    /\ Precision \in 2 .. IntBits - 1 /\ IntBits \in Nat
    /\ MaxCatalogLimit \in Nat \ {0}

-----------------------------------------------------------------------------
MinInt64 == -(2 ^ (IntBits - 1))
MaxInt64 == 2 ^ (IntBits - 1) - 1

\* The distance of the floats around k, a power of two.
Ulp(k) == CHOOSE u \in {2 ^ i : i \in 0 .. IntBits + 2} :
              /\ k <= 2 ^ Precision * u
              /\ u = 1 \/ k > 2 ^ (Precision - 1) * u

RoundHalfEven(k, u) ==
    LET q == k \div u
        r == k % u
    IN  IF 2 * r < u \/ (2 * r = u /\ q % 2 = 0) THEN q * u ELSE (q + 1) * u

\* The float nearest to the literal k.
Float(k) == IF k >= 0 THEN RoundHalfEven(k, Ulp(k)) ELSE -RoundHalfEven(-k, Ulp(-k))

Exact(k) == Float(k) = k

\* int64(f): the fraction is cut off; what does not fit is the largest int64
\* of its sign on machines that saturate (arm64) and the least int64 on others
\* (amd64).
Int64(f, saturates) ==
    LET n == IF f >= 0 THEN f \div 2 ELSE -((-f) \div 2)
    IN  CASE n \in MinInt64 .. MaxInt64 -> n
          [] n > MaxInt64               -> IF saturates THEN MaxInt64 ELSE MinInt64
          [] OTHER                      -> MinInt64

-----------------------------------------------------------------------------
Is(kind, value) == kind \in DOMAIN value

\* Mutant: a minimum itself is too small.
StrictBounds(prop, f) ==
    /\ "minimum" \in DOMAIN prop => f > 2 * prop.minimum
    /\ "maximum" \in DOMAIN prop => f <= 2 * prop.maximum

CheckNumericBounds(prop, f) ==
    /\ "minimum" \in DOMAIN prop => f >= 2 * prop.minimum
    /\ "maximum" \in DOMAIN prop => f <= 2 * prop.maximum

\* The declared type "" is none.
CheckType(prop, value, saturates) ==
    /\ ~Is("null", value)
    /\ CASE prop.type = "string" ->
              /\ Is("str", value)
              /\ "enum" \in DOMAIN prop => value.str \in prop.enum
         [] prop.type = "number" ->
              /\ Is("num", value)
              /\ CheckNumericBounds(prop, Float(value.num))
         [] prop.type = "integer" ->
              /\ Is("num", value)
              /\ LET f == Float(value.num)
                 IN  /\ f = Float(2 * Int64(f, saturates))
                     /\ CheckNumericBounds(prop, f)
         [] prop.type = "boolean" -> Is("bool", value)
         [] prop.type = "array" ->
              /\ Is("arr", value)
              /\ "items" \in DOMAIN prop /\ prop.items = "string" =>
                     \A i \in DOMAIN value.arr : Is("str", value.arr[i])
         [] OTHER -> prop.type \in {"", "object"}

\* Mutant: parameters that are absent are passed over.
PresentOnly(schema, params, saturates) ==
    /\ DOMAIN params \subseteq DOMAIN schema.properties
    /\ \A name \in DOMAIN params :
          CheckType(schema.properties[name], params[name], saturates)

ValidateParams(schema, params, saturates) ==
    /\ schema.required \subseteq DOMAIN params
    /\ DOMAIN params \subseteq DOMAIN schema.properties
    /\ \A name \in DOMAIN params :
          CheckType(schema.properties[name], params[name], saturates)

-----------------------------------------------------------------------------
CatalogKinds == {"all", "product", "service"}

IdSchema(name) ==
    [properties |-> [n \in {name} |-> [type |-> "integer", minimum |-> 1]],
     required   |-> {name}]

SearchSchema ==
    [properties |-> [query    |-> [type |-> "string"],
                     kind     |-> [type |-> "string", enum |-> CatalogKinds],
                     category |-> [type |-> "string"],
                     limit    |-> [type |-> "integer", minimum |-> 1,
                                   maximum |-> MaxCatalogLimit]],
     required   |-> {"query"}]

BothRoles == {"CUSTOMER", "EMPLOYEE"}

\* RegisterReadOnlyTools.
ReadOnlyTools ==
    [search_catalog    |-> [schema |-> SearchSchema, roles |-> BothRoles],
     get_product       |-> [schema |-> IdSchema("product_id"), roles |-> BothRoles],
     check_stock       |-> [schema |-> IdSchema("product_id"), roles |-> BothRoles],
     get_order_status  |-> [schema |-> IdSchema("order_id"), roles |-> BothRoles],
     get_business_rule |-> [schema |-> [properties |-> [key |-> [type |-> "string"]],
                                        required   |-> {"key"}],
                            roles  |-> BothRoles]]

-----------------------------------------------------------------------------
\* What the schemas say, of the numbers as they were written.
Conforms(schema, params) ==
    LET Fits(prop, value) ==
            CASE prop.type = "string"  ->
                   Is("str", value) /\ ("enum" \in DOMAIN prop => value.str \in prop.enum)
              [] prop.type \in {"integer", "number"} ->
                   /\ Is("num", value)
                   /\ prop.type = "integer" => value.num % 2 = 0
                   /\ "minimum" \in DOMAIN prop => 2 * prop.minimum <= value.num
                   /\ "maximum" \in DOMAIN prop => value.num <= 2 * prop.maximum
              [] prop.type = "boolean" -> Is("bool", value)
              [] prop.type = "array"   ->
                   Is("arr", value) /\ \A i \in DOMAIN value.arr : Is("str", value.arr[i])
              [] OTHER                 -> ~Is("null", value)
    IN  /\ schema.required \subseteq DOMAIN params
        /\ \A name \in DOMAIN params : /\ name \in DOMAIN schema.properties
                                       /\ Fits(schema.properties[name], params[name])

\* Every number of the input is a float64 as it stands and within int64.
AllExact(params) ==
    \A n \in DOMAIN params : Is("num", params[n]) =>
        /\ Exact(params[n].num)
        /\ params[n].num \in 2 * MinInt64 .. 2 * MaxInt64
==============================================================================
