----------------------------- MODULE ToolsProofs -----------------------------
(***************************************************************************)
(* Theorems about Tools, for every schema of the other tools, any tables,  *)
(* callers and calls, and whatever others write meanwhile.                 *)
(***************************************************************************)
EXTENDS Tools, WellFoundedInduction, FiniteSetTheorems, TLAPS

\* What is known of the call under way before its next statement.
CallIsAdmitted ==
    pc \in {"read", "items"} =>
        /\ call.tool \in DOMAIN ReadOnlyTools
        /\ call.tool \in DefsFor(call.env.role)

\* Between the two statements of getOrder its row is the caller's to see.
HeaderIsVisible ==
    pc = "items" =>
        /\ call.tool = "get_order_status"
        /\ header.company = call.env.company
        /\ call.env.role = "CUSTOMER" => header.customer = call.env.user

\* There is a result only at the end of a call, which is one of the callers'.
AnswerAtTheEnd ==
    /\ pc \in {"idle", "read", "items", "done"}
    /\ pc # "idle" => call.env \in Envs
    /\ pc # "done" => answer = NoAnswer

ToolsInv == /\ CallIsAdmitted
            /\ HeaderIsVisible
            /\ AnswerAtTheEnd
            /\ HandlersSeeWellShapedInput
            /\ OrdersStayPrivate
            /\ pc = "idle" => call = NoCall

-----------------------------------------------------------------------------
\* Results are told apart by their field.
LEMMA ResultKinds ==
    /\ DOMAIN NoAnswer = {"none"}
    /\ \A why : DOMAIN Refused(why) = {"error"} /\ Refused(why).error = why
    /\ \A data : DOMAIN Found(data) = {"found"} /\ Found(data).found = data
BY DEF NoAnswer, Refused, Found

\* A refusal is no result, and no panic if it does not say so.
LEMMA RefusalFacts ==
    ASSUME NEW why, why # "internal error", NEW a, a = Refused(why)
    PROVE  a # Refused("internal error") /\ "found" \notin DOMAIN a
BY DEF Refused

\* A result is no refusal, and holds what was found.
LEMMA ResultFacts ==
    ASSUME NEW data, NEW a, a = Found(data)
    PROVE  a # Refused("internal error") /\ "found" \in DOMAIN a /\ a.found = data
BY ResultKinds DEF Found

\* What getOrder shows is its row.
LEMMA OrderShown ==
    ASSUME NEW row, NEW items, NEW a, a = Found([order |-> row, items |-> items])
    PROVE  a.found.order = row
BY DEF Found

\* The names of the read-only tools, and which schema each has.
LEMMA ToolNames ==
    /\ DOMAIN ReadOnlyTools = {"search_catalog", "get_product", "check_stock",
                               "get_order_status", "get_business_rule"}
    /\ \A name \in DOMAIN ReadOnlyTools :
          /\ Registry[name] = ReadOnlyTools[name]
          /\ ReadOnlyTools[name].roles = BothRoles
BY DEF ReadOnlyTools, Registry

\* A parameter that a schema requires is there and has the type it declares.
LEMMA RequiredHasType ==
    ASSUME NEW schema, NEW params, NEW n \in schema.required,
           ValidateParams(schema, params, saturates)
    PROVE  /\ n \in DOMAIN params
           /\ schema.properties[n].type = "string" => Is("str", params[n])
           /\ schema.properties[n].type = "integer" => Is("num", params[n])
BY DEF ValidateParams, CheckType

\* After validation no handler of the read-only tools panics.
LEMMA AssertionsHold ==
    ASSUME NEW tool \in DOMAIN Registry, NEW params,
           ValidateParams(Registry[tool].schema, params, saturates)
    PROVE  AssertsHold(tool, params)
<1>1. CASE tool = "search_catalog"
    <2>1. /\ "query" \in Registry[tool].schema.required
          /\ Registry[tool].schema.properties["query"].type = "string"
          BY <1>1, ToolNames DEF ReadOnlyTools, SearchSchema
    <2> QED BY <1>1, <2>1, RequiredHasType DEF AssertsHold
<1>2. CASE tool = "get_business_rule"
    <2>1. /\ "key" \in Registry[tool].schema.required
          /\ Registry[tool].schema.properties["key"].type = "string"
          BY <1>2, ToolNames DEF ReadOnlyTools
    <2> QED BY <1>2, <2>1, RequiredHasType DEF AssertsHold
<1>3. CASE tool \in {"get_product", "check_stock"}
    <2>1. /\ "product_id" \in Registry[tool].schema.required
          /\ Registry[tool].schema.properties["product_id"].type = "integer"
          BY <1>3, ToolNames DEF ReadOnlyTools, IdSchema
    <2> QED BY <1>3, <2>1, RequiredHasType DEF AssertsHold
<1>4. CASE tool = "get_order_status"
    <2>1. /\ "order_id" \in Registry[tool].schema.required
          /\ Registry[tool].schema.properties["order_id"].type = "integer"
          BY <1>4, ToolNames DEF ReadOnlyTools, IdSchema
    <2> QED BY <1>4, <2>1, RequiredHasType DEF AssertsHold
<1> QED BY <1>1, <1>2, <1>3, <1>4 DEF AssertsHold

\* What the verdict may be, and what it is for an order.
LEMMA VerdictFacts ==
    ASSUME NEW env \in Envs, NEW tool, NEW input
    PROVE  LET verdict == Verdict(env, tool, input)
           IN  /\ verdict \in {"unknown tool", "not available", "not a JSON object", "invalid",
                               "empty", "none"}
               /\ verdict = "none" => tool \in DefsFor(env.role)
               /\ tool = "get_order_status" =>
                     verdict \in {"not a JSON object", "invalid", "none"}
<1>1. ASSUME tool \in DOMAIN Registry,
             ValidateParams(Registry[tool].schema, Parsed(input), saturates)
      PROVE  AssertsHold(tool, Parsed(input))
      BY <1>1, AssertionsHold
<1>2. "get_order_status" \in DefsFor(env.role)
      BY ToolNames, ToolsAssumption DEF DefsFor, Registry
<1>3. DefsFor(env.role) \subseteq DOMAIN Registry
      BY DEF DefsFor
<1>4. ~Blank("get_order_status", Parsed(input))
      BY DEF Blank
<1> QED BY <1>1, <1>2, <1>3, <1>4 DEF Verdict

-----------------------------------------------------------------------------
\* The invariant holds at first ...
LEMMA InitInv == ToolsInit => ToolsInv
BY ResultKinds DEF ToolsInit, ToolsInv, CallIsAdmitted, HeaderIsVisible, AnswerAtTheEnd,
       HandlersSeeWellShapedInput, OrdersStayPrivate, Ended, GotResult

\* The tools of one statement answer with a result, or that there is none.
LEMMA OnceAnswers ==
    ASSUME ReadOnce, CallIsAdmitted
    PROVE  answer' = Refused("not found") \/ \E data : answer' = Found(data)
<1>1. call.tool \in {"search_catalog", "get_product", "check_stock", "get_business_rule"}
      BY ToolNames DEF ReadOnce, CallIsAdmitted
<1>2. CASE call.tool = "search_catalog"
      BY <1>2 DEF ReadOnce, Ends, SearchCatalog
<1>3. CASE call.tool \in {"get_product", "check_stock"}
      BY <1>3 DEF ReadOnce, Ends, GetProduct
<1>4. CASE call.tool = "get_business_rule"
      BY <1>4 DEF ReadOnce, Ends, GetBusinessRule
<1> QED BY <1>1, <1>2, <1>3, <1>4

\* ... and over every step.
LEMMA StepInv == ToolsInv /\ [ToolsNext]_toolVars => ToolsInv'
<1> SUFFICES ASSUME ToolsInv, [ToolsNext]_toolVars PROVE ToolsInv'
    OBVIOUS
<1> USE DEF ToolsInv
<1>1. ASSUME NEW env \in Envs, NEW c \in Calls, Execute(env, c[1], c[2])
      PROVE  ToolsInv'
    <2> DEFINE verdict == Verdict(env, c[1], c[2])
    <2>1. /\ call'.tool = c[1] /\ call'.env = env
          /\ answer = NoAnswer /\ pc = "idle"
          BY <1>1 DEF Execute, AnswerAtTheEnd
    <2>2. /\ verdict \in {"unknown tool", "not available", "not a JSON object", "invalid",
                          "empty", "none"}
          /\ verdict = "none" => c[1] \in DefsFor(env.role)
          /\ c[1] = "get_order_status" => verdict \in {"not a JSON object", "invalid", "none"}
          BY VerdictFacts
    <2>3. CASE verdict = "none" /\ c[1] \in DOMAIN ReadOnlyTools
        <3>1. pc' = "read" /\ answer' = NoAnswer
              BY <1>1, <2>1, <2>3 DEF Execute
        <3> QED BY <2>1, <2>2, <2>3, <3>1, ResultKinds
                DEF CallIsAdmitted, HeaderIsVisible, AnswerAtTheEnd, Ended, GotResult,
                    HandlersSeeWellShapedInput, OrdersStayPrivate
    <2>4. CASE verdict = "none" /\ c[1] \notin DOMAIN ReadOnlyTools
        <3>1. pc' = "done" /\ answer' = Found("done")
              BY <1>1, <2>4 DEF Execute
        <3>2. c[1] # "get_order_status"
              BY <2>4, ToolNames
        <3>3. answer' # Refused("internal error") /\ "found" \in DOMAIN answer'
              BY <3>1, ResultFacts
        <3> QED BY <2>1, <2>2, <2>4, <3>1, <3>2, <3>3
                DEF CallIsAdmitted, HeaderIsVisible, AnswerAtTheEnd, Ended, GotResult,
                    HandlersSeeWellShapedInput, OrdersStayPrivate
    <2>5. CASE verdict # "none"
        <3>1. pc' = "done" /\ answer' = Refused(verdict)
              BY <1>1, <2>5 DEF Execute
        <3>2. answer' # Refused("internal error") /\ "found" \notin DOMAIN answer'
              BY <2>2, <3>1, RefusalFacts
        <3> QED BY <2>1, <2>2, <2>5, <3>1, <3>2
                DEF CallIsAdmitted, HeaderIsVisible, AnswerAtTheEnd, Ended, GotResult,
                    HandlersSeeWellShapedInput, OrdersStayPrivate
    <2> QED BY <2>3, <2>4, <2>5
<1>2. CASE StatementFails
    <2>1. /\ pc' = "done" /\ answer' = Refused("failed") /\ UNCHANGED call
          /\ pc # "idle"
          BY <1>2 DEF StatementFails, Ends
    <2>2. answer' # Refused("internal error") /\ "found" \notin DOMAIN answer'
          BY <2>1, RefusalFacts
    <2> QED BY <2>1, <2>2 DEF CallIsAdmitted, HeaderIsVisible, AnswerAtTheEnd, Ended, GotResult,
                    HandlersSeeWellShapedInput, OrdersStayPrivate
<1>3. CASE ReadOnce
    <2>1. /\ pc' = "done" /\ UNCHANGED call /\ pc = "read"
          /\ call.tool # "get_order_status"
          BY <1>3 DEF ReadOnce, Ends
    <2>2. answer' # Refused("internal error") /\ (\/ answer' = Refused("not found")
                                                   \/ "found" \in DOMAIN answer')
          BY <1>3, OnceAnswers, RefusalFacts, ResultFacts
    <2> QED BY <2>1, <2>2 DEF CallIsAdmitted, HeaderIsVisible, AnswerAtTheEnd, Ended, GotResult,
                    HandlersSeeWellShapedInput, OrdersStayPrivate
<1>4. CASE ReadOrder
    <2> DEFINE id == IntegerParam("order_id")
    <2>1. pc = "read" /\ call.tool = "get_order_status" /\ UNCHANGED call
          BY <1>4 DEF ReadOrder
    <2>2. CASE id \in DOMAIN Now.orders /\ Visible(Now, id)
        <3>1. header' = Now.orders[id] /\ pc' = "items" /\ answer' = answer
              BY <1>4, <2>2 DEF ReadOrder
        <3>2. /\ header'.company = call.env.company
              /\ call.env.role = "CUSTOMER" => header'.customer = call.env.user
              BY <2>2, <3>1 DEF Visible
        <3> QED BY <2>1, <3>1, <3>2, ResultKinds
                DEF CallIsAdmitted, HeaderIsVisible, AnswerAtTheEnd, Ended, GotResult,
                    HandlersSeeWellShapedInput, OrdersStayPrivate
    <2>3. CASE ~(id \in DOMAIN Now.orders /\ Visible(Now, id))
        <3>1. pc' = "done" /\ answer' = Refused("not found")
              BY <1>4, <2>3 DEF ReadOrder, Ends
        <3>2. answer' # Refused("internal error") /\ "found" \notin DOMAIN answer'
              BY <3>1, RefusalFacts
        <3> QED BY <2>1, <3>1, <3>2
                DEF CallIsAdmitted, HeaderIsVisible, AnswerAtTheEnd, Ended, GotResult,
                    HandlersSeeWellShapedInput, OrdersStayPrivate
    <2> QED BY <2>2, <2>3
<1>5. CASE ReadItems
    <2>1. PICK items : /\ pc' = "done" /\ UNCHANGED call /\ pc = "items"
                       /\ answer' = Found([order |-> header, items |-> items])
          BY <1>5 DEF ReadItems, Ends
    <2>2. answer' # Refused("internal error") /\ "found" \in DOMAIN answer'
          BY <2>1, ResultFacts
    <2>3. answer'.found.order = header
          BY <2>1, OrderShown
    <2> QED BY <2>1, <2>2, <2>3 DEF CallIsAdmitted, HeaderIsVisible, AnswerAtTheEnd, Ended, GotResult,
                    HandlersSeeWellShapedInput, OrdersStayPrivate
<1>6. CASE Taken
    <2>1. pc' = "idle" /\ call' = NoCall /\ answer' = NoAnswer
          BY <1>6 DEF Taken
    <2>2. answer' # Refused("internal error") /\ "found" \notin DOMAIN answer'
          BY <2>1, ResultKinds
    <2> QED BY <2>1, <2>2
      DEF CallIsAdmitted, HeaderIsVisible, AnswerAtTheEnd, Ended, GotResult,
          HandlersSeeWellShapedInput, OrdersStayPrivate
<1>7. CASE UNCHANGED <<pc, call, header, answer>>
      BY <1>7 DEF CallIsAdmitted, HeaderIsVisible, AnswerAtTheEnd, Ended, GotResult,
          HandlersSeeWellShapedInput, OrdersStayPrivate
<1> QED BY <1>1, <1>2, <1>3, <1>4, <1>5, <1>6, <1>7 DEF ToolsNext, Write, toolVars

\* So it always does.
LEMMA ToolsInvariant == ToolsSpec => []ToolsInv
BY InitInv, StepInv, PTL DEF ToolsSpec

-----------------------------------------------------------------------------
\* validateParams is enough: with any further tools, any input and any tables,
\* no type assertion of a handler panics, and a handler runs only for a role
\* that was offered its tool.
THEOREM WellShapedTheorem == ToolsSpec => []HandlersSeeWellShapedInput
<1>1. ToolsInv => HandlersSeeWellShapedInput
      BY DEF ToolsInv
<1> QED BY <1>1, ToolsInvariant, PTL

\* No caller is ever shown an order of another company, and no customer one of
\* another customer, whoever changes the orders between the two statements.
THEOREM OrdersStayPrivateTheorem == ToolsSpec => []OrdersStayPrivate
<1>1. ToolsInv => OrdersStayPrivate
      BY DEF ToolsInv
<1> QED BY <1>1, ToolsInvariant, PTL

-----------------------------------------------------------------------------
\* The floats of ToolInput.  The provers know no law of powers: this one is the
\* hypothesis of every lemma that needs it.
PowersDouble == \A n \in Nat : 2 ^ n \in Nat /\ 2 ^ (n + 1) = 2 * 2 ^ n

\* The end of the range Float is defined on.
Largest == 2 ^ Precision * 2 ^ (IntBits + 2)

\* A set of naturals has a least member.
LEMMA LeastNat ==
    ASSUME NEW S, S \subseteq Nat, S # {}
    PROVE  \E m \in S : \A k \in S : m <= k
<1> DEFINE R == OpToRel(<, Nat)
<1>1. \A a, b \in Nat : a < b => <<a, b>> \in R
      BY DEF OpToRel
<1>2. IsWellFoundedOn(R, Nat)
      BY NatLessThanWellFounded
<1> HIDE DEF R
<1>3. PICK x \in S : \A y \in S : ~(<<y, x>> \in R)
      BY <1>2, WFMin
<1>4. \A k \in S : ~(k < x)
      BY <1>1, <1>3
<1> QED BY <1>4

\* A power of two is positive, and but for the first one even.
LEMMA PowerIs ==
    ASSUME PowersDouble
    PROVE  \A n \in Nat : /\ 2 ^ n \in Nat \ {0}
                          /\ n = 0 => 2 ^ n = 1
                          /\ n > 0 => n - 1 \in Nat /\ 2 ^ n = 2 * 2 ^ (n - 1)
<1>1. \A n \in Nat : n > 0 => n - 1 \in Nat /\ 2 ^ n = 2 * 2 ^ (n - 1)
    <2> SUFFICES ASSUME NEW n \in Nat, n > 0 PROVE n - 1 \in Nat /\ 2 ^ n = 2 * 2 ^ (n - 1)
        OBVIOUS
    <2>1. PICK m \in Nat : m = n - 1 /\ n = m + 1
          OBVIOUS
    <2> QED BY <2>1 DEF PowersDouble
<1>2. 2 ^ 0 = 1
      OBVIOUS
<1>3. \A n \in Nat : n = 0 => 2 ^ n = 1
      BY <1>2, Zenon
<1> DEFINE Bad == {n \in Nat : 2 ^ n = 0}
<1>4. ASSUME Bad # {} PROVE FALSE
    <2>1. PICK m \in Bad : \A k \in Bad : m <= k
          BY <1>4, LeastNat
    <2>2. m \in Nat /\ 2 ^ m = 0
          OBVIOUS
    <2>3. m # 0
          BY <2>2, <1>3
    <2>4. m - 1 \in Nat /\ 2 ^ m = 2 * 2 ^ (m - 1) /\ 2 ^ (m - 1) \in Nat
          BY <1>1, <2>2, <2>3 DEF PowersDouble
    <2>5. 2 ^ (m - 1) = 0
          BY <2>2, <2>4
    <2>6. m - 1 \in Bad
          BY <2>4, <2>5
    <2> QED BY <2>1, <2>2, <2>6
<1>5. \A n \in Nat : 2 ^ n \in Nat \ {0}
      BY <1>4 DEF PowersDouble
<1> QED BY <1>1, <1>3, <1>5

\* Products of naturals, for the steps that need no more.
LEMMA ProductFacts ==
    \A a, b \in Nat : /\ a * b \in Nat
                      /\ b >= 1 => a * b >= a /\ b * a >= a
                      /\ a * (2 * b) = 2 * (a * b)
OBVIOUS

\* The parameters of the floats.
LEMMA FloatParameters ==
    ASSUME PowersDouble
    PROVE  /\ Precision \in Nat /\ IntBits \in Nat /\ Precision - 1 \in Nat /\ IntBits - 1 \in Nat
           /\ 2 ^ Precision \in Nat \ {0}
           /\ 2 ^ Precision = 2 * 2 ^ (Precision - 1) /\ 2 ^ (Precision - 1) \in Nat \ {0}
           /\ 2 ^ IntBits = 2 * 2 ^ (IntBits - 1) /\ 2 ^ (IntBits - 1) \in Nat \ {0}
           /\ MinInt64 \in Int /\ MaxInt64 \in Nat /\ MinInt64 < 0
           /\ 2 * MaxInt64 = 2 ^ IntBits - 2 /\ 2 * MinInt64 = -(2 ^ IntBits)
           /\ 2 ^ IntBits \in Nat
           /\ Largest \in Nat /\ 2 ^ IntBits <= Largest /\ 2 ^ Precision <= Largest
<1>1. /\ Precision \in Nat /\ IntBits \in Nat /\ Precision - 1 \in Nat /\ IntBits - 1 \in Nat
      /\ Precision > 0 /\ IntBits > 0
      BY ToolInputAssumption
<1>2. /\ 2 ^ Precision \in Nat \ {0}
      /\ 2 ^ Precision = 2 * 2 ^ (Precision - 1) /\ 2 ^ (Precision - 1) \in Nat \ {0}
      BY <1>1, PowerIs
<1>3. /\ 2 ^ IntBits \in Nat
      /\ 2 ^ IntBits = 2 * 2 ^ (IntBits - 1) /\ 2 ^ (IntBits - 1) \in Nat \ {0}
      BY <1>1, PowerIs
<1>4. /\ MinInt64 \in Int /\ MaxInt64 \in Nat /\ MinInt64 < 0
      /\ 2 * MaxInt64 = 2 ^ IntBits - 2 /\ 2 * MinInt64 = -(2 ^ IntBits)
      BY <1>3 DEF MinInt64, MaxInt64
<1>5. 2 ^ (IntBits + 2) = 2 * (2 * 2 ^ IntBits)
    <2>1. 2 ^ (IntBits + 1) = 2 * 2 ^ IntBits
          BY <1>1 DEF PowersDouble
    <2>2. 2 ^ ((IntBits + 1) + 1) = 2 * 2 ^ (IntBits + 1)
          BY <1>1 DEF PowersDouble
    <2>3. (IntBits + 1) + 1 = IntBits + 2
          BY <1>1
    <2> QED BY <2>1, <2>2, <2>3
<1>6. 2 ^ (IntBits + 2) \in Nat /\ 2 ^ (IntBits + 2) >= 2 ^ IntBits /\ 2 ^ (IntBits + 2) >= 1
      BY <1>3, <1>5
<1> DEFINE a == 2 ^ Precision
           b == 2 ^ (IntBits + 2)
           c == 2 ^ IntBits
<1>7. a \in Nat /\ a >= 1 /\ b \in Nat /\ b >= 1 /\ c \in Nat /\ b >= c
      BY <1>2, <1>3, <1>6
<1>8. Largest = a * b
      BY DEF Largest
<1> HIDE DEF a, b, c
<1>9. Largest \in Nat /\ c <= Largest /\ a <= Largest
    <2>1. a * b \in Nat /\ a * b >= b /\ a * b >= a
          BY <1>7, ProductFacts
    <2> QED BY <1>7, <1>8, <2>1
<1> USE DEF a, c
<1> QED BY <1>1, <1>2, <1>3, <1>4, <1>9

\* The distance of the floats around k is a power of two that leaves k a
\* mantissa of Precision bits.
LEMMA UlpIs ==
    ASSUME PowersDouble, NEW k \in Nat, k <= Largest
    PROVE  /\ \E i \in Nat : Ulp(k) = 2 ^ i
           /\ k <= 2 ^ Precision * Ulp(k)
           /\ Ulp(k) = 1 \/ k > 2 ^ (Precision - 1) * Ulp(k)
<1> DEFINE Fits(i) == k <= 2 ^ Precision * 2 ^ i
           Good(u) == /\ k <= 2 ^ Precision * u
                      /\ u = 1 \/ k > 2 ^ (Precision - 1) * u
           S == {i \in Nat : Fits(i)}
<1>1. IntBits + 2 \in S
      BY FloatParameters DEF Largest
<1>2. PICK m \in S : \A i \in S : m <= i
      BY <1>1, LeastNat
<1>3. m \in Nat /\ m <= IntBits + 2 /\ Fits(m)
      BY <1>1, <1>2
<1>4. m \in 0 .. IntBits + 2
      BY <1>3, FloatParameters
<1>5. Good(2 ^ m)
    <2>1. CASE m = 0
        <3>1. 2 ^ m = 1
              BY <1>3, <2>1, PowerIs
        <3> QED BY <1>3, <3>1
    <2>2. CASE m # 0
        <3>1. m - 1 \in Nat /\ 2 ^ m = 2 * 2 ^ (m - 1) /\ 2 ^ (m - 1) \in Nat
              BY <1>3, <2>2, PowerIs
        <3>2. m - 1 \notin S
              BY <1>2, <1>3, <3>1
        <3>3. ~Fits(m - 1)
              BY <3>1, <3>2
        <3> DEFINE p == 2 ^ (Precision - 1)
                   q == 2 ^ (m - 1)
        <3>4. p \in Nat /\ q \in Nat /\ 2 ^ Precision = 2 * p /\ 2 ^ m = 2 * q
              BY <3>1, FloatParameters
        <3>5. ~(k <= (2 * p) * q)
              BY <3>3, <3>4
        <3> HIDE DEF p, q
        <3>6. (2 * p) * q = p * (2 * q) /\ (2 * p) * q \in Nat
              BY <3>4
        <3>7. k > p * (2 * q)
              BY <3>5, <3>6
        <3>8. k > p * 2 ^ m
              BY <3>4, <3>7
        <3> USE DEF p
        <3> QED BY <1>3, <3>8
    <2> QED BY <2>1, <2>2
<1> DEFINE U == {2 ^ i : i \in 0 .. IntBits + 2}
<1>6. 2 ^ m \in U
      BY <1>4
<1>7. Ulp(k) = CHOOSE u \in U : Good(u)
      BY DEF Ulp
<1> HIDE DEF Good, U
<1>8. Ulp(k) \in U /\ Good(Ulp(k))
      BY <1>5, <1>6, <1>7
<1> USE DEF Good, U
<1>9. \E i \in 0 .. IntBits + 2 : Ulp(k) = 2 ^ i
      BY <1>8
<1> QED BY <1>8, <1>9, FloatParameters

\* The integers of Precision bits are a distance of one apart.
LEMMA SmallUlp ==
    ASSUME PowersDouble, NEW k \in Nat, k <= 2 ^ Precision
    PROVE  Ulp(k) = 1
<1>1. k <= Largest
      BY FloatParameters
<1>2. PICK i \in Nat : Ulp(k) = 2 ^ i
      BY <1>1, UlpIs
<1>3. CASE i = 0
      BY <1>2, <1>3, PowerIs
<1>4. CASE i # 0
    <2> DEFINE p == 2 ^ (Precision - 1)
               q == 2 ^ (i - 1)
    <2>1. p \in Nat /\ q \in Nat /\ q >= 1 /\ 2 ^ Precision = 2 * p /\ Ulp(k) = 2 * q
          BY <1>2, <1>4, PowerIs, FloatParameters
    <2>2. Ulp(k) = 1 \/ k > p * (2 * q)
          BY <1>1, <2>1, UlpIs
    <2> HIDE DEF p, q
    <2>3. p * (2 * q) = 2 * (p * q) /\ p * q >= p /\ p * q \in Nat
          BY <2>1, ProductFacts
    <2> QED BY <2>1, <2>2, <2>3
<1> QED BY <1>3, <1>4

\* Rounding goes to a multiple of the distance.
LEMMA RoundIs ==
    ASSUME NEW k \in Nat, NEW u \in Nat \ {0}
    PROVE  \E q \in Nat : RoundHalfEven(k, u) = q * u
<1>1. k \div u \in Nat
      OBVIOUS
<1>2. k \div u + 1 \in Nat
      BY <1>1
<1>3. RoundHalfEven(k, u) = (k \div u) * u \/ RoundHalfEven(k, u) = (k \div u + 1) * u
      BY DEF RoundHalfEven
<1> QED BY <1>1, <1>2, <1>3

\* Within the range a float is an integer here, of the sign of its number.
LEMMA FloatIs ==
    ASSUME PowersDouble, NEW n \in Int, -Largest <= n, n <= Largest
    PROVE  Float(n) \in Int /\ (n >= 0 => Float(n) >= 0) /\ (n < 0 => Float(n) <= 0)
<1>1. ASSUME NEW k \in Nat, k <= Largest PROVE RoundHalfEven(k, Ulp(k)) \in Nat
    <2>1. PICK i \in Nat : Ulp(k) = 2 ^ i
          BY <1>1, UlpIs
    <2>2. Ulp(k) \in Nat \ {0}
          BY <2>1, PowerIs
    <2>3. PICK q \in Nat : RoundHalfEven(k, Ulp(k)) = q * Ulp(k)
          BY <2>2, RoundIs
    <2> QED BY <2>2, <2>3, ProductFacts
<1>2. CASE n >= 0
      BY <1>1, <1>2 DEF Float
<1>3. CASE n < 0
    <2>1. -n \in Nat /\ -n <= Largest
          BY <1>3, FloatParameters
    <2>2. RoundHalfEven(-n, Ulp(-n)) \in Nat
          BY <1>1, <2>1
    <2>3. Float(n) = -RoundHalfEven(-n, Ulp(-n))
          BY <1>3 DEF Float
    <2> QED BY <1>3, <2>2, <2>3
<1> QED BY <1>2, <1>3

\* The integers of Precision bits are floats.
LEMMA SmallExact ==
    ASSUME PowersDouble, NEW n \in Int, -(2 ^ Precision) <= n, n <= 2 ^ Precision
    PROVE  Float(n) = n
<1>1. ASSUME NEW k \in Nat, k <= 2 ^ Precision PROVE RoundHalfEven(k, Ulp(k)) = k
    <2>1. Ulp(k) = 1
          BY <1>1, SmallUlp
    <2>2. k \div 1 = k /\ k % 1 = 0
          OBVIOUS
    <2> QED BY <2>1, <2>2 DEF RoundHalfEven
<1>2. CASE n >= 0
      BY <1>1, <1>2 DEF Float
<1>3. CASE n < 0
    <2>1. -n \in Nat /\ -n <= 2 ^ Precision
          BY <1>3, FloatParameters
    <2>2. RoundHalfEven(-n, Ulp(-n)) = -n
          BY <1>1, <2>1
    <2>3. Float(n) = -RoundHalfEven(-n, Ulp(-n))
          BY <1>3 DEF Float
    <2> QED BY <2>2, <2>3
<1> QED BY <1>2, <1>3

\* A float that is odd, a half in the model's unit, has few bits: it is not one
\* of those where the distance is two or more.
LEMMA OddIsSmall ==
    ASSUME PowersDouble, NEW k \in Nat, k <= Largest, k % 2 = 1,
           RoundHalfEven(k, Ulp(k)) = k
    PROVE  k <= 2 ^ Precision
<1>1. PICK i \in Nat : Ulp(k) = 2 ^ i
      BY UlpIs
<1>2. CASE i = 0
    <2>1. Ulp(k) = 1
          BY <1>1, <1>2, PowerIs
    <2>2. k <= 2 ^ Precision * 1
          BY <2>1, UlpIs
    <2> QED BY <2>2, FloatParameters
<1>3. CASE i # 0
    <2>1. PICK h \in Nat : Ulp(k) = 2 * h
          BY <1>1, <1>3, PowerIs
    <2>2. Ulp(k) \in Nat \ {0}
          BY <1>1, PowerIs
    <2>3. PICK q \in Nat : k = q * Ulp(k)
          BY <2>2, RoundIs
    <2>4. k = 2 * (q * h) /\ q * h \in Nat
          BY <2>1, <2>3, ProductFacts
    <2>5. \A v \in Nat : (2 * v) % 2 = 0
          OBVIOUS
    <2> QED BY <2>4, <2>5
<1> QED BY <1>2, <1>3

\* The fraction of a float is cut off.
Whole(f) == IF f >= 0 THEN f \div 2 ELSE -((-f) \div 2)

\* What fits into an int64 is converted as it is ...
LEMMA Int64Fits ==
    ASSUME PowersDouble, NEW f, NEW saturated, Whole(f) \in MinInt64 .. MaxInt64
    PROVE  Int64(f, saturated) = Whole(f)
<1>1. ~(Whole(f) > MaxInt64)
      BY FloatParameters
<1> QED BY <1>1, Zenon DEF Int64, Whole

\* ... and what does not becomes one of the two ends.
LEMMA Int64Ends ==
    ASSUME NEW f, NEW saturated, Whole(f) \notin MinInt64 .. MaxInt64
    PROVE  Int64(f, saturated) \in {MinInt64, MaxInt64}
<1>1. CASE Whole(f) > MaxInt64
      BY <1>1, Zenon DEF Int64, Whole
<1>2. CASE ~(Whole(f) > MaxInt64)
      BY <1>2, Zenon DEF Int64, Whole
<1> QED BY <1>1, <1>2

\* An integer passes the test for integers, and what is a float as it stands
\* and passes it is an integer.
LEMMA IntegerTest ==
    ASSUME PowersDouble, NEW n \in 2 * MinInt64 .. 2 * MaxInt64, Exact(n), NEW saturated
    PROVE  /\ Float(n) = Float(2 * Int64(Float(n), saturated)) <=> n % 2 = 0
           /\ n % 2 = 0 => 2 * Int64(Float(n), saturated) = n
<1>1. /\ n \in Int /\ Float(n) = n
      /\ MinInt64 \in Int /\ MaxInt64 \in Int /\ Largest \in Nat
      /\ -Largest <= n /\ n <= Largest
      BY FloatParameters DEF Exact
<1> DEFINE w == Whole(n)
<1>2. /\ w \in Int /\ w \in MinInt64 .. MaxInt64
      /\ n % 2 = 0 => 2 * w = n
      /\ n % 2 # 0 => /\ n >= 0 => 2 * w = n - 1 /\ n % 2 = 1
                      /\ n < 0 => 2 * w = n + 1 /\ (-n) % 2 = 1
      BY <1>1 DEF Whole
<1>3. Int64(Float(n), saturated) = w
      BY <1>1, <1>2, Int64Fits
<1> HIDE DEF w
<1>4. CASE n % 2 = 0
      BY <1>1, <1>2, <1>3, <1>4
<1>5. CASE n % 2 # 0
    <2>1. CASE n >= 0
        <3>1. RoundHalfEven(n, Ulp(n)) = n
              BY <1>1, <2>1 DEF Float
        <3>2. n <= 2 ^ Precision /\ n >= 1
              BY <1>1, <1>2, <1>5, <2>1, <3>1, OddIsSmall
        <3>3. n - 1 \in Int /\ -(2 ^ Precision) <= n - 1 /\ n - 1 <= 2 ^ Precision
              BY <1>1, <3>2, FloatParameters
        <3>4. Float(n - 1) = n - 1
              BY <3>3, SmallExact
        <3> QED BY <1>1, <1>2, <1>3, <1>5, <2>1, <3>4
    <2>2. CASE n < 0
        <3>1. -n \in Nat /\ -n <= Largest /\ (-n) % 2 = 1
              BY <1>1, <1>2, <1>5, <2>2
        <3>2. RoundHalfEven(-n, Ulp(-n)) \in Int
            <4>1. PICK i \in Nat : Ulp(-n) = 2 ^ i
                  BY <3>1, UlpIs
            <4>2. Ulp(-n) \in Nat \ {0}
                  BY <4>1, PowerIs
            <4>3. PICK q \in Nat : RoundHalfEven(-n, Ulp(-n)) = q * Ulp(-n)
                  BY <3>1, <4>2, RoundIs
            <4> QED BY <4>2, <4>3, ProductFacts
        <3>3. RoundHalfEven(-n, Ulp(-n)) = -n
            <4>1. Float(n) = -RoundHalfEven(-n, Ulp(-n))
                  BY <1>1, <2>2 DEF Float
            <4> QED BY <1>1, <3>2, <4>1
        <3>4. -n <= 2 ^ Precision
              BY <3>1, <3>3, OddIsSmall
        <3>5. n + 1 \in Int /\ -(2 ^ Precision) <= n + 1 /\ n + 1 <= 2 ^ Precision
              BY <1>1, <2>2, <3>4, FloatParameters
        <3>6. Float(n + 1) = n + 1
              BY <3>5, SmallExact
        <3> QED BY <1>1, <1>2, <1>3, <1>5, <2>2, <3>6
    <2> QED BY <1>1, <2>1, <2>2
<1> QED BY <1>4, <1>5

\* A number that passes the test for integers and is at least one is an id,
\* even where it is no float as it stands or no int64.
LEMMA IdIsPositive ==
    ASSUME PowersDouble, NEW n \in Int, -Largest <= n, n <= Largest, NEW saturated,
           Float(n) = Float(2 * Int64(Float(n), saturated)),
           Float(n) >= 2
    PROVE  Int64(Float(n), saturated) \in 1 .. MaxInt64
<1>1. Float(n) \in Int
      BY FloatIs
<1>2. PICK f \in Int : f = Float(n) /\ f >= 2
      BY <1>1
<1>3. Whole(f) \in Int /\ Whole(f) >= 1
      BY <1>2 DEF Whole
<1>4. CASE Whole(f) \in MinInt64 .. MaxInt64
      BY <1>2, <1>3, <1>4, Int64Fits, FloatParameters
<1>5. CASE Whole(f) \notin MinInt64 .. MaxInt64
    <2>1. MaxInt64 \in 1 .. MaxInt64
        <3>1. IntBits - 1 \in Nat /\ IntBits - 1 > 0
              BY ToolInputAssumption
        <3>2. 2 ^ (IntBits - 1) \in Nat \ {0} /\ \E p \in Nat : 2 ^ (IntBits - 1) = 2 * p
              BY <3>1, PowerIs
        <3> QED BY <3>2 DEF MaxInt64
    <2>2. Float(2 * MinInt64) <= 0
          BY FloatParameters, FloatIs
    <2>3. Float(2 * MinInt64) # f
          BY <1>2, <2>2, FloatIs, FloatParameters
    <2> QED BY <1>2, <1>5, <2>1, <2>3, Int64Ends
<1> QED BY <1>4, <1>5

-----------------------------------------------------------------------------
\* What validateParams lets through, against what the schemas say.

\* A JSON value as ToolInput has it, whose numbers Float is defined on.
IsValue(v) ==
    /\ \E kind \in {"num", "str", "bool", "arr", "null"} : DOMAIN v = {kind}
    /\ Is("num", v) => v.num \in Int /\ -Largest <= v.num /\ v.num <= Largest

\* The inputs of the calls are JSON.
JsonInputs ==
    \A c \in Calls : \A n \in DOMAIN Parsed(c[2]) : IsValue(Parsed(c[2])[n])

\* A property as the schemas of this program declare them.
IsProperty(prop) ==
    /\ prop.type \in {"string", "number", "integer", "boolean", "array", "object", ""}
    /\ prop.type = "array" => "items" \in DOMAIN prop /\ prop.items = "string"

\* The tools registered besides the read-only ones declare what their
\* parameters are: a type that validateParams knows, and strings in arrays.
SchemasDeclare ==
    \A tool \in DOMAIN OtherTools :
        \A n \in DOMAIN OtherTools[tool].schema.properties :
            IsProperty(OtherTools[tool].schema.properties[n])

\* What Conforms asks of one value.
FitsSchema(prop, value) ==
    CASE prop.type = "string"  ->
           Is("str", value) /\ ("enum" \in DOMAIN prop => value.str \in prop.enum)
      [] prop.type \in {"integer", "number"} ->
           /\ Is("num", value)
           /\ prop.type = "integer" => value.num % 2 = 0
           /\ "minimum" \in DOMAIN prop => 2 * prop.minimum <= value.num
           /\ "maximum" \in DOMAIN prop => value.num <= 2 * prop.maximum
      [] prop.type = "boolean" -> Is("bool", value)
      [] prop.type = "array"   ->
           Is("arr", value) /\ \A i \in DOMAIN value.arr : Is("str", value.arr[i])
      [] OTHER                 -> ~Is("null", value)

\* Conforms, with its test of a value by name.
LEMMA ConformsIs ==
    ASSUME NEW schema, NEW params
    PROVE  Conforms(schema, params) <=>
              /\ schema.required \subseteq DOMAIN params
              /\ \A n \in DOMAIN params : /\ n \in DOMAIN schema.properties
                                          /\ FitsSchema(schema.properties[n], params[n])
BY DEF Conforms, FitsSchema

\* What CheckType comes to for each type a schema may declare ...
LEMMA CheckTypeIs ==
    ASSUME NEW prop, NEW value, NEW saturated
    PROVE  /\ prop.type = "string" =>
                (CheckType(prop, value, saturated) <=>
                    /\ ~Is("null", value) /\ Is("str", value)
                    /\ "enum" \in DOMAIN prop => value.str \in prop.enum)
           /\ prop.type = "number" =>
                (CheckType(prop, value, saturated) <=>
                    /\ ~Is("null", value) /\ Is("num", value)
                    /\ CheckNumericBounds(prop, Float(value.num)))
           /\ prop.type = "integer" =>
                (CheckType(prop, value, saturated) <=>
                    /\ ~Is("null", value) /\ Is("num", value)
                    /\ Float(value.num) = Float(2 * Int64(Float(value.num), saturated))
                    /\ CheckNumericBounds(prop, Float(value.num)))
           /\ prop.type = "boolean" =>
                (CheckType(prop, value, saturated) <=>
                    ~Is("null", value) /\ Is("bool", value))
           /\ prop.type = "array" =>
                (CheckType(prop, value, saturated) <=>
                    /\ ~Is("null", value) /\ Is("arr", value)
                    /\ "items" \in DOMAIN prop /\ prop.items = "string" =>
                           \A i \in DOMAIN value.arr : Is("str", value.arr[i]))
           /\ prop.type \in {"", "object"} =>
                (CheckType(prop, value, saturated) <=> ~Is("null", value))
<1>1. ASSUME prop.type = "string"
      PROVE  CheckType(prop, value, saturated) <=>
                    /\ ~Is("null", value) /\ Is("str", value)
                    /\ "enum" \in DOMAIN prop => value.str \in prop.enum
      BY <1>1, Zenon DEF CheckType
<1>2. ASSUME prop.type = "number"
      PROVE  CheckType(prop, value, saturated) <=>
                    /\ ~Is("null", value) /\ Is("num", value)
                    /\ CheckNumericBounds(prop, Float(value.num))
      BY <1>2, Zenon DEF CheckType
<1>3. ASSUME prop.type = "integer"
      PROVE  CheckType(prop, value, saturated) <=>
                    /\ ~Is("null", value) /\ Is("num", value)
                    /\ Float(value.num) = Float(2 * Int64(Float(value.num), saturated))
                    /\ CheckNumericBounds(prop, Float(value.num))
      BY <1>3, Zenon DEF CheckType
<1>4. ASSUME prop.type = "boolean"
      PROVE  CheckType(prop, value, saturated) <=> ~Is("null", value) /\ Is("bool", value)
      BY <1>4, Zenon DEF CheckType
<1>5. ASSUME prop.type = "array"
      PROVE  CheckType(prop, value, saturated) <=>
                    /\ ~Is("null", value) /\ Is("arr", value)
                    /\ "items" \in DOMAIN prop /\ prop.items = "string" =>
                           \A i \in DOMAIN value.arr : Is("str", value.arr[i])
      BY <1>5, Zenon DEF CheckType
<1>6. ASSUME prop.type \in {"", "object"}
      PROVE  CheckType(prop, value, saturated) <=> ~Is("null", value)
      BY <1>6, Zenon DEF CheckType
<1> QED BY <1>1, <1>2, <1>3, <1>4, <1>5, <1>6

\* ... and what its schema says.
LEMMA FitsSchemaIs ==
    ASSUME NEW prop, NEW value
    PROVE  /\ prop.type = "string" =>
                (FitsSchema(prop, value) <=>
                    Is("str", value) /\ ("enum" \in DOMAIN prop => value.str \in prop.enum))
           /\ prop.type \in {"integer", "number"} =>
                (FitsSchema(prop, value) <=>
                    /\ Is("num", value)
                    /\ prop.type = "integer" => value.num % 2 = 0
                    /\ "minimum" \in DOMAIN prop => 2 * prop.minimum <= value.num
                    /\ "maximum" \in DOMAIN prop => value.num <= 2 * prop.maximum)
           /\ prop.type = "boolean" => (FitsSchema(prop, value) <=> Is("bool", value))
           /\ prop.type = "array" =>
                (FitsSchema(prop, value) <=>
                    Is("arr", value) /\ \A i \in DOMAIN value.arr : Is("str", value.arr[i]))
           /\ prop.type \in {"", "object"} => (FitsSchema(prop, value) <=> ~Is("null", value))
<1>1. ASSUME prop.type = "string"
      PROVE  FitsSchema(prop, value) <=>
                Is("str", value) /\ ("enum" \in DOMAIN prop => value.str \in prop.enum)
      BY <1>1, Zenon DEF FitsSchema
<1>2. ASSUME prop.type \in {"integer", "number"}
      PROVE  FitsSchema(prop, value) <=>
                    /\ Is("num", value)
                    /\ prop.type = "integer" => value.num % 2 = 0
                    /\ "minimum" \in DOMAIN prop => 2 * prop.minimum <= value.num
                    /\ "maximum" \in DOMAIN prop => value.num <= 2 * prop.maximum
      BY <1>2, Zenon DEF FitsSchema
<1>3. ASSUME prop.type = "boolean" PROVE FitsSchema(prop, value) <=> Is("bool", value)
      BY <1>3, Zenon DEF FitsSchema
<1>4. ASSUME prop.type = "array"
      PROVE  FitsSchema(prop, value) <=>
                Is("arr", value) /\ \A i \in DOMAIN value.arr : Is("str", value.arr[i])
      BY <1>4, Zenon DEF FitsSchema
<1>5. ASSUME prop.type \in {"", "object"} PROVE FitsSchema(prop, value) <=> ~Is("null", value)
      BY <1>5, Zenon DEF FitsSchema
<1> QED BY <1>1, <1>2, <1>3, <1>4, <1>5

\* A value whose number is a float as it stands passes the one test when it
\* passes the other.
LEMMA SameVerdict ==
    ASSUME PowersDouble, NEW prop, IsProperty(prop), NEW value, IsValue(value), NEW saturated,
           Is("num", value) => /\ Exact(value.num)
                               /\ value.num \in 2 * MinInt64 .. 2 * MaxInt64
    PROVE  CheckType(prop, value, saturated) <=> FitsSchema(prop, value)
<1>1. \A kind \in {"num", "str", "bool", "arr"} : Is(kind, value) => ~Is("null", value)
      BY DEF IsValue, Is
<1>2. CASE prop.type = "string"
      BY <1>1, <1>2, CheckTypeIs, FitsSchemaIs
<1>3. CASE prop.type \in {"integer", "number"}
    <2>1. CASE Is("num", value)
        <3>1. Float(value.num) = value.num
              BY <2>1 DEF Exact
        <3>2. /\ Float(value.num) = Float(2 * Int64(Float(value.num), saturated))
                  <=> value.num % 2 = 0
              BY <2>1, IntegerTest
        <3>3. CheckNumericBounds(prop, Float(value.num)) <=>
                 /\ "minimum" \in DOMAIN prop => 2 * prop.minimum <= value.num
                 /\ "maximum" \in DOMAIN prop => value.num <= 2 * prop.maximum
              BY <3>1 DEF CheckNumericBounds
        <3>4. ~Is("null", value)
              BY <1>1, <2>1
        <3>5. CASE prop.type = "integer"
              BY <2>1, <3>2, <3>3, <3>4, <3>5, CheckTypeIs, FitsSchemaIs
        <3>6. CASE prop.type = "number"
              BY <2>1, <3>3, <3>4, <3>6, CheckTypeIs, FitsSchemaIs
        <3> QED BY <1>3, <3>5, <3>6
    <2>2. CASE ~Is("num", value)
          BY <1>3, <2>2, CheckTypeIs, FitsSchemaIs
    <2> QED BY <2>1, <2>2
<1>4. CASE prop.type = "boolean"
      BY <1>1, <1>4, CheckTypeIs, FitsSchemaIs
<1>5. CASE prop.type = "array"
      BY <1>1, <1>5, CheckTypeIs, FitsSchemaIs DEF IsProperty
<1>6. CASE prop.type \in {"", "object"}
      BY <1>6, CheckTypeIs, FitsSchemaIs
<1> QED BY <1>2, <1>3, <1>4, <1>5, <1>6 DEF IsProperty

\* The types the schemas of customer.go declare.
LEMMA SchemaTypes ==
    /\ \A n \in DOMAIN SearchSchema.properties :
          SearchSchema.properties[n].type \in {"string", "integer"}
    /\ \A m : \A n \in DOMAIN IdSchema(m).properties :
          IdSchema(m).properties[n].type = "integer"
    /\ \A n \in DOMAIN ReadOnlyTools.get_business_rule.schema.properties :
          ReadOnlyTools.get_business_rule.schema.properties[n].type = "string"
<1>1. \A m : \A n \in DOMAIN IdSchema(m).properties :
          IdSchema(m).properties[n].type = "integer"
      BY DEF IdSchema
<1>2. \A n \in DOMAIN ReadOnlyTools.get_business_rule.schema.properties :
          ReadOnlyTools.get_business_rule.schema.properties[n].type = "string"
      BY DEF ReadOnlyTools
<1>3. /\ DOMAIN SearchSchema.properties = {"query", "kind", "category", "limit"}
      /\ SearchSchema.properties["query"].type = "string"
      /\ SearchSchema.properties["kind"].type = "string"
      /\ SearchSchema.properties["category"].type = "string"
      /\ SearchSchema.properties["limit"].type = "integer"
      BY DEF SearchSchema
<1> QED BY <1>1, <1>2, <1>3

\* The schemas of the registry declare what their parameters are.
LEMMA RegistryDeclares ==
    ASSUME SchemasDeclare, NEW tool \in DOMAIN Registry,
           NEW n \in DOMAIN Registry[tool].schema.properties
    PROVE  IsProperty(Registry[tool].schema.properties[n])
<1>1. CASE tool \in DOMAIN ReadOnlyTools
    <2>1. Registry[tool] = ReadOnlyTools[tool]
          BY <1>1, ToolNames
    <2>2. \A p : p.type \in {"string", "integer"} => IsProperty(p)
          BY DEF IsProperty
    <2>3. CASE tool = "search_catalog"
        <3>1. Registry[tool].schema = SearchSchema
              BY <2>1, <2>3 DEF ReadOnlyTools
        <3> QED BY <2>2, <3>1, SchemaTypes
    <2>4. CASE tool \in {"get_product", "check_stock"}
        <3>1. Registry[tool].schema = IdSchema("product_id")
              BY <2>1, <2>4 DEF ReadOnlyTools
        <3> QED BY <2>2, <3>1, SchemaTypes
    <2>5. CASE tool = "get_order_status"
        <3>1. Registry[tool].schema = IdSchema("order_id")
              BY <2>1, <2>5 DEF ReadOnlyTools
        <3> QED BY <2>2, <3>1, SchemaTypes
    <2>6. CASE tool = "get_business_rule"
        <3>1. Registry[tool].schema = ReadOnlyTools.get_business_rule.schema
              BY <2>1, <2>6
        <3> QED BY <2>2, <3>1, SchemaTypes
    <2> QED BY <1>1, <2>3, <2>4, <2>5, <2>6, ToolNames
<1>2. CASE tool \notin DOMAIN ReadOnlyTools
    <2>1. tool \in DOMAIN OtherTools /\ Registry[tool] = OtherTools[tool]
          BY <1>2 DEF Registry
    <2> QED BY <2>1 DEF SchemasDeclare
<1> QED BY <1>1, <1>2

\* Parameters without a number that is rounded are taken if and only if they
\* conform to the schema.
LEMMA ValidIsConforming ==
    ASSUME PowersDouble, SchemasDeclare, NEW tool \in DOMAIN Registry, NEW params,
           \A n \in DOMAIN params : IsValue(params[n]),
           AllExact(params), NEW saturated
    PROVE  ValidateParams(Registry[tool].schema, params, saturated)
              <=> Conforms(Registry[tool].schema, params)
<1> DEFINE schema == Registry[tool].schema
<1>1. ASSUME NEW n \in DOMAIN params, n \in DOMAIN schema.properties
      PROVE  CheckType(schema.properties[n], params[n], saturated)
                <=> FitsSchema(schema.properties[n], params[n])
    <2>1. IsProperty(schema.properties[n])
          BY <1>1, RegistryDeclares
    <2>2. IsValue(params[n])
          OBVIOUS
    <2>3. Is("num", params[n]) => /\ Exact(params[n].num)
                                  /\ params[n].num \in 2 * MinInt64 .. 2 * MaxInt64
          BY DEF AllExact
    <2> QED BY <2>1, <2>2, <2>3, SameVerdict
<1> HIDE DEF schema
<1>2. ValidateParams(schema, params, saturated) <=>
         /\ schema.required \subseteq DOMAIN params
         /\ DOMAIN params \subseteq DOMAIN schema.properties
         /\ \A n \in DOMAIN params : CheckType(schema.properties[n], params[n], saturated)
      BY DEF ValidateParams
<1>3. ValidateParams(schema, params, saturated) <=> Conforms(schema, params)
      BY <1>1, <1>2, ConformsIs
<1> QED BY <1>3 DEF schema

\* The ids the read-only tools are given are ids, rounded or not, and those
\* that are not rounded are the ones that were written.
LEMMA IdsAreIds ==
    ASSUME PowersDouble, NEW tool \in DOMAIN ReadOnlyTools, NEW params,
           \A n \in DOMAIN params : IsValue(params[n]), NEW saturated,
           ValidateParams(Registry[tool].schema, params, saturated),
           NEW n \in {"product_id", "order_id"} \cap DOMAIN params
    PROVE  /\ Int64(Float(params[n].num), saturated) \in 1 .. MaxInt64
           /\ AllExact(params) => 2 * Int64(Float(params[n].num), saturated) = params[n].num
<1> DEFINE schema == Registry[tool].schema
           prop   == schema.properties[n]
           num    == params[n].num
<1>1. n \in DOMAIN schema.properties /\ CheckType(prop, params[n], saturated)
      BY DEF ValidateParams
<1>2. Registry[tool] = ReadOnlyTools[tool]
      BY ToolNames
<1>3. tool \notin {"search_catalog", "get_business_rule"}
      BY <1>1, <1>2 DEF ReadOnlyTools, SearchSchema
<1>4. PICK m \in {"product_id", "order_id"} : schema = IdSchema(m)
    <2>1. CASE tool \in {"get_product", "check_stock"}
          BY <1>2, <2>1 DEF ReadOnlyTools
    <2>2. CASE tool = "get_order_status"
          BY <1>2, <2>2 DEF ReadOnlyTools
    <2> QED BY <1>3, <2>1, <2>2, ToolNames
<1>5. /\ prop.type = "integer"
      /\ "minimum" \in DOMAIN prop /\ prop.minimum = 1
      BY <1>1, <1>4 DEF IdSchema
<1>6. /\ Is("num", params[n])
      /\ Float(num) = Float(2 * Int64(Float(num), saturated))
      /\ Float(num) >= 2
    <2>1. /\ Is("num", params[n])
          /\ Float(num) = Float(2 * Int64(Float(num), saturated))
          /\ CheckNumericBounds(prop, Float(num))
          BY <1>1, <1>5, CheckTypeIs
    <2>2. Float(num) >= 2 * prop.minimum
          BY <1>5, <2>1 DEF CheckNumericBounds
    <2> QED BY <1>5, <2>1, <2>2
<1>7. num \in Int /\ -Largest <= num /\ num <= Largest
      BY <1>6 DEF IsValue
<1>8. Int64(Float(num), saturated) \in 1 .. MaxInt64
      BY <1>6, <1>7, IdIsPositive
<1>9. ASSUME AllExact(params) PROVE 2 * Int64(Float(num), saturated) = num
    <2>1. Exact(num) /\ num \in 2 * MinInt64 .. 2 * MaxInt64
          BY <1>6, <1>9 DEF AllExact
    <2> QED BY <1>6, <2>1, IntegerTest
<1> QED BY <1>8, <1>9

\* While a call is under way its input is one of the inputs, and it was refused
\* as invalid if and only if validateParams does not take it.
VerdictStands ==
    pc # "idle" =>
        /\ \E c \in Calls : call.tool = c[1] /\ call.input = c[2]
        /\ Known /\ call.tool \in DefsFor(call.env.role) /\ call.input # Garbage =>
              (answer = Refused("invalid") <=>
                  ~ValidateParams(Registry[call.tool].schema, Params, saturates))

\* What a refusal says is told apart, from other refusals and from results.
LEMMA NotInvalid ==
    /\ \A why : why # "invalid" => Refused(why) # Refused("invalid")
    /\ \A data : Found(data) # Refused("invalid")
    /\ NoAnswer # Refused("invalid")
BY ResultKinds

\* Nothing after Execute makes an input invalid, or valid.
LEMMA VerdictStep == ToolsInv /\ VerdictStands /\ [ToolsNext]_toolVars => VerdictStands'
<1> SUFFICES ASSUME ToolsInv, VerdictStands, [ToolsNext]_toolVars PROVE VerdictStands'
    OBVIOUS
<1>1. ASSUME pc # "idle", UNCHANGED <<call, saturates>>,
             answer' = answer \/ (answer = NoAnswer /\ answer' # Refused("invalid"))
      PROVE  VerdictStands'
    <2>1. answer' = Refused("invalid") <=> answer = Refused("invalid")
          BY <1>1, NotInvalid
    <2> QED BY <1>1, <2>1 DEF VerdictStands, Known, Params
<1>2. ASSUME NEW env \in Envs, NEW c \in Calls, Execute(env, c[1], c[2])
      PROVE  VerdictStands'
    <2> DEFINE verdict == Verdict(env, c[1], c[2])
    <2>1. /\ call'.tool = c[1] /\ call'.input = c[2] /\ call'.env = env
          /\ saturates' = saturates /\ answer = NoAnswer
          BY <1>2 DEF Execute, ToolsInv, AnswerAtTheEnd
    <2>2. ASSUME c[1] \in DOMAIN Registry, c[1] \in DefsFor(env.role), c[2] # Garbage
          PROVE  verdict = "invalid"
                    <=> ~ValidateParams(Registry[c[1]].schema, Parsed(c[2]), saturates)
          BY <2>2 DEF Verdict
    <2>3. answer' = Refused("invalid") <=> verdict = "invalid"
        <3>1. CASE verdict = "none"
              BY <1>2, <2>1, <3>1, NotInvalid DEF Execute
        <3>2. CASE verdict # "none"
            <4>1. answer' = Refused(verdict)
                  BY <1>2, <3>2 DEF Execute
            <4> QED BY <4>1, NotInvalid
        <3> QED BY <3>1, <3>2
    <2> HIDE DEF verdict
    <2>4. \E d \in Calls : call'.tool = d[1] /\ call'.input = d[2]
          BY <2>1
    <2>5. ASSUME Known', (call.tool \in DefsFor(call.env.role))', (call.input # Garbage)'
          PROVE  (answer = Refused("invalid"))' <=>
                    ~ValidateParams(Registry[call.tool].schema, Params, saturates)'
        <3>1. c[1] \in DOMAIN Registry /\ c[1] \in DefsFor(env.role) /\ c[2] # Garbage
              BY <2>1, <2>5 DEF Known
        <3>2. Params' = Parsed(c[2])
              BY <2>1 DEF Params
        <3>3. ValidateParams(Registry[call.tool].schema, Params, saturates)'
                 <=> ValidateParams(Registry[c[1]].schema, Parsed(c[2]), saturates)
              BY <2>1, <3>2
        <3> QED BY <2>2, <2>3, <3>1, <3>3
    <2> QED BY <2>4, <2>5 DEF VerdictStands
<1>3. CASE StatementFails
    <2>1. pc # "idle" /\ pc # "done" /\ UNCHANGED <<call, saturates>> /\ answer' = Refused("failed")
          BY <1>3 DEF StatementFails, Ends
    <2> QED BY <1>1, <2>1, NotInvalid DEF ToolsInv, AnswerAtTheEnd
<1>4. CASE ReadOnce
    <2>1. pc # "idle" /\ pc # "done" /\ UNCHANGED <<call, saturates>>
          BY <1>4 DEF ReadOnce, Ends
    <2>2. answer' = Refused("not found") \/ \E data : answer' = Found(data)
          BY <1>4, OnceAnswers DEF ToolsInv
    <2> QED BY <1>1, <2>1, <2>2, NotInvalid DEF ToolsInv, AnswerAtTheEnd
<1>5. CASE ReadOrder
    <2>1. pc # "idle" /\ pc # "done" /\ UNCHANGED <<call, saturates>>
          BY <1>5 DEF ReadOrder
    <2>2. answer' = answer \/ answer' = Refused("not found")
          BY <1>5 DEF ReadOrder, Ends
    <2> QED BY <1>1, <2>1, <2>2, NotInvalid DEF ToolsInv, AnswerAtTheEnd
<1>6. CASE ReadItems
    <2>1. pc # "idle" /\ pc # "done" /\ UNCHANGED <<call, saturates>> /\ \E data : answer' = Found(data)
          BY <1>6 DEF ReadItems, Ends
    <2> QED BY <1>1, <2>1, NotInvalid DEF ToolsInv, AnswerAtTheEnd
<1>7. CASE Taken
      BY <1>7 DEF Taken, VerdictStands
<1>8. CASE UNCHANGED <<saturates, pc, call, answer>>
    <2>1. CASE pc = "idle"
          BY <1>8, <2>1 DEF VerdictStands
    <2>2. CASE pc # "idle"
          BY <1>1, <1>8, <2>2
    <2> QED BY <2>1, <2>2
<1> QED BY <1>2, <1>3, <1>4, <1>5, <1>6, <1>7, <1>8 DEF ToolsNext, Write, toolVars

\* SchemaIsEnforced: whatever tools are registered besides the read-only ones,
\* as long as their schemas declare their parameters, an input is taken if and
\* only if it conforms to the schema the model was given, unless a number of it
\* is rounded; and no statement of the read-only tools sees an id below one.
THEOREM SchemaTheorem ==
    ASSUME PowersDouble, SchemasDeclare, JsonInputs
    PROVE  ToolsSpec => []SchemaIsEnforced
<1>1. ToolsInit => VerdictStands
      BY DEF ToolsInit, VerdictStands
<1>2. ToolsInv /\ VerdictStands => SchemaIsEnforced
    <2> SUFFICES ASSUME ToolsInv, VerdictStands,
                        Known, call.tool \in DefsFor(call.env.role), call.input # Garbage
                 PROVE  LET taken == answer # Refused("invalid")
                        IN  /\ AllExact(Params) =>
                                  (taken <=> Conforms(Registry[call.tool].schema, Params))
                            /\ taken /\ call.tool \in DOMAIN ReadOnlyTools =>
                                  \A n \in {"product_id", "order_id"} \cap DOMAIN Params :
                                     /\ IntegerParam(n) \in 1 .. MaxInt64
                                     /\ AllExact(Params) => 2 * IntegerParam(n) = Params[n].num
        BY DEF SchemaIsEnforced
    <2>1. pc # "idle"
        <3>1. "none" \notin DOMAIN Registry
              BY ToolNames, ToolsAssumption DEF Registry
        <3> QED BY <3>1 DEF ToolsInv, NoCall, Known
    <2>2. answer # Refused("invalid")
             <=> ValidateParams(Registry[call.tool].schema, Params, saturates)
          BY <2>1 DEF VerdictStands
    <2>3. \A n \in DOMAIN Params : IsValue(Params[n])
          BY <2>1 DEF VerdictStands, JsonInputs, Params
    <2>4. AllExact(Params) => (ValidateParams(Registry[call.tool].schema, Params, saturates)
                                  <=> Conforms(Registry[call.tool].schema, Params))
          BY <2>3, ValidIsConforming DEF Known
    <2>5. ASSUME ValidateParams(Registry[call.tool].schema, Params, saturates),
                 call.tool \in DOMAIN ReadOnlyTools,
                 NEW n \in {"product_id", "order_id"} \cap DOMAIN Params
          PROVE  /\ IntegerParam(n) \in 1 .. MaxInt64
                 /\ AllExact(Params) => 2 * IntegerParam(n) = Params[n].num
          BY <2>3, <2>5, IdsAreIds DEF IntegerParam
    <2> QED BY <2>2, <2>4, <2>5
<1> QED BY <1>1, <1>2, VerdictStep, ToolsInvariant, PTL DEF ToolsSpec

-----------------------------------------------------------------------------
\* What an answer says of the tables, and of which moment.

\* The tables, with the ids of the catalog and the order of its rows: all that
\* is needed of them.
IsTables(d) ==
    /\ {"orders", "catalog", "rules"} \subseteq DOMAIN d
    /\ IsFiniteSet(DOMAIN d.catalog)
    /\ \A r \in DOMAIN d.catalog :
          /\ {"id", "rank"} \subseteq DOMAIN d.catalog[r]
          /\ d.catalog[r].id \in Int /\ d.catalog[r].rank \in Int
    /\ \A r, s \in DOMAIN d.catalog : d.catalog[r].rank = d.catalog[s].rank => r = s

\* The history of the tables grows, and only grows.
HistoryGrows ==
    /\ Len(db) \in Nat \ {0}
    /\ db \in Seq({db[i] : i \in 1 .. Len(db)})
    /\ \A k \in 1 .. Len(db) : IsTables(db[k])

\* The two halves of AnswersAreCurrent, at one moment.
ProductAsked(k, r) ==
    /\ db[k].catalog[r].kind = "product"
    /\ db[k].catalog[r].company = call.env.company
    /\ db[k].catalog[r].active
    /\ AllExact(Params) => Params["product_id"].num = 2 * db[k].catalog[r].id

ProductCurrent(k) ==
    call.tool \in {"get_product", "check_stock"} =>
        /\ GotResult => \E r \in DOMAIN db[k].catalog :
                           ProductAsked(k, r) /\ answer.found = db[k].catalog[r]
        /\ answer = Refused("not found") /\ AllExact(Params) =>
              \A r \in DOMAIN db[k].catalog : ~ProductAsked(k, r)

OrderCurrent(k) ==
    call.tool = "get_order_status" /\ GotResult =>
        \E id \in DOMAIN db[k].orders, j \in k .. Len(db) :
           /\ AllExact(Params) => Params["order_id"].num = 2 * id
           /\ answer.found.order = db[k].orders[id]
           /\ answer.found.order.active
           /\ answer.found.items = db[j].orders[id].rev

\* Between the two statements of getOrder its row is a row of some moment of
\* the call.
HeaderWasRead(k) ==
    /\ IntegerParam("order_id") \in DOMAIN db[k].orders
    /\ header = db[k].orders[IntegerParam("order_id")]
    /\ header.active

\* What AnswersAreCurrent needs to be inductive.
CurrentInv ==
    /\ HistoryGrows
    /\ pc \in {"read", "items"} => call.input # Garbage
    /\ pc # "idle" => call.at \in 1 .. Len(db)
    /\ pc = "items" => \E k \in call.at .. Len(db) : HeaderWasRead(k)
    /\ pc = "done" => \E k \in call.at .. Len(db) : ProductCurrent(k) /\ OrderCurrent(k)

\* AnswersAreCurrent, in the words of this module.
LEMMA CurrentIs ==
    AnswersAreCurrent <=>
        (pc = "done" => \E k \in call.at .. Len(db) : ProductCurrent(k) /\ OrderCurrent(k))
BY DEF AnswersAreCurrent, ProductCurrent, ProductAsked, OrderCurrent

\* One more entry leaves those before it.
LEMMA HistoryAppend ==
    ASSUME NEW s, NEW x, Len(s) \in Nat, s \in Seq({s[i] : i \in 1 .. Len(s)})
    PROVE  LET t == Append(s, x)
           IN  /\ Len(t) = Len(s) + 1
               /\ t \in Seq({t[i] : i \in 1 .. Len(t)})
               /\ t[Len(s) + 1] = x
               /\ \A i \in 1 .. Len(s) : t[i] = s[i]
<1> DEFINE S == {s[i] : i \in 1 .. Len(s)} \cup {x}
           t == Append(s, x)
<1>1. s \in Seq(S) /\ x \in S
      OBVIOUS
<1> HIDE DEF S
<1>2. /\ t \in Seq(S) /\ Len(t) = Len(s) + 1
      /\ t[Len(s) + 1] = x
      /\ \A i \in 1 .. Len(s) : t[i] = s[i]
      BY <1>1
<1> HIDE DEF t
<1>3. t \in Seq({t[i] : i \in 1 .. Len(t)})
      BY <1>2
<1> QED BY <1>2, <1>3 DEF t

\* Whoever changes a table leaves tables.
LEMMA RevisedTables ==
    ASSUME NEW d, IsTables(d)
    PROVE  /\ \A id, row : IsTables([d EXCEPT !.orders[id] = row])
           /\ \A r, row : IsTables([d EXCEPT !.rules[r] = row])
           /\ \A r \in DOMAIN d.catalog : \A row \in Revised(d.catalog[r]) :
                 IsTables([d EXCEPT !.catalog[r] = row])
<1>1. ASSUME NEW e, DOMAIN e = DOMAIN d, e.catalog = d.catalog PROVE IsTables(e)
      BY <1>1 DEF IsTables
<1>2. \A id, row : IsTables([d EXCEPT !.orders[id] = row])
      BY <1>1 DEF IsTables
<1>3. \A r, row : IsTables([d EXCEPT !.rules[r] = row])
      BY <1>1 DEF IsTables
<1>4. ASSUME NEW r \in DOMAIN d.catalog, NEW row \in Revised(d.catalog[r])
      PROVE  IsTables([d EXCEPT !.catalog[r] = row])
    <2> DEFINE e == [d EXCEPT !.catalog[r] = row]
    <2>1. /\ {"id", "rank"} \subseteq DOMAIN row
          /\ row.id = d.catalog[r].id /\ row.rank = d.catalog[r].rank
          BY DEF IsTables, Revised
    <2>2. DOMAIN e = DOMAIN d /\ e.catalog = [d.catalog EXCEPT ![r] = row]
          BY DEF IsTables
    <2>3. /\ DOMAIN e.catalog = DOMAIN d.catalog
          /\ \A s \in DOMAIN d.catalog :
                /\ {"id", "rank"} \subseteq DOMAIN e.catalog[s]
                /\ e.catalog[s].id = d.catalog[s].id /\ e.catalog[s].rank = d.catalog[s].rank
          BY <2>1, <2>2 DEF IsTables
    <2> HIDE DEF e
    <2>4. IsTables(e)
          BY <2>2, <2>3 DEF IsTables
    <2> QED BY <2>4 DEF e
<1> QED BY <1>2, <1>3, <1>4

\* A write adds an entry.
LEMMA WriteGrows ==
    ASSUME HistoryGrows, Write
    PROVE  /\ HistoryGrows'
           /\ Len(db') = Len(db) + 1
           /\ \A k \in 1 .. Len(db) : db'[k] = db[k]
<1>1. IsTables(Now)
      BY DEF HistoryGrows, Now
<1>2. \E d : IsTables(d) /\ db' = Append(db, d)
      BY <1>1, RevisedTables DEF Write
<1>3. PICK d : IsTables(d) /\ db' = Append(db, d)
      BY <1>2
<1>4. /\ Len(db') = Len(db) + 1
      /\ db' \in Seq({db'[i] : i \in 1 .. Len(db')})
      /\ db'[Len(db) + 1] = d
      /\ \A i \in 1 .. Len(db) : db'[i] = db[i]
      BY <1>3, HistoryAppend DEF HistoryGrows
<1>5. \A k \in 1 .. Len(db') : IsTables(db'[k])
      BY <1>3, <1>4 DEF HistoryGrows
<1> QED BY <1>4, <1>5 DEF HistoryGrows

\* What a statement is sent with is the id that was asked for.
LEMMA AskedFor ==
    ASSUME PowersDouble, JsonInputs, ToolsInv, VerdictStands, pc \in {"read", "items"},
           call.input # Garbage
    PROVE  /\ call.tool \in {"get_product", "check_stock"} =>
                /\ IntegerParam("product_id") \in Int
                /\ AllExact(Params) => Params["product_id"].num = 2 * IntegerParam("product_id")
           /\ call.tool = "get_order_status" =>
                /\ IntegerParam("order_id") \in Int
                /\ AllExact(Params) => Params["order_id"].num = 2 * IntegerParam("order_id")
<1>1. /\ call.tool \in DOMAIN ReadOnlyTools /\ call.tool \in DefsFor(call.env.role)
      /\ answer = NoAnswer
      BY DEF ToolsInv, CallIsAdmitted, AnswerAtTheEnd
<1>2. call.tool \in DOMAIN Registry /\ Registry[call.tool] = ReadOnlyTools[call.tool]
      BY <1>1, ToolNames DEF DefsFor
<1>3. /\ \A n \in DOMAIN Params : IsValue(Params[n])
      BY DEF VerdictStands, JsonInputs, Params
<1>4. ASSUME NEW n \in {"product_id", "order_id"},
             Registry[call.tool].schema = IdSchema(n)
      PROVE  /\ IntegerParam(n) \in Int
             /\ AllExact(Params) => Params[n].num = 2 * IntegerParam(n)
    <2>1. ValidateParams(Registry[call.tool].schema, Params, saturates)
          BY <1>1, <1>2, <1>4, NotInvalid DEF VerdictStands, Known
    <2>2. n \in DOMAIN Params
          BY <1>4, <2>1 DEF ValidateParams, IdSchema
    <2>3. /\ IntegerParam(n) \in 1 .. MaxInt64
          /\ AllExact(Params) => 2 * IntegerParam(n) = Params[n].num
          BY <1>1, <1>3, <2>1, <2>2, IdsAreIds DEF IntegerParam
    <2> QED BY <2>3, FloatParameters
<1>5. call.tool \in {"get_product", "check_stock"} =>
         Registry[call.tool].schema = IdSchema("product_id")
      BY <1>2 DEF ReadOnlyTools
<1>6. call.tool = "get_order_status" => Registry[call.tool].schema = IdSchema("order_id")
      BY <1>2 DEF ReadOnlyTools
<1> QED BY <1>4, <1>5, <1>6

\* A result is shown as it was found, and a refusal shows nothing.
LEMMA ShownIs ==
    /\ \A data : "found" \in DOMAIN Found(data) /\ Found(data).found = data
                 /\ \A why : Found(data) # Refused(why)
    /\ \A why : "found" \notin DOMAIN Refused(why)
    /\ \A a, b : a # b => Refused(a) # Refused(b)
BY ResultKinds

\* A product tool shows a row of the catalog as it stands.
LEMMA ProductAnswer ==
    ASSUME PowersDouble, JsonInputs, ToolsInv, VerdictStands, CurrentInv, ReadOnce
    PROVE  (ProductCurrent(Len(db)) /\ OrderCurrent(Len(db)))'
<1> DEFINE k == Len(db)
           id == IntegerParam("product_id")
<1>1. /\ pc = "read" /\ call.tool # "get_order_status"
      /\ UNCHANGED <<db, saturates, call>>
      BY DEF ReadOnce
<1>2. OrderCurrent(Len(db))'
      BY <1>1 DEF OrderCurrent
<1>3. CASE call.tool \in {"get_product", "check_stock"}
    <2>1. answer' = GetProduct(Now)
          BY <1>3 DEF ReadOnce, Ends
    <2>2. /\ id \in Int /\ (AllExact(Params) => Params["product_id"].num = 2 * id)
          BY <1>1, <1>3, AskedFor DEF CurrentInv
    <2>3. k \in 1 .. Len(db) /\ Now = db[k]
          BY DEF CurrentInv, HistoryGrows, Now
    <2>4. CASE ProductRows(Now, id) = {}
        <3>1. answer' = Refused("not found")
              BY <2>1, <2>4 DEF GetProduct
        <3>2. ASSUME AllExact(Params), NEW r \in DOMAIN db[k].catalog PROVE ~ProductAsked(k, r)
            <4>1. db[k].catalog[r].id \in Int
                  BY <2>3 DEF CurrentInv, HistoryGrows, IsTables
            <4>2. r \notin ProductRows(Now, id)
                  BY <2>4
            <4>3. ~(/\ Now.catalog[r].kind = "product"
                    /\ Now.catalog[r].company = call.env.company
                    /\ Now.catalog[r].id = id
                    /\ Now.catalog[r].active)
                  BY <2>3, <4>2 DEF ProductRows
            <4>4. 2 * db[k].catalog[r].id = 2 * id => db[k].catalog[r].id = id
                  BY <2>2, <4>1
            <4> QED BY <2>2, <2>3, <3>2, <4>3, <4>4 DEF ProductAsked
        <3>3. "found" \notin DOMAIN answer'
              BY <3>1, ShownIs
        <3>4. ~GotResult' /\ (AllExact(Params) => \A r \in DOMAIN db[k].catalog : ~ProductAsked(k, r))
              BY <3>2, <3>3 DEF GotResult
        <3>5. ProductCurrent(Len(db))'
              BY <1>1, <3>4 DEF ProductCurrent, ProductAsked, Params
        <3> QED BY <1>2, <3>5
    <2>5. CASE ProductRows(Now, id) # {}
        <3>1. PICK r \in ProductRows(Now, id) : answer' = Found(Now.catalog[r])
              BY <2>1, <2>5 DEF GetProduct
        <3>2. /\ r \in DOMAIN db[k].catalog
              /\ db[k].catalog[r].kind = "product"
              /\ db[k].catalog[r].company = call.env.company
              /\ db[k].catalog[r].id = id
              /\ db[k].catalog[r].active
              BY <2>3 DEF ProductRows
        <3>3. ProductAsked(k, r)
              BY <2>2, <3>2 DEF ProductAsked
        <3>4. answer'.found = db[k].catalog[r] /\ answer' # Refused("not found")
              BY <2>3, <3>1, ShownIs
        <3>5. ProductCurrent(Len(db))'
              BY <1>1, <3>2, <3>3, <3>4 DEF ProductCurrent, ProductAsked, Params
        <3> QED BY <1>2, <3>5
    <2> QED BY <2>4, <2>5
<1>4. CASE call.tool \notin {"get_product", "check_stock"}
      BY <1>1, <1>2, <1>4 DEF ProductCurrent
<1> QED BY <1>3, <1>4

\* An order is shown with the row that was read and with items as they stand.
LEMMA OrderAnswer ==
    ASSUME PowersDouble, JsonInputs, ToolsInv, VerdictStands, CurrentInv, ReadItems,
           NEW k \in call.at .. Len(db), HeaderWasRead(k)
    PROVE  (ProductCurrent(k) /\ OrderCurrent(k))'
<1> DEFINE id == IntegerParam("order_id")
<1>1. /\ pc = "items" /\ UNCHANGED <<db, saturates, call>>
      /\ answer' = Found([order |-> header, items |-> Now.orders[id].rev])
      BY DEF ReadItems, Ends
<1>2. call.tool = "get_order_status"
      BY <1>1 DEF ToolsInv, HeaderIsVisible
<1>3. AllExact(Params) => Params["order_id"].num = 2 * id
      BY <1>1, <1>2, AskedFor DEF CurrentInv
<1>4. answer'.found = [order |-> header, items |-> Now.orders[id].rev]
      BY <1>1, ShownIs
<1>5. answer'.found.order = header /\ answer'.found.items = db[Len(db)].orders[id].rev
      BY <1>4 DEF Now
<1>6. /\ id \in DOMAIN db[k].orders
      /\ header = db[k].orders[id] /\ header.active
      BY DEF HeaderWasRead
<1>7. Len(db) \in k .. Len(db)
    <2>1. k \in Int /\ Len(db) \in Int /\ k <= Len(db)
          BY <1>1 DEF CurrentInv, HistoryGrows
    <2> QED BY <2>1
<1>8. PICK i, j : i = id /\ j = Len(db)
      OBVIOUS
<1>9. /\ i \in DOMAIN db[k].orders /\ j \in k .. Len(db)
      /\ AllExact(Params) => Params["order_id"].num = 2 * i
      /\ answer'.found.order = db[k].orders[i]
      /\ answer'.found.order.active
      /\ answer'.found.items = db[j].orders[i].rev
      BY <1>3, <1>5, <1>6, <1>7, <1>8
<1>10. OrderCurrent(k)'
      BY <1>1, <1>9 DEF OrderCurrent, Params
<1>11. ProductCurrent(k)'
      BY <1>1, <1>2 DEF ProductCurrent
<1> QED BY <1>10, <1>11

\* What is known of the tables and of the answer stands over every step.
LEMMA CurrentStep ==
    ASSUME PowersDouble, JsonInputs, ToolsInv, VerdictStands, CurrentInv, [ToolsNext]_toolVars
    PROVE  CurrentInv'
<1>1. /\ Len(db) \in Nat \ {0} /\ Len(db) \in 1 .. Len(db)
      BY DEF CurrentInv, HistoryGrows
<1>2. ASSUME UNCHANGED <<db, call>>, pc # "idle",
             pc' = "done" /\ \E k \in call.at .. Len(db) : (ProductCurrent(k) /\ OrderCurrent(k))'
      PROVE  CurrentInv'
    <2>1. HistoryGrows'
          BY <1>2 DEF CurrentInv, HistoryGrows, IsTables
    <2>2. call'.at \in 1 .. Len(db')
          BY <1>2 DEF CurrentInv
    <2>3. PICK k \in call.at .. Len(db) : (ProductCurrent(k) /\ OrderCurrent(k))'
          BY <1>2
    <2>4. k \in call'.at .. Len(db')
          BY <1>2
    <2> QED BY <1>2, <2>1, <2>2, <2>3, <2>4 DEF CurrentInv
<1>3. ASSUME pc # "idle"
      PROVE  Len(db) \in call.at .. Len(db)
      BY <1>1, <1>3 DEF CurrentInv
<1>4. ASSUME UNCHANGED <<db, call>>, pc # "idle", pc' = "done",
             \E why : why # "not found" /\ answer' = Refused(why)
      PROVE  CurrentInv'
    <2>1. "found" \notin DOMAIN answer' /\ answer' # Refused("not found")
          BY <1>4, ShownIs
    <2>2. (ProductCurrent(Len(db)) /\ OrderCurrent(Len(db)))'
          BY <2>1 DEF ProductCurrent, OrderCurrent, GotResult
    <2>3. PICK k : k = Len(db)
          OBVIOUS
    <2>4. (ProductCurrent(k) /\ OrderCurrent(k))'
          BY <1>4, <2>2, <2>3
    <2> QED BY <1>2, <1>3, <1>4, <2>3, <2>4
<1>5. ASSUME NEW env \in Envs, NEW c \in Calls, Execute(env, c[1], c[2])
      PROVE  CurrentInv'
    <2> DEFINE verdict == Verdict(env, c[1], c[2])
    <2>1. /\ call'.tool = c[1] /\ call'.input = c[2] /\ call'.at = Len(db)
          /\ db' = db
          BY <1>5 DEF Execute
    <2>2. HistoryGrows'
          BY <2>1 DEF CurrentInv, HistoryGrows, IsTables
    <2>3. call'.at \in 1 .. Len(db') /\ Len(db) \in call'.at .. Len(db')
          BY <1>1, <2>1
    <2>4. CASE verdict = "none" /\ c[1] \in DOMAIN ReadOnlyTools
        <3>1. pc' = "read"
              BY <1>5, <2>4 DEF Execute
        <3>2. c[2] # Garbage
              BY <2>4 DEF Verdict
        <3> QED BY <2>1, <2>2, <2>3, <3>1, <3>2 DEF CurrentInv
    <2>5. CASE ~(verdict = "none" /\ c[1] \in DOMAIN ReadOnlyTools)
        <3>1. /\ pc' = "done"
              /\ answer' = IF verdict = "none" THEN Found("done") ELSE Refused(verdict)
              BY <1>5, <2>5 DEF Execute
        <3>2. \/ "found" \notin DOMAIN answer' /\ answer' # Refused("not found")
              \/ c[1] \notin DOMAIN ReadOnlyTools
            <4>1. verdict # "not found"
                  BY VerdictFacts
            <4>2. CASE verdict = "none"
                  BY <2>5, <4>2
            <4>3. CASE verdict # "none"
                  BY <3>1, <4>1, <4>3, ShownIs
            <4> QED BY <4>2, <4>3
        <3>3. PICK k : k = Len(db)
              OBVIOUS
        <3>4. (ProductCurrent(k) /\ OrderCurrent(k))'
              BY <2>1, <3>2, ToolNames DEF ProductCurrent, OrderCurrent, GotResult
        <3>5. k \in call'.at .. Len(db')
              BY <2>3, <3>3
        <3> QED BY <2>2, <2>3, <3>1, <3>4, <3>5 DEF CurrentInv
    <2> QED BY <2>4, <2>5
<1>6. CASE StatementFails
      BY <1>4, <1>6 DEF StatementFails, Ends
<1>7. CASE ReadOnce
    <2>1. /\ pc = "read" /\ pc' = "done" /\ UNCHANGED <<db, call>>
          BY <1>7 DEF ReadOnce, Ends
    <2>2. (ProductCurrent(Len(db)) /\ OrderCurrent(Len(db)))'
          BY <1>7, ProductAnswer
    <2>3. PICK k : k = Len(db)
          OBVIOUS
    <2>4. (ProductCurrent(k) /\ OrderCurrent(k))'
          BY <2>1, <2>2, <2>3
    <2> QED BY <1>2, <1>3, <2>1, <2>3, <2>4
<1>8. CASE ReadOrder
    <2> DEFINE id == IntegerParam("order_id")
    <2>1. /\ pc = "read" /\ call.tool = "get_order_status" /\ UNCHANGED <<db, call, saturates>>
          BY <1>8 DEF ReadOrder
    <2>2. CASE id \in DOMAIN Now.orders /\ Visible(Now, id)
        <3>1. header' = Now.orders[id] /\ pc' = "items"
              BY <1>8, <2>2 DEF ReadOrder
        <3>2. PICK k : k = Len(db)
              OBVIOUS
        <3>3. Now = db[k]
              BY <3>2 DEF Now
        <3>4. HeaderWasRead(k)'
              BY <2>1, <2>2, <3>1, <3>3 DEF HeaderWasRead, Visible, IntegerParam, Params
        <3>5. k \in call'.at .. Len(db') /\ call'.at \in 1 .. Len(db')
              BY <1>3, <2>1, <3>2 DEF CurrentInv
        <3>6. HistoryGrows'
              BY <2>1 DEF CurrentInv, HistoryGrows, IsTables
        <3>7. call'.input # Garbage
              BY <2>1 DEF CurrentInv
        <3> QED BY <3>1, <3>4, <3>5, <3>6, <3>7 DEF CurrentInv
    <2>3. CASE ~(id \in DOMAIN Now.orders /\ Visible(Now, id))
        <3>1. pc' = "done" /\ answer' = Refused("not found")
              BY <1>8, <2>3 DEF ReadOrder, Ends
        <3>2. "found" \notin DOMAIN answer'
              BY <3>1, ShownIs
        <3>3. PICK k : k = Len(db)
              OBVIOUS
        <3>4. (ProductCurrent(k) /\ OrderCurrent(k))'
              BY <2>1, <3>2 DEF ProductCurrent, OrderCurrent, GotResult
        <3> QED BY <1>2, <1>3, <2>1, <3>1, <3>3, <3>4
    <2> QED BY <2>2, <2>3
<1>9. CASE ReadItems
    <2>1. /\ pc = "items" /\ pc' = "done" /\ UNCHANGED <<db, call>>
          BY <1>9 DEF ReadItems, Ends
    <2>2. PICK k \in call.at .. Len(db) : HeaderWasRead(k)
          BY <2>1 DEF CurrentInv
    <2>3. (ProductCurrent(k) /\ OrderCurrent(k))'
          BY <1>9, <2>2, OrderAnswer
    <2> QED BY <1>2, <2>1, <2>3
<1>10. CASE Taken
      BY <1>10 DEF Taken, CurrentInv, HistoryGrows, IsTables
<1>11. CASE Write
    <2>1. /\ HistoryGrows' /\ Len(db') = Len(db) + 1
          /\ \A k \in 1 .. Len(db) : db'[k] = db[k]
          BY <1>11, WriteGrows DEF CurrentInv
    <2>2. UNCHANGED <<saturates, pc, call, header, answer>>
          BY <1>11 DEF Write
    <2>3. CASE pc = "idle"
          BY <2>1, <2>2, <2>3 DEF CurrentInv
    <2>4. CASE pc # "idle"
        <3>1. call'.at \in 1 .. Len(db')
              BY <1>1, <2>1, <2>2, <2>4 DEF CurrentInv
        <3>2. ASSUME NEW k \in call.at .. Len(db)
              PROVE  /\ k \in 1 .. Len(db) /\ k \in call'.at .. Len(db') /\ db'[k] = db[k]
                     /\ k .. Len(db) \subseteq k .. Len(db')
            <4>1. call.at \in 1 .. Len(db)
                  BY <2>4 DEF CurrentInv
            <4>2. k \in 1 .. Len(db) /\ k \in call.at .. Len(db) + 1
                  BY <1>1, <4>1
            <4> QED BY <1>1, <2>1, <2>2, <4>2
        <3>3. ASSUME pc' = "items" PROVE \E k \in call'.at .. Len(db') : HeaderWasRead(k)'
            <4>1. PICK k \in call.at .. Len(db) : HeaderWasRead(k)
                  BY <2>2, <3>3 DEF CurrentInv
            <4>2. HeaderWasRead(k)'
                  BY <2>2, <3>2, <4>1 DEF HeaderWasRead, IntegerParam, Params
            <4> QED BY <3>2, <4>2
        <3>4. ASSUME pc' = "done"
              PROVE  \E k \in call'.at .. Len(db') : (ProductCurrent(k) /\ OrderCurrent(k))'
            <4>1. PICK k \in call.at .. Len(db) : ProductCurrent(k) /\ OrderCurrent(k)
                  BY <2>2, <3>4 DEF CurrentInv
            <4>2. ProductCurrent(k)'
                  BY <2>2, <3>2, <4>1 DEF ProductCurrent, ProductAsked, Params, GotResult
            <4>3. ASSUME call.tool = "get_order_status", GotResult PROVE OrderCurrent(k)'
                <5>1. PICK id \in DOMAIN db[k].orders, j \in k .. Len(db) :
                         /\ AllExact(Params) => Params["order_id"].num = 2 * id
                         /\ answer.found.order = db[k].orders[id]
                         /\ answer.found.order.active
                         /\ answer.found.items = db[j].orders[id].rev
                      BY <4>1, <4>3 DEF OrderCurrent
                <5>2. j \in 1 .. Len(db) /\ j \in k .. Len(db')
                    <6>1. k \in 1 .. Len(db)
                          BY <3>2
                    <6> QED BY <1>1, <3>2, <6>1
                <5>3. db'[j] = db[j] /\ db'[k] = db[k]
                      BY <2>1, <3>2, <5>2
                <5> QED BY <2>2, <5>1, <5>2, <5>3 DEF OrderCurrent, Params
            <4>4. OrderCurrent(k)'
                  BY <2>2, <4>3 DEF OrderCurrent, GotResult
            <4> QED BY <3>2, <4>2, <4>4
        <3>5. pc' \in {"read", "items"} => call'.input # Garbage
              BY <2>2 DEF CurrentInv
        <3> QED BY <2>1, <3>1, <3>3, <3>4, <3>5 DEF CurrentInv
    <2> QED BY <2>3, <2>4
<1>12. CASE UNCHANGED toolVars
    <2>1. UNCHANGED <<db, saturates, pc, call, header, answer>>
          BY <1>12 DEF toolVars
    <2>2. HistoryGrows' /\ (pc' \in {"read", "items"} => call'.input # Garbage)
          /\ (pc' # "idle" => call'.at \in 1 .. Len(db'))
          BY <2>1 DEF CurrentInv, HistoryGrows, IsTables
    <2>3. ASSUME pc' = "items" PROVE \E k \in call'.at .. Len(db') : HeaderWasRead(k)'
        <3>1. PICK k \in call.at .. Len(db) : HeaderWasRead(k)
              BY <2>1, <2>3 DEF CurrentInv
        <3>2. HeaderWasRead(k)'
              BY <2>1, <3>1 DEF HeaderWasRead, IntegerParam, Params
        <3> QED BY <2>1, <3>2
    <2>4. ASSUME pc' = "done"
          PROVE  \E k \in call'.at .. Len(db') : (ProductCurrent(k) /\ OrderCurrent(k))'
        <3>1. PICK k \in call.at .. Len(db) : ProductCurrent(k) /\ OrderCurrent(k)
              BY <2>1, <2>4 DEF CurrentInv
        <3>2. ProductCurrent(k)'
              BY <2>1, <3>1 DEF ProductCurrent, ProductAsked, Params, GotResult
        <3>3. OrderCurrent(k)'
              BY <2>1, <3>1 DEF OrderCurrent, Params, GotResult
        <3> QED BY <2>1, <3>2, <3>3
    <2> QED BY <2>2, <2>3, <2>4 DEF CurrentInv
<1> QED BY <1>5, <1>6, <1>7, <1>8, <1>9, <1>10, <1>11, <1>12 DEF ToolsNext

\* The tables as they are at first.
LEMMA CurrentInit ==
    ASSUME IsTables(InitialDb), ToolsInit
    PROVE  CurrentInv
<1>1. db = <<InitialDb>> /\ pc = "idle"
      BY DEF ToolsInit
<1>2. Len(db) = 1 /\ db[1] = InitialDb /\ db \in Seq({InitialDb})
      BY <1>1
<1>3. {db[i] : i \in 1 .. Len(db)} = {InitialDb}
      BY <1>2
<1> QED BY <1>1, <1>2, <1>3 DEF CurrentInv, HistoryGrows

\* AnswersAreCurrent: an answer about a product is what its row was at one
\* moment of the call, "not found" says that there was none at one moment, and
\* an order is shown as it was at one moment with items no older - whatever is
\* written to the tables between the statements and after them.
THEOREM CurrentTheorem ==
    ASSUME PowersDouble, JsonInputs, IsTables(InitialDb)
    PROVE  ToolsSpec => []AnswersAreCurrent
<1>1. ToolsInit => VerdictStands
      BY DEF ToolsInit, VerdictStands
<1>2. ToolsInit => CurrentInv
      BY CurrentInit
<1>3. CurrentInv => AnswersAreCurrent
      BY CurrentIs DEF CurrentInv
<1>4. ToolsInv /\ VerdictStands /\ CurrentInv /\ [ToolsNext]_toolVars => CurrentInv'
      BY CurrentStep
<1> QED BY <1>1, <1>2, <1>3, <1>4, VerdictStep, ToolsInvariant, PTL DEF ToolsSpec

-----------------------------------------------------------------------------
\* What ORDER BY and LIMIT leave of the rows of a search.

\* B orders S: irreflexive, transitive and total.
Orders(B, S) ==
    /\ \A q \in S : <<q, q>> \notin B
    /\ \A p, q, r \in S : <<p, q>> \in B /\ <<q, r>> \in B => <<p, r>> \in B
    /\ \A p, q \in S : p # q => <<p, q>> \in B \/ <<q, p>> \in B

\* The members of S that fewer than n come before.
FirstOf(S, B, n) == {q \in S : Cardinality({s \in S : <<s, q>> \in B}) < n}

\* The first n of a finite ordered set are n, or they are all of it.
LEMMA FirstRows ==
    ASSUME NEW S, IsFiniteSet(S), NEW B, Orders(B, S), NEW n \in Nat
    PROVE  /\ IsFiniteSet(FirstOf(S, B, n))
           /\ Cardinality(FirstOf(S, B, n)) \in Nat
           /\ Cardinality(FirstOf(S, B, n)) <= n
           /\ Cardinality(FirstOf(S, B, n)) = n \/ FirstOf(S, B, n) = S
<1> DEFINE top == FirstOf(S, B, n)
           Pred(q) == {s \in S : <<s, q>> \in B}
           pos == [q \in S |-> Cardinality(Pred(q))]
           size == Cardinality(S)
           cut == [q \in top |-> pos[q]]
<1>1. size \in Nat
      BY FS_CardinalityType
<1>2. \A q \in S : IsFiniteSet(Pred(q)) /\ Cardinality(Pred(q)) \in Nat
      BY FS_Subset, FS_CardinalityType
<1>3. ASSUME NEW q \in S PROVE pos[q] \in 0 .. size - 1
    <2>1. Pred(q) \in SUBSET S /\ q \notin Pred(q)
          BY DEF Orders
    <2>2. Cardinality(Pred(q)) <= size /\ Cardinality(Pred(q)) # size
          BY <2>1, FS_Subset
    <2> HIDE DEF Pred, size
    <2> QED BY <1>1, <1>2, <2>2
<1>4. ASSUME NEW p \in S, NEW q \in S, <<p, q>> \in B PROVE pos[p] < pos[q]
    <2>1. Pred(p) \in SUBSET Pred(q) /\ p \in Pred(q) /\ p \notin Pred(p)
          BY <1>4 DEF Orders
    <2>2. IsFiniteSet(Pred(q)) /\ Pred(p) # Pred(q)
          BY <1>2, <2>1
    <2>3. Cardinality(Pred(p)) <= Cardinality(Pred(q)) /\ Cardinality(Pred(p)) # Cardinality(Pred(q))
          BY <2>1, <2>2, FS_Subset
    <2>4. pos[p] = Cardinality(Pred(p)) /\ pos[q] = Cardinality(Pred(q))
          OBVIOUS
    <2>5. Cardinality(Pred(p)) \in Nat /\ Cardinality(Pred(q)) \in Nat
          BY <1>2
    <2> HIDE DEF Pred, pos
    <2> QED BY <2>3, <2>4, <2>5
<1>5. \A p, q \in S : pos[p] = pos[q] => p = q
    <2> SUFFICES ASSUME NEW p \in S, NEW q \in S, p # q PROVE pos[p] # pos[q]
        OBVIOUS
    <2> HIDE DEF pos, size
    <2>1. 0 .. size - 1 \subseteq Nat
          BY <1>1
    <2>2. pos[p] \in Nat /\ pos[q] \in Nat
          BY <1>3, <2>1
    <2>3. pos[p] < pos[q] \/ pos[q] < pos[p]
          BY <1>4 DEF Orders
    <2> QED BY <2>2, <2>3
<1>6. pos \in Injection(S, 0 .. size - 1)
    <2>1. pos \in [S -> 0 .. size - 1]
          BY <1>3
    <2> HIDE DEF pos, size
    <2> QED BY <1>5, <2>1 DEF Injection, IsInjective
<1>7. IsFiniteSet(0 .. size - 1) /\ Cardinality(0 .. size - 1) = size
      BY <1>1, FS_Interval
<1>8. pos \in Surjection(S, 0 .. size - 1)
      BY <1>6, <1>7, FS_Injection
<1>9. IsFiniteSet(0 .. n - 1) /\ Cardinality(0 .. n - 1) = n
      BY FS_Interval
<1>10. /\ top \subseteq S /\ IsFiniteSet(top) /\ Cardinality(top) \in Nat
       /\ \A q \in S : q \in top <=> pos[q] < n
      BY FS_Subset, FS_CardinalityType DEF FirstOf
<1> HIDE DEF pos, size, top
<1>11. cut \in Injection(top, 0 .. n - 1)
    <2>1. cut \in [top -> 0 .. n - 1]
          BY <1>3, <1>10
    <2> QED BY <1>5, <1>10, <2>1 DEF Injection, IsInjective
<1>12. Cardinality(top) <= n /\ (Cardinality(top) = n <=> cut \in Surjection(top, 0 .. n - 1))
      BY <1>9, <1>11, FS_Injection
<1>13. ASSUME top # S PROVE Cardinality(top) = n
    <2>1. PICK q \in S : ~(pos[q] < n)
          BY <1>10, <1>13
    <2>2. n <= size - 1
          BY <1>1, <1>3, <2>1
    <2>3. \A t \in 0 .. n - 1 : \E s \in top : cut[s] = t
        <3> SUFFICES ASSUME NEW t \in 0 .. n - 1 PROVE \E s \in top : cut[s] = t
            OBVIOUS
        <3>1. t \in 0 .. size - 1
              BY <1>1, <2>2
        <3>2. PICK s \in S : pos[s] = t
              BY <1>8, <3>1 DEF Surjection
        <3> QED BY <1>10, <3>2
    <2>4. cut \in Surjection(top, 0 .. n - 1)
          BY <1>11, <2>3 DEF Surjection, Injection
    <2> QED BY <1>12, <2>4
<1> USE DEF top
<1> QED BY <1>10, <1>12, <1>13

\* A search over some tables holds so many of the rows that match, or all.
LEMMA SearchHolds ==
    ASSUME NEW d, IsTables(d), SearchLimit \in Nat
    PROVE  LET Matching == {d.catalog[r] : r \in Selected(d)}
           IN  \E found : /\ SearchCatalog(d) = Found(found)
                          /\ found \subseteq Matching
                          /\ Cardinality(found) <= SearchLimit
                          /\ Cardinality(found) = SearchLimit \/ found = Matching
<1> DEFINE rows == Selected(d)
           Exactly(r) == d.catalog[r].name = ToLower[TextParam("query")]
           Before(s, r) == \/ Exactly(s) /\ ~Exactly(r)
                           \/ (Exactly(s) = Exactly(r)) /\ d.catalog[s].rank < d.catalog[r].rank
           B == {x \in rows \X rows : Before(x[1], x[2])}
           top == FirstOf(rows, B, SearchLimit)
           found == {d.catalog[r] : r \in top}
<1>1. rows \subseteq DOMAIN d.catalog
      BY DEF Selected
<1>2. IsFiniteSet(rows)
      BY <1>1, FS_Subset DEF IsTables
<1>3. \A r \in rows : d.catalog[r].rank \in Int
      BY <1>1 DEF IsTables
<1>4. \A r, s \in rows : d.catalog[r].rank = d.catalog[s].rank => r = s
      BY <1>1 DEF IsTables
<1>5. \A s, q \in rows : <<s, q>> \in B <=> Before(s, q)
      OBVIOUS
<1>6. \A q \in rows : {s \in rows : Before(s, q)} = {s \in rows : <<s, q>> \in B}
      BY <1>5
<1>7. {q \in rows : Cardinality({s \in rows : Before(s, q)}) < SearchLimit} = top
      BY <1>6 DEF FirstOf
<1>8. SearchCatalog(d) = Found({d.catalog[r] :
          r \in {q \in rows : Cardinality({s \in rows : Before(s, q)}) < SearchLimit}})
      BY DEF SearchCatalog
<1>9. SearchCatalog(d) = Found(found)
      BY <1>7, <1>8
<1> HIDE DEF rows, B
<1>10. \A q \in rows : <<q, q>> \notin B
      BY <1>3, <1>5
<1>11. \A p, q, r \in rows : Before(p, q) /\ Before(q, r) => Before(p, r)
    <2> SUFFICES ASSUME NEW p \in rows, NEW q \in rows, NEW r \in rows,
                        Before(p, q), Before(q, r)
                 PROVE  Before(p, r)
        OBVIOUS
    <2>1. /\ d.catalog[p].rank \in Int /\ d.catalog[q].rank \in Int /\ d.catalog[r].rank \in Int
          BY <1>3
    <2> QED BY <2>1
<1>12. \A p, q, r \in rows : <<p, q>> \in B /\ <<q, r>> \in B => <<p, r>> \in B
      BY <1>5, <1>11
<1>13. \A p, q \in rows : p # q => <<p, q>> \in B \/ <<q, p>> \in B
    <2> SUFFICES ASSUME NEW p \in rows, NEW q \in rows, p # q
                 PROVE  Before(p, q) \/ Before(q, p)
        BY <1>5
    <2>1. d.catalog[p].rank \in Int /\ d.catalog[q].rank \in Int
          BY <1>3
    <2>2. d.catalog[p].rank # d.catalog[q].rank
          BY <1>4
    <2> QED BY <2>1, <2>2
<1>20. Orders(B, rows)
      BY <1>10, <1>12, <1>13 DEF Orders
<1> HIDE DEF Exactly, Before
<1>14. /\ IsFiniteSet(top) /\ Cardinality(top) \in Nat
       /\ Cardinality(top) <= SearchLimit
       /\ Cardinality(top) = SearchLimit \/ top = rows
      BY <1>2, <1>20, FirstRows
<1>15. Cardinality(found) = Cardinality(top)
    <2> DEFINE shown == [r \in top |-> d.catalog[r]]
    <2>1. \A r, s \in top : d.catalog[r] = d.catalog[s] => r = s
          BY <1>4 DEF FirstOf
    <2>2. shown \in Injection(top, found)
        <3>1. shown \in [top -> found]
              OBVIOUS
        <3> HIDE DEF top, found
        <3> QED BY <2>1, <3>1 DEF Injection, IsInjective
    <2>3. \A t \in found : \E r \in top : shown[r] = t
          OBVIOUS
    <2>4. shown \in Bijection(top, found)
        <3> HIDE DEF shown, top, found
        <3> QED BY <2>2, <2>3 DEF Injection, Surjection, Bijection
    <2> HIDE DEF shown, top, found
    <2>5. ExistsBijection(top, found)
          BY <2>4 DEF ExistsBijection
    <2> QED BY <1>14, <2>5, FS_Bijection
<1>16. found \subseteq {d.catalog[r] : r \in rows}
      BY DEF FirstOf
<1>17. top = rows => found = {d.catalog[r] : r \in rows}
      OBVIOUS
<1> HIDE DEF top, found
<1>18. \/ Cardinality(found) = SearchLimit
       \/ found = {d.catalog[r] : r \in rows}
      BY <1>14, <1>15, <1>17
<1>19. Cardinality(found) <= SearchLimit
      BY <1>14, <1>15
<1> USE DEF rows
<1> QED BY <1>9, <1>16, <1>18, <1>19

\* What a search may be asked for is a small number: a float64 as it stands,
\* and an int64.
LimitIsSmall == 2 * MaxCatalogLimit < 2 ^ Precision /\ MaxCatalogLimit <= MaxInt64

\* A number whose float is a small one is that float.
LEMMA SmallFloat ==
    ASSUME PowersDouble, NEW n \in Nat, n <= Largest, Float(n) < 2 ^ Precision
    PROVE  Float(n) = n
<1> DEFINE u == Ulp(n)
           half == 2 ^ (Precision - 1)
<1>1. /\ half \in Nat \ {0} /\ 2 ^ Precision = 2 * half
      BY FloatParameters
<1>2. PICK i \in Nat : u = 2 ^ i
      BY UlpIs
<1>3. u \in Nat \ {0}
      BY <1>2, PowerIs
<1>4. u = 1 \/ n > half * u
      BY UlpIs
<1>5. n <= 2 ^ Precision * u
      BY UlpIs
<1>6. Float(n) = RoundHalfEven(n, u)
      BY DEF Float
<1>7. CASE u = 1
    <2>1. n <= 2 ^ Precision
          BY <1>1, <1>5, <1>7
    <2> QED BY <1>1, <2>1, SmallExact
<1>8. CASE u # 1
    <2>1. PICK h \in Nat : u = 2 * h
          BY <1>2, <1>8, PowerIs
    <2>2. h >= 1
          BY <1>3, <2>1
    <2> DEFINE q == n \div u
    <2>3. q \in Nat /\ q >= half
        <3> HIDE DEF u, half
        <3>1. PICK m \in Nat : m = half * u
              BY <1>1, <1>3, ProductFacts
        <3>2. q \in Nat /\ n = u * q + (n % u) /\ (n % u) \in 0 .. u - 1
              BY <1>3
        <3>3. SUFFICES ASSUME q < half PROVE FALSE
              BY <1>1, <3>2
        <3>4. q + 1 <= half
              BY <1>1, <3>2, <3>3
        <3>5. PICK r \in Nat : half = q + 1 + r
            <4>1. half - q - 1 \in Nat /\ half = q + 1 + (half - q - 1)
                  BY <1>1, <3>2, <3>4
            <4> QED BY <4>1
        <3>6. half * u = u * q + u + r * u /\ r * u \in Nat /\ u * q \in Nat
              BY <1>3, <3>2, <3>5
        <3>7. n < half * u
              BY <1>3, <3>2, <3>6
        <3> QED BY <1>1, <1>3, <1>4, <1>8, <3>1, <3>7
    <2>4. Float(n) = q * u \/ Float(n) = (q + 1) * u
          BY <1>6 DEF RoundHalfEven
    <2> HIDE DEF u, half, q
    <2>5. /\ q * u = 2 * (q * h) /\ q * h \in Nat /\ q * h >= q
          /\ (q + 1) * u = 2 * ((q + 1) * h) /\ (q + 1) * h \in Nat /\ (q + 1) * h >= q + 1
          BY <2>1, <2>2, <2>3, ProductFacts
    <2>6. Float(n) \in Nat /\ Float(n) >= 2 * half
          BY <1>1, <2>3, <2>4, <2>5
    <2> QED BY <1>1, <2>6
<1> QED BY <1>7, <1>8

\* What a search is asked to hold at most.
Asked == IF "limit" \in DOMAIN Params THEN Params["limit"].num \div 2 ELSE DefaultCatalogLimit

\* After validation the limit of the statement is the one that was asked for.
LEMMA LimitAsked ==
    ASSUME PowersDouble, JsonInputs, LimitIsSmall, ToolsInv, VerdictStands,
           pc = "read", call.input # Garbage, call.tool = "search_catalog"
    PROVE  SearchLimit = Asked /\ SearchLimit \in Nat
<1> DEFINE prop == SearchSchema.properties["limit"]
           num  == Params["limit"].num
<1>1. /\ call.tool \in DOMAIN ReadOnlyTools /\ call.tool \in DefsFor(call.env.role)
      /\ answer = NoAnswer
      BY DEF ToolsInv, CallIsAdmitted, AnswerAtTheEnd
<1>2. /\ call.tool \in DOMAIN Registry
      /\ Registry[call.tool].schema = SearchSchema
      BY <1>1, ToolNames DEF DefsFor, ReadOnlyTools
<1>3. \A n \in DOMAIN Params : IsValue(Params[n])
      BY DEF VerdictStands, JsonInputs, Params
<1>4. ValidateParams(SearchSchema, Params, saturates)
      BY <1>1, <1>2, NotInvalid DEF VerdictStands, Known
<1>5. /\ prop.type = "integer"
      /\ "minimum" \in DOMAIN prop /\ prop.minimum = 1
      /\ "maximum" \in DOMAIN prop /\ prop.maximum = MaxCatalogLimit
      BY DEF SearchSchema
<1>6. /\ MaxCatalogLimit \in Nat \ {0}
      /\ DefaultCatalogLimit \in Nat /\ 1 <= DefaultCatalogLimit
      BY ToolInputAssumption, ToolsAssumption
<1>7. CASE "limit" \notin DOMAIN Params
    <2>1. ~(1 <= 0) /\ 0 <= 0
          OBVIOUS
    <2>2. SearchLimit = DefaultCatalogLimit /\ Asked = DefaultCatalogLimit
          BY <1>7, <2>1 DEF SearchLimit, Asked
    <2> QED BY <1>6, <2>2
<1>8. CASE "limit" \in DOMAIN Params
    <2>1. CheckType(prop, Params["limit"], saturates)
          BY <1>4, <1>8 DEF ValidateParams
    <2>2. /\ Is("num", Params["limit"])
          /\ Float(num) = Float(2 * Int64(Float(num), saturates))
          /\ CheckNumericBounds(prop, Float(num))
        <3> HIDE DEF prop
        <3>1. PICK p, v, s : p = prop /\ v = Params["limit"] /\ s = saturates
              OBVIOUS
        <3>2. CheckType(p, v, s) /\ p.type = "integer"
              BY <1>5, <2>1, <3>1
        <3>3. /\ Is("num", v)
              /\ Float(v.num) = Float(2 * Int64(Float(v.num), s))
              /\ CheckNumericBounds(p, Float(v.num))
              BY <3>2, CheckTypeIs
        <3> QED BY <3>1, <3>3
    <2>3. Float(num) >= 2 /\ Float(num) <= 2 * MaxCatalogLimit
        <3> HIDE DEF prop
        <3>1. Float(num) >= 2 * prop.minimum /\ Float(num) <= 2 * prop.maximum
              BY <1>5, <2>2 DEF CheckNumericBounds
        <3> QED BY <1>5, <3>1
    <2>4. num \in Int /\ -Largest <= num /\ num <= Largest
          BY <1>3, <1>8, <2>2 DEF IsValue
    <2> HIDE DEF num, prop
    <2>5. Float(num) \in Int /\ num >= 0
          BY <2>3, <2>4, FloatIs
    <2>6. Float(num) < 2 ^ Precision
          BY <1>6, <2>3, <2>5, FloatParameters DEF LimitIsSmall
    <2>7. Float(num) = num
          BY <2>4, <2>5, <2>6, SmallFloat
    <2>8. num \in 2 * MinInt64 .. 2 * MaxInt64 /\ Exact(num)
          BY <1>6, <2>3, <2>4, <2>5, <2>7, FloatParameters DEF LimitIsSmall, Exact
    <2>9. num % 2 = 0 /\ 2 * Int64(Float(num), saturates) = num
          BY <2>2, <2>8, IntegerTest
    <2>10. IntegerParam("limit") = Int64(Float(num), saturates)
          BY DEF IntegerParam, num
    <2>11. /\ num \div 2 \in Nat /\ 2 * (num \div 2) = num
          BY <2>4, <2>5, <2>9
    <2>12. PICK m \in Nat : m = num \div 2
          BY <2>11
    <2>13. m >= 1 /\ m <= MaxCatalogLimit
          BY <1>6, <2>3, <2>7, <2>11, <2>12
    <2>14. IntegerParam("limit") = m
        <3>1. IntegerParam("limit") \in Int
              BY <2>7, <2>8, <2>10, Int64Ends, Int64Fits, FloatParameters DEF Whole
        <3> QED BY <2>9, <2>10, <2>11, <2>12, <3>1
    <2>15. Asked = m
          BY <1>8, <2>12 DEF Asked, num
    <2>16. SearchLimit = m
        <3>1. ~(m <= 0) /\ Min2(m, MaxCatalogLimit) = m
              BY <1>6, <2>13 DEF Min2
        <3> QED BY <1>8, <2>14, <3>1 DEF SearchLimit
    <2> QED BY <2>15, <2>16
<1> QED BY <1>7, <1>8

\* An answer of a search is what the tables held at one moment.
SearchHeld(k) ==
    LET Matching == {db[k].catalog[r] : r \in Selected(db[k])}
    IN  /\ answer.found \subseteq Matching
        /\ Cardinality(answer.found) <= Asked
        /\ Cardinality(answer.found) = Asked \/ answer.found = Matching

SearchInv ==
    pc = "done" /\ call.tool = "search_catalog" /\ GotResult =>
        \E k \in call.at .. Len(db) : SearchHeld(k)

\* SearchIsComplete, in the words of this module.
LEMMA SearchIs == SearchInv => SearchIsComplete
BY DEF SearchInv, SearchHeld, SearchIsComplete, Ended, Asked

\* Which rows a search selects is up to its call alone.
LEMMA SameRows ==
    ASSUME call' = call
    PROVE  Asked' = Asked /\ \A d : Selected(d)' = Selected(d)
BY DEF Asked, Selected, TextParam, Params

\* What an answer was stays so while the entry of the tables does.
LEMMA SearchHeldStays ==
    ASSUME NEW k, UNCHANGED <<call, answer>>, db'[k] = db[k], SearchHeld(k)
    PROVE  SearchHeld(k)'
BY SameRows DEF SearchHeld

\* Every step keeps it: the read of a search is complete, and answers once given are kept.
LEMMA SearchStep ==
    ASSUME PowersDouble, JsonInputs, LimitIsSmall,
           ToolsInv, VerdictStands, CurrentInv, SearchInv, [ToolsNext]_toolVars
    PROVE  SearchInv'
<1>1. Len(db) \in Nat \ {0} /\ Len(db) \in 1 .. Len(db)
      BY DEF CurrentInv, HistoryGrows
<1>2. ASSUME "found" \notin DOMAIN answer' PROVE SearchInv'
      BY <1>2 DEF SearchInv, GotResult
<1>3. ASSUME NEW env \in Envs, NEW c \in Calls, Execute(env, c[1], c[2])
      PROVE  SearchInv'
    <2> DEFINE verdict == Verdict(env, c[1], c[2])
    <2>1. call'.tool = c[1]
          BY <1>3 DEF Execute
    <2>2. CASE verdict = "none" /\ c[1] \in DOMAIN ReadOnlyTools
          BY <1>3, <2>2 DEF Execute, SearchInv
    <2>3. CASE ~(verdict = "none" /\ c[1] \in DOMAIN ReadOnlyTools)
        <3>1. answer' = IF verdict = "none" THEN Found("done") ELSE Refused(verdict)
              BY <1>3, <2>3 DEF Execute
        <3>2. CASE verdict = "none"
              BY <2>1, <2>3, <3>2, ToolNames DEF SearchInv
        <3>3. CASE verdict # "none"
              BY <1>2, <3>1, <3>3, ShownIs
        <3> QED BY <3>2, <3>3
    <2> QED BY <2>2, <2>3
<1>4. CASE StatementFails
      BY <1>2, <1>4, ShownIs DEF StatementFails, Ends
<1>5. CASE ReadOnce
    <2>1. /\ pc = "read" /\ UNCHANGED <<db, call>>
          BY <1>5 DEF ReadOnce
    <2>2. SUFFICES ASSUME call.tool = "search_catalog" PROVE SearchInv'
          BY <2>1 DEF SearchInv
    <2>3. answer' = SearchCatalog(Now)
          BY <1>5, <2>2 DEF ReadOnce, Ends
    <2>4. SearchLimit = Asked /\ SearchLimit \in Nat
          BY <2>1, <2>2, LimitAsked DEF CurrentInv
    <2>5. PICK k : k = Len(db)
          OBVIOUS
    <2>6. Now = db[k] /\ IsTables(Now)
          BY <1>1, <2>5 DEF CurrentInv, HistoryGrows, Now
    <2>7. PICK found : /\ SearchCatalog(Now) = Found(found)
                       /\ found \subseteq {Now.catalog[r] : r \in Selected(Now)}
                       /\ Cardinality(found) <= SearchLimit
                       /\ \/ Cardinality(found) = SearchLimit
                          \/ found = {Now.catalog[r] : r \in Selected(Now)}
          BY <2>4, <2>6, SearchHolds
    <2>8. answer'.found = found
          BY <2>3, <2>7, ShownIs
    <2>9. SearchHeld(k)'
          BY <2>1, <2>4, <2>6, <2>7, <2>8, SameRows DEF SearchHeld
    <2>10. k \in call'.at .. Len(db')
          BY <1>1, <2>1, <2>5 DEF CurrentInv
    <2> QED BY <2>9, <2>10 DEF SearchInv
<1>6. CASE ReadOrder
      BY <1>6 DEF ReadOrder, Ends, SearchInv
<1>7. CASE ReadItems
    <2>1. call.tool # "search_catalog" /\ call' = call
          BY <1>7 DEF ReadItems, ToolsInv, HeaderIsVisible
    <2> QED BY <2>1 DEF SearchInv
<1>8. CASE Taken
      BY <1>8 DEF Taken, SearchInv
<1>9. CASE Write
    <2>1. /\ Len(db') = Len(db) + 1
          /\ \A k \in 1 .. Len(db) : db'[k] = db[k]
          BY <1>9, WriteGrows DEF CurrentInv
    <2>2. UNCHANGED <<saturates, pc, call, header, answer>>
          BY <1>9 DEF Write
    <2>3. SUFFICES ASSUME pc = "done", call.tool = "search_catalog", GotResult
                   PROVE  \E k \in call'.at .. Len(db') : SearchHeld(k)'
          BY <2>2 DEF SearchInv, GotResult
    <2>4. PICK k \in call.at .. Len(db) : SearchHeld(k)
          BY <2>3 DEF SearchInv
    <2>5. call.at \in 1 .. Len(db)
          BY <2>3 DEF CurrentInv
    <2>6. k \in 1 .. Len(db) /\ k \in call'.at .. Len(db')
          BY <1>1, <2>1, <2>2, <2>5
    <2>7. SearchHeld(k)'
          BY <2>1, <2>2, <2>4, <2>6, SearchHeldStays
    <2> QED BY <2>6, <2>7
<1>10. CASE UNCHANGED toolVars
    <2>1. UNCHANGED <<db, pc, call, answer>>
          BY <1>10 DEF toolVars
    <2>2. SUFFICES ASSUME pc = "done", call.tool = "search_catalog", GotResult
                   PROVE  \E k \in call'.at .. Len(db') : SearchHeld(k)'
          BY <2>1 DEF SearchInv, GotResult
    <2>3. PICK k \in call.at .. Len(db) : SearchHeld(k)
          BY <2>2 DEF SearchInv
    <2>4. SearchHeld(k)'
          BY <2>1, <2>3, SearchHeldStays
    <2> QED BY <2>1, <2>3, <2>4
<1> QED BY <1>3, <1>4, <1>5, <1>6, <1>7, <1>8, <1>9, <1>10 DEF ToolsNext

\* SearchIsComplete: a search holds no more rows than were asked for, and if it
\* holds fewer, it holds every row that matched at one moment of the call.
THEOREM SearchTheorem ==
    ASSUME PowersDouble, JsonInputs, LimitIsSmall, IsTables(InitialDb)
    PROVE  ToolsSpec => []SearchIsComplete
<1>1. ToolsInit => VerdictStands
      BY DEF ToolsInit, VerdictStands
<1>2. ToolsInit => CurrentInv
      BY CurrentInit
<1>3. ToolsInit => SearchInv
      BY DEF ToolsInit, SearchInv
<1>4. ToolsInv /\ VerdictStands /\ CurrentInv /\ [ToolsNext]_toolVars => CurrentInv'
      BY CurrentStep
<1>5. ToolsInv /\ VerdictStands /\ CurrentInv /\ SearchInv /\ [ToolsNext]_toolVars => SearchInv'
      BY SearchStep
<1> QED BY <1>1, <1>2, <1>3, <1>4, <1>5, SearchIs, VerdictStep, ToolsInvariant, PTL DEF ToolsSpec
==============================================================================
