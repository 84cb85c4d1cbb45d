------------------------ MODULE TopologyPlanner_proofs ------------------------
(***************************************************************************)
(* The loop run step by step computes the plans of the operator, pass by    *)
(* pass and Slot by Slot, so it never gives out an ID twice, keeps every    *)
(* occupied Slot, drops the highest IDs first, and plans as many Slots as   *)
(* are asked for unless it gives a reason.                                  *)
(*                                                                         *)
(* That the plan at the end is the operator's says nothing of the states    *)
(* before; LoopInv says where the loop is (todo is what is left of the      *)
(* names) and which of the operator's plans it has by then.  What the plan  *)
(* satisfies on the way, Good, is then a fact about the operators           *)
(* (TopologyPlan_proofs) and not a second induction.                        *)
(***************************************************************************)
EXTENDS TopologyPlanner, TopologyPlan_proofs

Template == [profiles |-> Profiles, current |-> current, counts |-> counts, known |-> known, busy |-> busy]
Names    == OrderedProfiles(order, current)
Passes   == Plans(current, counts, known, busy, Names)
Passed   == Len(Names) - Len(todo)
Lacking  == Want - Cardinality(Existing)

InputsOK ==
  /\ TemplateOK(Template) /\ NamesOK(Template, Names)
  /\ known \in SUBSET Profiles /\ busy \in SUBSET Nat

TodoIsRest ==
  /\ todo \in Seq(Profiles) /\ Len(todo) <= Len(Names)
  /\ \A i \in 1 .. Len(todo) : todo[i] = Names[Passed + i]

BetweenPasses == missing = 0 => plan = Passes[Passed]

WithinPass ==
  missing > 0 =>
    /\ todo # <<>> /\ (Head(todo) \in known \/ Want = 0)
    /\ missing <= Lacking
    /\ plan = Additions(KeepExisting(Passes[Passed], Existing), Head(todo), Lacking)[Lacking - missing]

LoopInv == InputsOK /\ TodoIsRest /\ missing \in Nat /\ BetweenPasses /\ WithinPass

-----------------------------------------------------------------------------
LEMMA TemplateFields ==
  /\ Template.profiles = Profiles /\ Template.current = current /\ Template.counts = counts
  /\ Template.known = known /\ Template.busy = busy
  /\ Existing = Has(Template, Head(todo)) /\ Want = Wants(Template, Head(todo))
BY DEF Template, Has, Wants, Existing, Want

\* The loop starts before the first pass.
LEMMA InitLoop == Init => LoopInv
<1> SUFFICES ASSUME Init PROVE LoopInv
  OBVIOUS
<1>1. /\ current \in SUBSET SlotsOver(Profiles) /\ UniqueIds(current)
      /\ known \in SUBSET Profiles /\ busy \in SUBSET Nat
  BY PlannerConstants DEF Init, SlotsOver
<1>2. IsFiniteSet(current)
  <2> DEFINE f == [c \in current |-> c.id]
  <2>1. f \in Injection(current, 0 .. MaxId)
    BY <1>1 DEF Init, UniqueIds, Injection, IsInjective
  <2>2. IsFiniteSet(0 .. MaxId)
    BY FS_Interval, PlannerConstants
  <2> HIDE DEF f
  <2> QED
    BY <2>1, <2>2, FS_Injection
<1>3. DOMAIN counts \in SUBSET Profiles /\ \A p \in DOMAIN counts : counts[p] \in Nat
  BY PlannerConstants DEF Init
<1>4. TemplateOK(Template)
  BY <1>1, <1>2, <1>3, TemplateFields DEF TemplateOK
<1>5. /\ Cardinality(DOMAIN counts) \in Nat /\ order \in [1 .. Cardinality(DOMAIN counts) -> DOMAIN counts]
      /\ IsInjective(order) /\ ToSet(order) = DOMAIN counts
  <2>1. IsFiniteSet(DOMAIN counts) /\ order \in SetToSeqs(DOMAIN counts)
    BY <1>3, PlannerConstants, FS_Subset DEF Init
  <2> QED
    BY <2>1, Listing
<1>6. order \in Seq(Profiles)
  BY <1>3, <1>5
<1>7. NamesOK(Template, Names)
  BY <1>4, <1>5, <1>6, OrderedProfilesOK, TemplateFields, PlannerConstants DEF Names
<1>8. Names \in Seq(Profiles) /\ todo = Names /\ missing = 0 /\ plan = StartPlan(current)
  BY <1>7, TemplateFields DEF NamesOK, Init, Names
<1>9. Passed = 0
  BY <1>8 DEF Passed
<1>10. TodoIsRest
  BY <1>8, <1>9 DEF TodoIsRest
<1>11. plan = Passes[Passed]
  <2>1. Len(Names) \in Nat
    BY <1>8
  <2> QED
    BY <2>1, <1>8, <1>9, PlansDef DEF Passes
<1> QED
  BY <1>1, <1>4, <1>7, <1>8, <1>10, <1>11 DEF LoopInv, InputsOK, BetweenPasses, WithinPass

\* Where the loop is when there is a profile at the head of the list.
LEMMA AtHead ==
  ASSUME LoopInv, todo # <<>>
  PROVE  /\ Passed \in Nat /\ Passed + 1 \in 1 .. Len(Names) /\ Head(todo) = Names[Passed + 1]
         /\ Head(todo) \in Profiles
         /\ Cardinality(Existing) \in Nat /\ Want \in Nat
         /\ Passes[Passed + 1] = PlanProfile(Passes[Passed], Head(todo), current, counts, known, busy)
         /\ Tail(todo) \in Seq(Profiles) /\ Len(Tail(todo)) = Len(todo) - 1
         /\ \A i \in 1 .. Len(Tail(todo)) : Tail(todo)[i] = Names[(Passed + 1) + i]
<1>1. Names \in Seq(Profiles) /\ Len(Names) \in Nat
  BY TemplateFields DEF LoopInv, InputsOK, NamesOK
<1>2. /\ todo \in Seq(Profiles) /\ Len(todo) \in Nat /\ Len(todo) > 0 /\ Len(todo) <= Len(Names)
      /\ Head(todo) = todo[1] /\ Head(todo) \in Profiles
      /\ Tail(todo) \in Seq(Profiles) /\ Len(Tail(todo)) = Len(todo) - 1
      /\ \A i \in 1 .. Len(todo) - 1 : Tail(todo)[i] = todo[i + 1]
  BY DEF LoopInv, TodoIsRest
<1>3. /\ Passed \in Nat /\ Passed + 1 \in 1 .. Len(Names) /\ (Passed + 1) - 1 = Passed
  BY <1>1, <1>2 DEF Passed
<1>4. \A i \in 1 .. Len(todo) : todo[i] = Names[Passed + i]
  BY DEF LoopInv, TodoIsRest
<1>5. Head(todo) = Names[Passed + 1]
  BY <1>2, <1>4
<1>6. Cardinality(Existing) \in Nat /\ Want \in Nat
  BY ProfileFacts, TemplateFields DEF LoopInv, InputsOK
<1>7. Passes[Passed + 1] = PlanProfile(Passes[Passed], Head(todo), current, counts, known, busy)
  <2>1. \A k \in 1 .. Len(Names) :
          Passes[k] = PlanProfile(Passes[k - 1], Names[k], current, counts, known, busy)
    BY <1>1, PlansDef DEF Passes
  <2>2. Passes[Passed + 1] =
          PlanProfile(Passes[(Passed + 1) - 1], Names[Passed + 1], current, counts, known, busy)
    BY <1>3, <2>1
  <2> QED
    BY <1>3, <1>5, <2>2
<1>8. ASSUME NEW i \in 1 .. Len(Tail(todo)) PROVE Tail(todo)[i] = Names[(Passed + 1) + i]
  <2>1. i + 1 \in 1 .. Len(todo) /\ Passed + (i + 1) = (Passed + 1) + i /\ Tail(todo)[i] = todo[i + 1]
    BY <1>2, <1>3
  <2> QED
    BY <1>4, <2>1
<1> QED
  BY <1>2, <1>3, <1>5, <1>6, <1>7, <1>8

\* A pass that ends leaves the operator's next plan.
LEMMA PassEnds ==
  ASSUME LoopInv, todo # <<>>, UNCHANGED inputs, todo' = Tail(todo), missing' = 0,
         plan' = PlanProfile(Passes[Passed], Head(todo), current, counts, known, busy)
  PROVE  LoopInv'
<1>1. InputsOK' /\ Names' = Names /\ Passes' = Passes
  BY DEF LoopInv, InputsOK, inputs, Template, Names, Passes
<1>2. Passed' = Passed + 1 /\ Len(todo') <= Len(Names)
  <2>1. Len(Names) \in Nat /\ Len(todo) \in Nat /\ Len(todo') = Len(todo) - 1 /\ Len(todo) <= Len(Names)
    BY AtHead DEF LoopInv, InputsOK, NamesOK, TodoIsRest
  <2> QED
    BY <1>1, <2>1 DEF Passed
<1>3. TodoIsRest'
  BY <1>1, <1>2, AtHead DEF TodoIsRest
<1>4. plan' = Passes'[Passed']
  BY <1>1, <1>2, AtHead
<1> QED
  BY <1>1, <1>3, <1>4 DEF LoopInv, BetweenPasses, WithinPass

\* A pass that goes on has the operator's plan with some of its Slots added.
LEMMA PassGoesOn ==
  ASSUME LoopInv, todo # <<>>, UNCHANGED inputs, todo' = todo, missing' \in Nat, missing' > 0,
         Head(todo) \in known \/ Want = 0, missing' <= Lacking,
         plan' = Additions(KeepExisting(Passes[Passed], Existing), Head(todo), Lacking)[Lacking - missing']
  PROVE  LoopInv'
<1>1. InputsOK' /\ Names' = Names /\ Passes' = Passes
  BY DEF LoopInv, InputsOK, inputs, Template, Names, Passes
<1>2. /\ Passed' = Passed /\ TodoIsRest' /\ Existing' = Existing /\ Want' = Want /\ Lacking' = Lacking
      /\ known' = known
  BY <1>1 DEF LoopInv, TodoIsRest, Passed, inputs, Existing, Want, Lacking
<1>3. WithinPass'
  BY <1>1, <1>2 DEF WithinPass
<1> QED
  BY <1>1, <1>2, <1>3 DEF LoopInv, BetweenPasses

\* The operator's pass over the profile at the head, case by case.
LEMMA HeadPass ==
  ASSUME LoopInv, todo # <<>>
  PROVE  LET next == PlanProfile(Passes[Passed], Head(todo), current, counts, known, busy)
         IN  /\ Head(todo) \notin known /\ Want > 0 => next = KeepUnknown(Passes[Passed], Head(todo), Existing)
             /\ (Head(todo) \in known \/ Want = 0) /\ Cardinality(Existing) > Want =>
                  next = DropSurplus(Passes[Passed], Existing, Want, busy)
             /\ (Head(todo) \in known \/ Want = 0) /\ Cardinality(Existing) <= Want =>
                  next = Additions(KeepExisting(Passes[Passed], Existing), Head(todo), Lacking)[Lacking]
<1> DEFINE next == PlanProfile(Passes[Passed], Head(todo), current, counts, known, busy)
<1>1. Cardinality(Existing) \in Nat /\ Want \in Nat
  BY AtHead
<1>2. next = IF Head(todo) \notin known /\ Want > 0 THEN KeepUnknown(Passes[Passed], Head(todo), Existing)
             ELSE IF Lacking < 0 THEN DropSurplus(Passes[Passed], Existing, Want, busy)
             ELSE Additions(KeepExisting(Passes[Passed], Existing), Head(todo), Lacking)[Lacking]
  BY Zenon DEF PlanProfile, Existing, Want, Lacking
<1>3. /\ Lacking < 0 <=> Cardinality(Existing) > Want
      /\ Cardinality(Existing) <= Want <=> ~(Lacking < 0)
      /\ Want = 0 <=> ~(Want > 0)
  BY <1>1 DEF Lacking
<1> HIDE DEF next
<1>4. /\ Head(todo) \notin known /\ Want > 0 => next = KeepUnknown(Passes[Passed], Head(todo), Existing)
      /\ (Head(todo) \in known \/ Want = 0) /\ Cardinality(Existing) > Want =>
           next = DropSurplus(Passes[Passed], Existing, Want, busy)
      /\ (Head(todo) \in known \/ Want = 0) /\ Cardinality(Existing) <= Want =>
           next = Additions(KeepExisting(Passes[Passed], Existing), Head(todo), Lacking)[Lacking]
  BY <1>2, <1>3
<1> QED
  BY <1>4 DEF next

LEMMA VisitGrowLoop ==
  ASSUME LoopInv, VisitGrow
  PROVE  LoopInv'
<1> DEFINE kept  == KeepExisting(Passes[Passed], Existing)
           added == Additions(kept, Head(todo), Lacking)
<1>1. /\ todo # <<>> /\ missing = 0 /\ UNCHANGED inputs /\ plan = Passes[Passed]
      /\ (Head(todo) \in known \/ Want = 0) /\ Cardinality(Existing) <= Want
      /\ plan' = kept /\ missing' = Lacking
      /\ todo' = IF missing' = 0 THEN Tail(todo) ELSE todo
  BY DEF VisitGrow, Visiting, LoopInv, BetweenPasses, Lacking
<1>2. Lacking \in Nat
  BY <1>1, AtHead DEF Lacking
<1>3. added[0] = kept
  BY <1>2, AdditionsDef
<1>4. CASE Lacking = 0
  <2>1. plan' = PlanProfile(Passes[Passed], Head(todo), current, counts, known, busy)
    <3>1. PlanProfile(Passes[Passed], Head(todo), current, counts, known, busy) = added[Lacking]
      BY <1>1, HeadPass
    <3> HIDE DEF kept, added
    <3> QED
      BY <1>1, <1>3, <1>4, <3>1
  <2> QED
    BY <1>1, <1>4, <2>1, PassEnds
<1>5. CASE Lacking > 0
  <2>1. Lacking - missing' = 0 /\ missing' <= Lacking /\ missing' > 0 /\ missing' \in Nat /\ todo' = todo
    BY <1>1, <1>2, <1>5
  <2>2. plan' = added[Lacking - missing']
    <3> HIDE DEF kept, added
    <3> QED
      BY <1>1, <1>3, <2>1
  <2> QED
    BY <1>1, <2>1, <2>2, PassGoesOn
<1> QED
  BY <1>2, <1>4, <1>5

LEMMA AddMissingLoop ==
  ASSUME LoopInv, AddMissing
  PROVE  LoopInv'
<1> DEFINE added == Additions(KeepExisting(Passes[Passed], Existing), Head(todo), Lacking)
<1>1. /\ todo # <<>> /\ missing \in Nat /\ missing > 0 /\ UNCHANGED inputs
      /\ (Head(todo) \in known \/ Want = 0) /\ missing <= Lacking
      /\ plan = added[Lacking - missing]
      /\ plan' = AddSlot(plan, Head(todo)) /\ missing' = missing - 1
      /\ todo' = IF missing' = 0 THEN Tail(todo) ELSE todo
  BY DEF AddMissing, LoopInv, WithinPass
<1>2. Lacking \in Nat /\ Cardinality(Existing) <= Want
  BY <1>1, AtHead DEF Lacking
<1>3. /\ Lacking - missing' \in 1 .. Lacking /\ (Lacking - missing') - 1 = Lacking - missing
      /\ missing' \in Nat /\ missing' <= Lacking
  BY <1>1, <1>2
<1>4. plan' = added[Lacking - missing']
  <2>1. \A k \in 1 .. Lacking : added[k] = AddSlot(added[k - 1], Head(todo))
    BY <1>2, AdditionsDef
  <2> HIDE DEF added
  <2>2. added[Lacking - missing'] = AddSlot(added[(Lacking - missing') - 1], Head(todo))
    BY <1>3, <2>1
  <2> QED
    BY <1>1, <1>3, <2>2
<1>5. CASE missing' = 0
  <2>1. plan' = PlanProfile(Passes[Passed], Head(todo), current, counts, known, busy)
    <3>1. PlanProfile(Passes[Passed], Head(todo), current, counts, known, busy) = added[Lacking]
      BY <1>1, <1>2, HeadPass
    <3>2. Lacking - missing' = Lacking
      BY <1>2, <1>5
    <3> HIDE DEF added
    <3> QED
      BY <1>4, <3>1, <3>2
  <2> QED
    BY <1>1, <1>5, <2>1, PassEnds
<1>6. CASE missing' > 0
  <2>1. todo' = todo
    BY <1>1, <1>6
  <2> QED
    BY <1>1, <1>3, <1>4, <1>6, <2>1, PassGoesOn
<1> QED
  BY <1>3, <1>5, <1>6

\* LoopInv is inductive.
LEMMA LoopInvariant == Spec => []LoopInv
<1>1. ASSUME LoopInv, [Next]_vars PROVE LoopInv'
  <2>1. CASE VisitUnknown
    <3>1. /\ todo # <<>> /\ missing' = 0 /\ UNCHANGED inputs /\ todo' = Tail(todo)
          /\ Head(todo) \notin known /\ Want > 0 /\ plan' = KeepUnknown(Passes[Passed], Head(todo), Existing)
      BY <1>1, <2>1 DEF VisitUnknown, Visiting, LoopInv, BetweenPasses
    <3>2. plan' = PlanProfile(Passes[Passed], Head(todo), current, counts, known, busy)
      BY <1>1, <3>1, HeadPass
    <3> QED
      BY <1>1, <3>1, <3>2, PassEnds
  <2>2. CASE VisitShrink
    <3>1. /\ todo # <<>> /\ missing' = 0 /\ UNCHANGED inputs /\ todo' = Tail(todo)
          /\ (Head(todo) \in known \/ Want = 0) /\ Cardinality(Existing) > Want
          /\ plan' = DropSurplus(Passes[Passed], Existing, Want, busy)
      BY <1>1, <2>2 DEF VisitShrink, Visiting, LoopInv, BetweenPasses
    <3>2. plan' = PlanProfile(Passes[Passed], Head(todo), current, counts, known, busy)
      BY <1>1, <3>1, HeadPass
    <3> QED
      BY <1>1, <3>1, <3>2, PassEnds
  <2>3. CASE VisitGrow
    BY <1>1, <2>3, VisitGrowLoop
  <2>4. CASE AddMissing
    BY <1>1, <2>4, AddMissingLoop
  <2>5. CASE UNCHANGED vars
    BY <1>1, <2>5 DEF vars, inputs, LoopInv, InputsOK, Template, Names, TodoIsRest, Passed, BetweenPasses, Passes,
       WithinPass, Existing, Want, Lacking
  <2> QED
    BY <1>1, <2>1, <2>2, <2>3, <2>4, <2>5 DEF Next
<1> QED
  BY <1>1, InitLoop, PTL DEF Spec

-----------------------------------------------------------------------------
(* What the plan satisfies on the way.                                      *)

Left == After(Names, IF missing = 0 THEN Passed ELSE Passed + 1)

LEMMA AlwaysGood ==
  ASSUME LoopInv
  PROVE  Good(Template, Left, plan, Head(todo), missing)
<1>1. /\ TemplateOK(Template) /\ NamesOK(Template, Names) /\ missing \in Nat
      /\ Len(Names) \in Nat /\ Len(todo) \in Nat /\ Len(todo) <= Len(Names)
  BY DEF LoopInv, InputsOK, NamesOK, TodoIsRest
<1>2. Passed \in 0 .. Len(Names)
  BY <1>1 DEF Passed
<1>3. Good(Template, After(Names, Passed), Passes[Passed], Head(todo), 0)
  BY <1>1, <1>2, PassesAreGood, TemplateFields DEF Passes
<1>4. CASE missing = 0
  BY <1>3, <1>4 DEF LoopInv, BetweenPasses, Left
<1>5. CASE missing > 0
  <2> DEFINE L     == After(Names, Passed)
             h     == Head(todo)
             kept  == KeepExisting(Passes[Passed], Existing)
             added == Additions(kept, h, Lacking)
  <2>1. /\ todo # <<>> /\ missing <= Lacking /\ plan = added[Lacking - missing]
    BY <1>5 DEF LoopInv, WithinPass
  <2>2. /\ Passed + 1 \in 1 .. Len(Names) /\ (Passed + 1) - 1 = Passed /\ h = Names[Passed + 1] /\ h \in Profiles
        /\ Cardinality(Existing) \in Nat /\ Want \in Nat
    BY <2>1, AtHead
  <2>3. h \in L /\ After(Names, Passed + 1) = L \ {h}
    <3>1. Names \in Seq(Profiles) /\ IsInjective(Names)
      BY <1>1, TemplateFields DEF NamesOK
    <3>2. /\ Names[Passed + 1] \in After(Names, (Passed + 1) - 1)
          /\ After(Names, Passed + 1) = After(Names, (Passed + 1) - 1) \ {Names[Passed + 1]}
      BY <2>2, <3>1, AfterNext
    <3> QED
      BY <2>2, <3>2
  <2>4. Lacking \in Nat /\ Cardinality(Existing) <= Want
    BY <1>1, <1>5, <2>1, <2>2 DEF Lacking
  <2>5. Good(Template, L \ {h}, kept, h, Lacking)
    <3> HIDE DEF L, h
    <3>1. Existing = Has(Template, h) /\ Want = Wants(Template, h) /\ Template.profiles = Profiles
      BY TemplateFields DEF h
    <3>2. Good(Template, L \ {h}, KeepExisting(Passes[Passed], Has(Template, h)), h,
               Wants(Template, h) - Cardinality(Has(Template, h)))
      BY <1>1, <1>3, <2>2, <2>3, <2>4, <3>1, KeepIsGood DEF L
    <3> QED
      BY <3>1, <3>2 DEF Lacking
  <2> HIDE DEF L, h, kept
  <2>6. Good(Template, L \ {h}, added[Lacking - missing], h, Lacking - (Lacking - missing))
    <3>1. Lacking - missing \in 0 .. Lacking
      BY <1>1, <2>1, <2>4
    <3> QED
      BY <1>1, <2>4, <2>5, <3>1, AdditionsAreGood
  <2>7. Lacking - (Lacking - missing) = missing
    BY <1>1, <2>4
  <2>8. Left = L \ {h}
    BY <1>1, <1>5, <2>3 DEF Left
  <2> HIDE DEF added
  <2> QED
    BY <2>1, <2>6, <2>7, <2>8 DEF h
<1> QED
  BY <1>1, <1>4, <1>5

\* Once every profile has been visited no Slot is yet to come and none missing.
LEMMA AtTheEnd ==
  ASSUME LoopInv, Done
  PROVE  missing = 0 /\ Left = {} /\ Rest(Template, Left) = {} /\ plan = Passes[Len(Names)]
<1>1. missing = 0 /\ todo = <<>>
  BY DEF LoopInv, WithinPass, Done
<1>2. Len(Names) \in Nat /\ Passed = Len(Names)
  BY <1>1 DEF LoopInv, InputsOK, NamesOK, Passed
<1>3. Left = {}
  BY <1>1, <1>2 DEF Left, After
<1> QED
  BY <1>1, <1>2, <1>3 DEF Rest, LoopInv, BetweenPasses

-----------------------------------------------------------------------------
(* The results.                                                             *)

\* PlanTopology's plan stays well-typed: no step invents an ID below zero or
\* a Slot of an undefined profile.
THEOREM PlanTypeCorrect == Spec => []TypeOK
<1>1. LoopInv => TypeOK
  <2> SUFFICES ASSUME LoopInv PROVE TypeOK
    OBVIOUS
  <2>1. plan \in PlansOver(Profiles)
    BY AlwaysGood, TemplateFields DEF Good
  <2>2. current \in SUBSET SlotsOver(Profiles)
    BY TemplateFields DEF LoopInv, InputsOK, TemplateOK
  <2> QED
    BY <2>1, <2>2 DEF LoopInv, InputsOK, TypeOK, Config, Plan, SlotsOver, PlansOver
<1> QED
  BY <1>1, LoopInvariant, PTL

\* nextFreeID and usedIDs never give one ID to two Slots, whatever holes the
\* profiles before have left, for any number of profiles and Slots.
THEOREM PlansHaveUniqueIds == Spec => []PlanUniqueIds
<1>1. LoopInv => PlanUniqueIds
  BY AlwaysGood DEF Good, IdsInUse, UniqueIds, PlanUniqueIds
<1> QED
  BY <1>1, LoopInvariant, PTL

\* PlanTopology never drops a Slot that is occupied on some Worker.
THEOREM PlansKeepBusySlots == Spec => []PlanKeepsBusy
<1>1. LoopInv => PlanKeepsBusy
  BY AlwaysGood, AtTheEnd, TemplateFields DEF Good, KeepsBusy, PlanKeepsBusy
<1> QED
  BY <1>1, LoopInvariant, PTL

\* Of a profile with too many Slots the free ones with the highest IDs go.
THEOREM PlansDropHighestFirst == Spec => []DropsHighestFirst
<1>1. LoopInv => DropsHighestFirst
  BY AlwaysGood, AtTheEnd, TemplateFields DEF Good, HighestFirst, DropsHighestFirst
<1> QED
  BY <1>1, LoopInvariant, PTL

\* A plan PlanTopology gives no reason against has exactly the Slots that the
\* template asks for, of every profile, those it does not name included.
THEOREM PlansMeetCounts == Spec => []PlanMeetsCounts
<1>1. LoopInv => PlanMeetsCounts
  <2> SUFFICES ASSUME LoopInv, Done, ~Blocked(plan), NEW p \in Profiles
               PROVE  Cardinality(OfProfile(plan.slots, p)) = Desired(counts, p)
    BY DEF PlanMeetsCounts
  <2>1. missing = 0 /\ Left = {} /\ plan.reasons = {}
    BY AtTheEnd DEF Blocked
  <2>2. Good(Template, {}, plan, Head(todo), 0)
    BY <2>1, AlwaysGood
  <2>3. Cardinality(OfProfile(plan.slots, p)) + (IF p = Head(todo) THEN 0 ELSE 0) = Wants(Template, p)
    BY <2>1, <2>2, TemplateFields DEF Good, Counted
  <2>4. Cardinality(OfProfile(plan.slots, p)) \in Nat
    BY <2>2, FS_Subset, FS_CardinalityType DEF Good, OfProfile
  <2> QED
    BY <2>3, <2>4, TemplateFields DEF Wants
<1> QED
  BY <1>1, LoopInvariant, PTL

\* The state machine ends with the plan that the operator gives the Pool
\* controller's model, so that the theorems above are about both.
LEMMA LoopIsOperator ==
  Spec => [](Done => plan = PlanTopology(current, counts, known, busy, OrderedProfiles(order, current)))
<1>1. LoopInv => (Done => plan = PlanTopology(current, counts, known, busy, OrderedProfiles(order, current)))
  BY AtTheEnd DEF PlanTopology, Passes, Names
<1> QED
  BY <1>1, LoopInvariant, PTL
=============================================================================
