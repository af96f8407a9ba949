------------------------- MODULE SecondFactorProofs -------------------------
(***************************************************************************)
(* What holds of SecondFactor for any limits, clock and processes.         *)
(*                                                                         *)
(* The limiter: a failure is off the record only when it has left the      *)
(* window or will have by the end of the lockout.  The two-factor file:    *)
(* who has read or emptied it and was not overtaken holds what the user    *)
(* was told, and an accepted code is on no list that can come back.  The   *)
(* sessions: a purge removes only what was over when it looked.            *)
(***************************************************************************)
EXTENDS SecondFactor, FiniteSetTheorems, TLAPS

LimiterTypeOK ==
    /\ now \in Nat /\ lockoutUntil \in Nat /\ level \in Nat
    /\ penalty \in Nat /\ penalty >= Window
    /\ attempts \subseteq 0..now /\ IsFiniteSet(attempts) /\ Cardinality(attempts) <= MaxAttempts
    /\ failures \subseteq 0..now /\ IsFiniteSet(failures) /\ now \notin failures
    /\ renewals \subseteq 0..now /\ IsFiniteSet(renewals)
    /\ bursts \in Nat /\ since \in 0..now

\* The failures since the last success or restart, and those before it.
Later == {f \in failures : \A r \in renewals : r <= f}
Earlier(a) == {f \in failures : f >= a /\ f \notin Later}
Renewed(a) == {r \in renewals : r >= a}

\* A failure since then that is no longer on record is out of the window by the end
\* of the lockout that took it off, or already now.
Remembered == \A f \in Later :
    f \in attempts \/ f + Window <= lockoutUntil \/ f + Window <= now

\* Each success and restart closes the account of at most one budget.
Accounted ==
    /\ Cardinality(Later) <= MaxAttempts
    /\ \A a \in Int : Cardinality(Earlier(a)) <= MaxAttempts * Cardinality(Renewed(a))

LimiterInv == LimiterTypeOK /\ Remembered /\ Accounted

-----------------------------------------------------------------------------
(* Lemmas *)

\* A part of a finite set has no more elements.
LEMMA Fewer ==
    ASSUME NEW S, NEW T, IsFiniteSet(T), S \subseteq T
    PROVE  IsFiniteSet(S) /\ Cardinality(S) \in Nat /\ Cardinality(T) \in Nat
           /\ Cardinality(S) <= Cardinality(T)
BY FS_Subset, FS_CardinalityType

\* An attempt more on record adds at most one to the recent ones.
LEMMA OneMore ==
    ASSUME NEW S, IsFiniteSet(S), NEW x
    PROVE  /\ IsFiniteSet(S \cup {x}) /\ Cardinality(S \cup {x}) \in Nat
           /\ Cardinality(S) \in Nat /\ Cardinality(S \cup {x}) <= Cardinality(S) + 1
           /\ x \notin S => Cardinality(S \cup {x}) = Cardinality(S) + 1
<1>1. IsFiniteSet(S \cup {x}) /\ Cardinality(S) \in Nat
  BY FS_AddElement, FS_CardinalityType
<1>2. Cardinality(S \cup {x}) = IF x \in S THEN Cardinality(S) ELSE Cardinality(S) + 1
  BY FS_AddElement
<1> QED BY <1>1, <1>2

\* Two finite sets have no more elements together than each for itself.
LEMMA Together ==
    ASSUME NEW S, NEW T, IsFiniteSet(S), IsFiniteSet(T)
    PROVE  /\ IsFiniteSet(S \cup T) /\ Cardinality(S \cup T) \in Nat
           /\ Cardinality(S) \in Nat /\ Cardinality(T) \in Nat
           /\ Cardinality(S \cup T) <= Cardinality(S) + Cardinality(T)
<1>1. IsFiniteSet(S \cup T) /\ IsFiniteSet(S \cap T)
  BY FS_Union, FS_Intersection
<1>2. Cardinality(S \cup T) = Cardinality(S) + Cardinality(T) - Cardinality(S \cap T)
  BY FS_Union
<1>3. Cardinality(S \cup T) \in Nat /\ Cardinality(S \cap T) \in Nat
      /\ Cardinality(S) \in Nat /\ Cardinality(T) \in Nat
  BY <1>1, FS_CardinalityType
<1> QED BY <1>1, <1>2, <1>3

\* More budgets allow no fewer failures, and one more allows as many again.
LEMMA Budgets ==
    ASSUME NEW m \in Nat, NEW k \in Nat, NEW n \in Nat
    PROVE  m * k \in Nat /\ (k <= n => m * k <= m * n) /\ m * (k + 1) = m * k + m
           /\ m * (1 + k) = m + m * k
OBVIOUS

LEMMA Parts ==
    ASSUME LimiterTypeOK, NEW a \in Int
    PROVE  /\ IsFiniteSet(Later) /\ IsFiniteSet(Earlier(a)) /\ IsFiniteSet(Renewed(a))
           /\ Cardinality(Later) \in Nat /\ Cardinality(Earlier(a)) \in Nat
           /\ Cardinality(Renewed(a)) \in Nat
<1>1. Later \subseteq failures /\ Earlier(a) \subseteq failures /\ Renewed(a) \subseteq renewals
  BY DEF Later, Earlier, Renewed
<1> QED BY <1>1, Fewer DEF LimiterTypeOK

\* Whoever is in the window was not there before it began.
LEMMA WindowBegins ==
    ASSUME LimiterTypeOK, NEW a \in Int
    PROVE  \E b \in Int : \A t \in 0..now : (now - t < Window /\ t >= a) <=> t >= b
<1>0. Window \in Nat /\ now \in Nat
  BY Limits DEF LimiterTypeOK
<1>1. CASE a >= now - Window + 1
  <2>1. \A t \in 0..now : (now - t < Window /\ t >= a) <=> t >= a
    BY <1>0, <1>1
  <2> QED BY <2>1
<1>2. CASE a < now - Window + 1
  <2>1. now - Window + 1 \in Int
    BY <1>0
  <2>2. \A t \in 0..now : (now - t < Window /\ t >= a) <=> t >= now - Window + 1
    BY <1>0, <1>2
  <2> QED BY <2>1, <2>2
<1> QED BY <1>0, <1>1, <1>2

\* The failures are as many as those before and after the last renewal.
LEMMA BoundedByAccounts ==
    ASSUME LimiterInv
    PROVE  FailuresPerWindow
<1> SUFFICES ASSUME NEW a \in 0..MaxTime
             PROVE  Cardinality({f \in failures : f >= a})
                      <= MaxAttempts * (1 + Cardinality({r \in renewals : r >= a}))
  BY DEF FailuresPerWindow
<1>0. MaxAttempts \in Nat /\ a \in Int
  BY Limits, Bounds
<1>1. /\ IsFiniteSet(Later) /\ IsFiniteSet(Earlier(a)) /\ Cardinality(Later) \in Nat
      /\ Cardinality(Earlier(a)) \in Nat /\ Cardinality(Renewed(a)) \in Nat
  BY <1>0, Parts DEF LimiterInv
<1>2. {f \in failures : f >= a} \subseteq Earlier(a) \cup Later
  BY DEF Earlier
<1>3. IsFiniteSet(Earlier(a) \cup Later) /\ Cardinality(Earlier(a) \cup Later) \in Nat
      /\ Cardinality(Earlier(a) \cup Later) <= Cardinality(Earlier(a)) + Cardinality(Later)
  BY <1>1, Together
<1>4. Cardinality({f \in failures : f >= a}) \in Nat
      /\ Cardinality({f \in failures : f >= a}) <= Cardinality(Earlier(a) \cup Later)
  BY <1>2, <1>3, Fewer
<1>5. Cardinality(Earlier(a)) <= MaxAttempts * Cardinality(Renewed(a))
      /\ Cardinality(Later) <= MaxAttempts
  BY <1>0 DEF LimiterInv, Accounted
<1>6. MaxAttempts * Cardinality(Renewed(a)) \in Nat
      /\ MaxAttempts * (1 + Cardinality(Renewed(a)))
           = MaxAttempts + MaxAttempts * Cardinality(Renewed(a))
  BY <1>0, <1>1, Budgets
<1>7. Cardinality({f \in failures : f >= a}) <= MaxAttempts * (1 + Cardinality(Renewed(a)))
  BY <1>0, <1>1, <1>3, <1>4, <1>5, <1>6
<1> QED BY <1>7 DEF Renewed

\* What an attempt leaves of the history: types.
LEMMA ObservedTypes ==
    ASSUME LimiterTypeOK, NEW failed \in {{}, {now}}, NEW renewed \in {{}, {now}},
           Observed(failed, renewed), now' \in Nat, now' >= now, failed = {now} => now' = now + 1
    PROVE  /\ failures' \subseteq 0..now' /\ IsFiniteSet(failures') /\ now' \notin failures'
           /\ renewals' \subseteq 0..now' /\ IsFiniteSet(renewals')
           /\ bursts' \in Nat /\ since' \in 0..now'
<1>1. now \in Nat /\ now \in 0..now /\ 0..now \subseteq 0..now' /\ now' \in 0..now'
  BY DEF LimiterTypeOK
<1>2. Recent(failures) \subseteq failures /\ Recent(renewals) \subseteq renewals
  BY DEF Recent
<1>3. IsFiniteSet(Recent(failures)) /\ IsFiniteSet(Recent(renewals)) /\ IsFiniteSet({})
  BY <1>2, Fewer, FS_EmptySet DEF LimiterTypeOK
<1>4. IsFiniteSet(Recent(failures) \cup failed) /\ IsFiniteSet(Recent(renewals) \cup renewed)
  BY <1>3, OneMore
<1>5. failures' = Recent(failures) \cup failed
      /\ (renewals' = {} \/ renewals' = Recent(renewals) \cup renewed)
  BY DEF Observed
<1>6. failures' \subseteq 0..now /\ renewals' \subseteq 0..now
  BY <1>1, <1>2, <1>5 DEF LimiterTypeOK
<1>7. now' \notin failures'
  <2>1. CASE now' = now
    BY <1>1, <1>2, <1>5, <2>1 DEF LimiterTypeOK
  <2>2. CASE now' # now
    <3>1. now' \notin 0..now
      BY <1>1, <2>2
    <3> QED BY <1>6, <3>1
  <2> QED BY <2>1, <2>2
<1>8. bursts' \in Nat /\ since' \in 0..now'
  BY <1>1 DEF Observed, LimiterTypeOK
<1> QED BY <1>1, <1>3, <1>4, <1>5, <1>6, <1>7, <1>8

\* A renewal closes the account of the failures before it.
LEMMA RenewalKeepsInv ==
    ASSUME LimiterInv, now' \in Nat, now' >= now, Reset, Observed({}, {now})
    PROVE  LimiterInv'
<1>0. MaxAttempts \in Nat \ {0} /\ LockoutBase \in Nat /\ LockoutBase >= Window /\ Window \in Nat
  BY Limits
<1>1. LimiterTypeOK /\ now \in Nat /\ now \in 0..now
  BY DEF LimiterInv, LimiterTypeOK
<1>2. IsFiniteSet({}) /\ Cardinality({}) = 0
  BY FS_EmptySet
<1>3. /\ failures' \subseteq 0..now' /\ IsFiniteSet(failures') /\ now' \notin failures'
      /\ renewals' \subseteq 0..now' /\ IsFiniteSet(renewals')
      /\ bursts' \in Nat /\ since' \in 0..now'
  BY <1>1, ObservedTypes
<1>4. LimiterTypeOK'
  BY <1>0, <1>2, <1>3 DEF LimiterTypeOK, Reset
<1>5. /\ failures' = Recent(failures)
      /\ renewals' = IF Recent(failures) = {} THEN {} ELSE Recent(renewals) \cup {now}
  BY DEF Observed
<1>6. \A f \in failures : f \in 0..now /\ f < now
  BY <1>1 DEF LimiterTypeOK
<1>7. Later' = {}
  <2>1. \A f \in failures' : now \in renewals' /\ ~(now <= f)
    BY <1>1, <1>5, <1>6 DEF Recent
  <2> QED BY <2>1 DEF Later
<1>8. ASSUME NEW a \in Int
      PROVE  Cardinality(Earlier(a)') <= MaxAttempts * Cardinality(Renewed(a)')
  <2>1. IsFiniteSet(Earlier(a)') /\ IsFiniteSet(Renewed(a)')
        /\ Cardinality(Earlier(a)') \in Nat /\ Cardinality(Renewed(a)') \in Nat
    <3>1. Earlier(a)' \subseteq failures' /\ Renewed(a)' \subseteq renewals'
      BY DEF Earlier, Renewed
    <3> QED BY <1>3, <3>1, Fewer
  <2>2. CASE Earlier(a)' = {}
    BY <1>0, <1>2, <2>1, <2>2, Budgets
  <2>3. CASE Earlier(a)' # {}
    <3>1. PICK g \in Recent(failures) : g >= a
      BY <1>5, <2>3 DEF Earlier
    <3>2. now >= a /\ renewals' = Recent(renewals) \cup {now}
      BY <1>1, <1>5, <1>6, <3>1 DEF Recent
    <3>3. PICK b \in Int : \A t \in 0..now : (now - t < Window /\ t >= a) <=> t >= b
      BY <1>1, WindowBegins
    <3>4. /\ IsFiniteSet(Later) /\ IsFiniteSet(Earlier(b)) /\ IsFiniteSet(Renewed(b))
          /\ Cardinality(Later) \in Nat /\ Cardinality(Earlier(b)) \in Nat
          /\ Cardinality(Renewed(b)) \in Nat
          /\ Cardinality(Earlier(b)) <= MaxAttempts * Cardinality(Renewed(b))
          /\ Cardinality(Later) <= MaxAttempts
      BY <1>1, Parts DEF LimiterInv, Accounted
    <3>5. Earlier(a)' \subseteq Earlier(b) \cup Later
      <4>1. ASSUME NEW f \in Earlier(a)' PROVE f \in failures /\ f >= b
        BY <1>5, <1>6, <3>3, <4>1 DEF Earlier, Recent
      <4> QED BY <4>1 DEF Earlier
    <3>6. Renewed(b) \cup {now} \subseteq Renewed(a)'
      <4>1. ASSUME NEW r \in Renewed(b) PROVE r \in Recent(renewals) /\ r >= a
        BY <1>1, <3>3, <4>1 DEF Renewed, Recent, LimiterTypeOK
      <4> QED BY <3>2, <4>1 DEF Renewed
    <3>7. CASE now \in renewals
      <4>1. Later = {}
        BY <1>1, <1>6, <3>7 DEF Later
      <4>2. Cardinality(Earlier(a)') <= Cardinality(Earlier(b))
        BY <3>4, <3>5, <4>1, Fewer
      <4>3. Cardinality(Renewed(b)) <= Cardinality(Renewed(a)')
        BY <2>1, <3>6, Fewer
      <4>4. MaxAttempts * Cardinality(Renewed(b)) <= MaxAttempts * Cardinality(Renewed(a)')
            /\ MaxAttempts * Cardinality(Renewed(b)) \in Nat
            /\ MaxAttempts * Cardinality(Renewed(a)') \in Nat
        BY <1>0, <2>1, <3>4, <4>3, Budgets
      <4> QED BY <2>1, <3>4, <4>2, <4>4
    <3>8. CASE now \notin renewals
      <4>1. IsFiniteSet(Earlier(b) \cup Later) /\ Cardinality(Earlier(b) \cup Later) \in Nat
            /\ Cardinality(Earlier(b) \cup Later) <= Cardinality(Earlier(b)) + Cardinality(Later)
        BY <3>4, Together
      <4>2. Cardinality(Earlier(a)') <= Cardinality(Earlier(b) \cup Later)
        BY <3>5, <4>1, Fewer
      <4>3. now \notin Renewed(b)
        BY <3>8 DEF Renewed
      <4>4. Cardinality(Renewed(b) \cup {now}) = Cardinality(Renewed(b)) + 1
        BY <3>4, <4>3, OneMore
      <4>5. Cardinality(Renewed(b)) + 1 <= Cardinality(Renewed(a)')
        BY <2>1, <3>6, <4>4, Fewer
      <4>6. /\ MaxAttempts * Cardinality(Renewed(b)) \in Nat
            /\ MaxAttempts * Cardinality(Renewed(a)') \in Nat
            /\ MaxAttempts * (Cardinality(Renewed(b)) + 1) \in Nat
            /\ MaxAttempts * (Cardinality(Renewed(b)) + 1) <= MaxAttempts * Cardinality(Renewed(a)')
            /\ MaxAttempts * (Cardinality(Renewed(b)) + 1)
                 = MaxAttempts * Cardinality(Renewed(b)) + MaxAttempts
        <5>1. Cardinality(Renewed(b)) + 1 \in Nat
          BY <3>4
        <5> QED BY <1>0, <2>1, <3>4, <4>5, <5>1, Budgets
      <4> QED BY <1>0, <2>1, <3>4, <4>1, <4>2, <4>6
    <3> QED BY <3>7, <3>8
  <2> QED BY <2>2, <2>3
<1>9. Remembered'
  BY <1>7 DEF Remembered
<1>10. Accounted'
  BY <1>0, <1>2, <1>7, <1>8 DEF Accounted
<1> QED BY <1>4, <1>9, <1>10 DEF LimiterInv

LEMMA SuccessKeepsInv ==
    ASSUME LimiterInv, RecordAttempt(TRUE)
    PROVE  LimiterInv'
<1>1. now' \in Nat /\ now' >= now
  BY DEF RecordAttempt, LimiterInv, LimiterTypeOK
<1> QED BY <1>1, RenewalKeepsInv DEF RecordAttempt

\* A failure that is recorded is one of those since the last renewal: those before
\* it stay so or leave the window, and take the renewals before the window along.
LEMMA FailureKeepsAccounts ==
    ASSUME LimiterInv, now' = now + 1, Observed({now}, {})
    PROVE  /\ Later' \subseteq {f \in Later : now - f < Window} \cup {now}
           /\ \A a \in Int : Cardinality(Earlier(a)') <= MaxAttempts * Cardinality(Renewed(a)')
<1>0. MaxAttempts \in Nat \ {0} /\ Window \in Nat \ {0}
  BY Limits
<1>1. LimiterTypeOK /\ now \in Nat /\ now \in 0..now /\ now' \in Nat /\ now' >= now
  BY DEF LimiterInv, LimiterTypeOK
<1>2. IsFiniteSet(failures') /\ IsFiniteSet(renewals')
  BY <1>1, ObservedTypes
<1>3. /\ failures' = Recent(failures) \cup {now}
      /\ renewals' = IF Recent(failures) = {} THEN {} ELSE Recent(renewals)
  BY DEF Observed
<1>4. (\A f \in failures : f \in 0..now) /\ (\A r \in renewals : r \in 0..now)
  BY <1>1 DEF LimiterTypeOK
<1>5. ASSUME NEW f \in Recent(failures), f \in Later' PROVE f \in Later
  <2>1. renewals' = Recent(renewals) /\ f \in failures /\ now - f < Window
    BY <1>3, <1>5 DEF Recent
  <2>2. ASSUME NEW r \in renewals PROVE r <= f
    <3>1. CASE r \in Recent(renewals)
      BY <1>5, <2>1, <3>1 DEF Later
    <3>2. CASE r \notin Recent(renewals)
      BY <1>0, <1>1, <1>4, <2>1, <3>2 DEF Recent
    <3> QED BY <3>1, <3>2
  <2> QED BY <2>1, <2>2 DEF Later
<1>6. Later' \subseteq {f \in Later : now - f < Window} \cup {now}
  BY <1>3, <1>5 DEF Later, Recent
<1>7. ASSUME NEW a \in Int
      PROVE  Cardinality(Earlier(a)') <= MaxAttempts * Cardinality(Renewed(a)')
  <2>1. IsFiniteSet(Earlier(a)') /\ IsFiniteSet(Renewed(a)')
        /\ Cardinality(Earlier(a)') \in Nat /\ Cardinality(Renewed(a)') \in Nat
    <3>1. Earlier(a)' \subseteq failures' /\ Renewed(a)' \subseteq renewals'
      BY DEF Earlier, Renewed
    <3> QED BY <1>2, <3>1, Fewer
  <2>2. now \in Later'
    <3>1. \A r \in renewals' : r <= now
      BY <1>3, <1>4 DEF Recent
    <3> QED BY <1>3, <3>1 DEF Later
  <2>3. PICK b \in Int : \A t \in 0..now : (now - t < Window /\ t >= a) <=> t >= b
    BY <1>1, WindowBegins
  <2>4. /\ IsFiniteSet(Earlier(b)) /\ IsFiniteSet(Renewed(b))
        /\ Cardinality(Earlier(b)) \in Nat /\ Cardinality(Renewed(b)) \in Nat
        /\ Cardinality(Earlier(b)) <= MaxAttempts * Cardinality(Renewed(b))
    BY <1>1, Parts DEF LimiterInv, Accounted
  <2>5. ASSUME NEW f \in Earlier(a)'
        PROVE  f \in Earlier(b) /\ renewals' = Recent(renewals)
    <3>1. f \in failures' /\ f >= a /\ f \notin Later'
      BY <2>5 DEF Earlier
    <3>2. f \in Recent(failures)
      BY <1>3, <2>2, <3>1
    <3>3. renewals' = Recent(renewals)
      BY <1>3, <3>2
    <3>4. PICK r \in renewals' : ~(r <= f)
      BY <3>1 DEF Later
    <3>5. f \notin Later
      BY <3>3, <3>4 DEF Later, Recent
    <3>6. f \in failures /\ f >= b
      BY <1>4, <2>3, <3>1, <3>2 DEF Recent
    <3> QED BY <3>3, <3>5, <3>6 DEF Earlier
  <2>6. CASE Earlier(a)' = {}
    <3>1. Cardinality(Earlier(a)') = 0
      BY <2>6, FS_EmptySet
    <3> QED BY <1>0, <2>1, <3>1, Budgets
  <2>7. CASE Earlier(a)' # {}
    <3>1. Earlier(a)' \subseteq Earlier(b) /\ renewals' = Recent(renewals)
      BY <2>5, <2>7
    <3>2. Renewed(b) \subseteq Renewed(a)'
      BY <1>4, <2>3, <3>1 DEF Renewed, Recent
    <3>3. Cardinality(Earlier(a)') <= Cardinality(Earlier(b))
          /\ Cardinality(Renewed(b)) <= Cardinality(Renewed(a)')
      BY <2>1, <2>4, <3>1, <3>2, Fewer
    <3>4. /\ MaxAttempts * Cardinality(Renewed(b)) <= MaxAttempts * Cardinality(Renewed(a)')
          /\ MaxAttempts * Cardinality(Renewed(b)) \in Nat
          /\ MaxAttempts * Cardinality(Renewed(a)') \in Nat
      BY <1>0, <2>1, <2>4, <3>3, Budgets
    <3> QED BY <2>1, <2>4, <3>3, <3>4
  <2> QED BY <2>6, <2>7
<1> QED BY <1>6, <1>7

\* A failure is recorded only outside a lockout, when every failure of the window
\* since the last renewal is on record: there are fewer than the limit before it.
LEMMA FailureKeepsInv ==
    ASSUME LimiterInv, ~RateLimited, RecordAttempt(FALSE)
    PROVE  LimiterInv'
<1> DEFINE failed == Recent(attempts) \cup {now}
<1>0. MaxAttempts \in Nat \ {0} /\ Window \in Nat \ {0} /\ LockoutBase \in Nat
      /\ LockoutBase >= Window /\ LockoutCap \in Nat /\ LockoutCap >= LockoutBase
  BY Limits
<1>1. LimiterTypeOK /\ Remembered /\ now >= lockoutUntil
      /\ ~(Cardinality(Recent(attempts)) >= MaxAttempts)
  BY DEF LimiterInv, RateLimited, LimiterTypeOK
<1>2. /\ IsFiniteSet(failed) /\ failed \subseteq 0..now
      /\ Cardinality(failed) \in Nat /\ Cardinality(failed) <= MaxAttempts
  <2>1. Recent(attempts) \subseteq attempts
    BY DEF Recent
  <2>2. IsFiniteSet(Recent(attempts)) /\ Cardinality(Recent(attempts)) \in Nat
    BY <1>1, <2>1, Fewer DEF LimiterTypeOK
  <2>3. IsFiniteSet(failed) /\ Cardinality(failed) \in Nat
        /\ Cardinality(failed) <= Cardinality(Recent(attempts)) + 1
    BY <2>2, OneMore
  <2>4. failed \subseteq 0..now
    <3>1. now \in 0..now
      BY <1>1 DEF LimiterTypeOK
    <3> QED BY <1>1, <2>1, <3>1 DEF LimiterTypeOK
  <2> QED BY <1>0, <1>1, <2>2, <2>3, <2>4
<1>3. now' = now + 1 /\ now' \in Nat /\ now' >= now /\ 0..now \subseteq 0..now'
      /\ Observed({now}, {})
  BY <1>1 DEF RecordAttempt, LimiterTypeOK
<1>4. /\ failures' \subseteq 0..now' /\ IsFiniteSet(failures') /\ now' \notin failures'
      /\ renewals' \subseteq 0..now' /\ IsFiniteSet(renewals')
      /\ bursts' \in Nat /\ since' \in 0..now'
  BY <1>1, <1>3, ObservedTypes
<1>5. Later' \subseteq failed
  <2>1. Later' \subseteq {f \in Later : now - f < Window} \cup {now}
    BY <1>3, FailureKeepsAccounts
  <2>2. ASSUME NEW f \in Later, now - f < Window PROVE f \in Recent(attempts)
    <3>1. f \in Nat
      BY <1>1 DEF Later, LimiterTypeOK
    <3>2. ~(f + Window <= lockoutUntil) /\ ~(f + Window <= now)
      BY <1>0, <1>1, <2>2, <3>1 DEF LimiterTypeOK
    <3> QED BY <1>1, <2>2, <3>2 DEF Remembered, Recent
  <2> QED BY <2>1, <2>2
<1>6. Accounted'
  <2>1. Cardinality(Later') \in Nat /\ Cardinality(Later') <= Cardinality(failed)
    BY <1>2, <1>5, Fewer
  <2>2. Cardinality(Later') <= MaxAttempts
    BY <1>0, <1>2, <2>1
  <2>3. \A a \in Int : Cardinality(Earlier(a)') <= MaxAttempts * Cardinality(Renewed(a)')
    BY <1>3, FailureKeepsAccounts
  <2> QED BY <2>2, <2>3 DEF Accounted
<1>7. CASE attempts' = failed /\ UNCHANGED <<lockoutUntil, penalty>> /\ level' \in Nat
  <2>1. LimiterTypeOK'
    BY <1>1, <1>2, <1>3, <1>4, <1>7 DEF LimiterTypeOK
  <2>2. Remembered'
    BY <1>5, <1>7 DEF Remembered
  <2> QED BY <1>6, <2>1, <2>2 DEF LimiterInv
<1>8. CASE /\ attempts' = {} /\ lockoutUntil' = now + penalty /\ level' \in Nat
           /\ penalty' = IF 2 * penalty < LockoutCap THEN 2 * penalty ELSE LockoutCap
  <2>1. lockoutUntil' \in Nat /\ penalty' \in Nat /\ penalty' >= Window
    BY <1>0, <1>1, <1>8 DEF LimiterTypeOK
  <2>2. IsFiniteSet(attempts') /\ Cardinality(attempts') <= MaxAttempts
    BY <1>0, <1>8, FS_EmptySet
  <2>3. LimiterTypeOK'
    BY <1>3, <1>4, <1>8, <2>1, <2>2 DEF LimiterTypeOK
  <2>4. ASSUME NEW f \in Later' PROVE f + Window <= lockoutUntil'
    <3>1. f \in 0..now
      BY <1>2, <1>5, <2>4
    <3> QED BY <1>0, <1>1, <1>8, <3>1 DEF LimiterTypeOK
  <2>5. Remembered'
    BY <2>4 DEF Remembered
  <2> QED BY <1>6, <2>3, <2>5 DEF LimiterInv
<1>9. level \in Nat /\ level + 1 \in Nat
  BY <1>1 DEF LimiterTypeOK
<1> QED BY <1>7, <1>8, <1>9 DEF RecordAttempt, Burst

\* The clock and the pruning move nothing that is still in the window.
LEMMA PruningKeepsInv ==
    ASSUME LimiterInv, now' \in Nat, now' >= now,
           attempts' = attempts \/ attempts' = Recent(attempts),
           UNCHANGED lockouts
    PROVE  LimiterInv'
<1>0. MaxAttempts \in Nat \ {0} /\ Window \in Nat
  BY Limits
<1>1. LimiterTypeOK /\ Remembered /\ 0..now \subseteq 0..now'
      /\ UNCHANGED <<lockoutUntil, level, penalty, failures, renewals, bursts, since>>
  BY DEF LimiterInv, LimiterTypeOK, lockouts
<1>2. attempts' \subseteq attempts
  BY DEF Recent
<1>3. IsFiniteSet(attempts') /\ Cardinality(attempts') \in Nat /\ Cardinality(attempts) \in Nat
      /\ Cardinality(attempts') <= Cardinality(attempts)
  BY <1>1, <1>2, Fewer DEF LimiterTypeOK
<1>4. LimiterTypeOK'
  <2>1. now' \notin failures
    BY <1>1 DEF LimiterTypeOK
  <2> QED BY <1>0, <1>1, <1>2, <1>3, <2>1 DEF LimiterTypeOK
<1>5. Later' = Later /\ (\A a \in Int : Earlier(a)' = Earlier(a) /\ Renewed(a)' = Renewed(a))
  BY <1>1 DEF Later, Earlier, Renewed
<1>6. ASSUME NEW f \in Later
      PROVE  f \in attempts' \/ f + Window <= lockoutUntil \/ f + Window <= now'
  <2>1. f \in 0..now
    BY <1>1 DEF LimiterTypeOK, Later
  <2>2. CASE f \in attempts
    <3>1. f \in attempts' \/ ~(now - f < Window)
      BY <2>2 DEF Recent
    <3> QED BY <1>0, <1>1, <2>1, <3>1 DEF LimiterTypeOK
  <2>3. CASE f + Window <= lockoutUntil \/ f + Window <= now
    BY <1>0, <1>1, <2>1, <2>3 DEF LimiterTypeOK
  <2> QED BY <1>1, <2>2, <2>3 DEF Remembered
<1>7. Remembered'
  BY <1>1, <1>5, <1>6 DEF Remembered
<1>8. Accounted'
  BY <1>5 DEF LimiterInv, Accounted
<1> QED BY <1>4, <1>7, <1>8 DEF LimiterInv

-----------------------------------------------------------------------------
(* The limiter's invariant *)

LEMMA InitLimiterInv == Init => LimiterInv
<1> SUFFICES ASSUME Init PROVE LimiterInv
  OBVIOUS
<1>1. MaxAttempts \in Nat \ {0} /\ LockoutBase \in Nat /\ LockoutBase >= Window
  BY Limits
<1>2. IsFiniteSet({}) /\ Cardinality({}) = 0
  BY FS_EmptySet
<1>3. Later = {} /\ \A a \in Int : Earlier(a) = {} /\ Renewed(a) = {}
  BY DEF Init, Later, Earlier, Renewed
<1>4. MaxAttempts * 0 = 0
  BY <1>1
<1>5. LimiterTypeOK
  BY <1>1, <1>2, Limits DEF Init, LimiterTypeOK
<1>6. Remembered
  BY <1>3 DEF Remembered
<1>7. Accounted
  BY <1>1, <1>2, <1>3, <1>4 DEF Accounted
<1> QED BY <1>5, <1>6, <1>7 DEF LimiterInv

LEMMA UnchangedKeepsInv ==
    ASSUME LimiterInv, UNCHANGED <<now, limiter>>
    PROVE  LimiterInv'
<1>1. now' \in Nat /\ now' >= now
  BY DEF LimiterInv, LimiterTypeOK
<1> QED BY <1>1, PruningKeepsInv DEF limiter

LEMMA NextKeepsLimiterInv == LimiterInv /\ [Next]_vars => LimiterInv'
<1> SUFFICES ASSUME LimiterInv, [Next]_vars PROVE LimiterInv'
  OBVIOUS
<1>1. ASSUME NEW p \in Commands,
             BeginSetup(p) \/ BeginDisable(p) \/ Confirm(p) \/ SaveSetup(p) \/ Disable(p) \/ Quit(p)
      PROVE  LimiterInv'
  <2>1. UNCHANGED <<now, limiter>>
    BY <1>1 DEF BeginSetup, BeginDisable, Confirm, SaveSetup, Disable, Quit, Exit
  <2> QED BY <2>1, UnchangedKeepsInv
<1>2. CASE Ask \/ SaveBegins
  <2>1. UNCHANGED <<now, limiter>>
    BY <1>2 DEF Ask, SaveBegins
  <2> QED BY <2>1, UnchangedKeepsInv
<1>13. CASE TooMany
  <2>1. now' = now /\ (attempts' = attempts \/ attempts' = Recent(attempts)) /\ UNCHANGED lockouts
    BY <1>13 DEF TooMany
  <2>2. now' \in Nat /\ now' >= now
    BY <2>1 DEF LimiterInv, LimiterTypeOK
  <2> QED BY <2>1, <2>2, PruningKeepsInv
<1>3. CASE WrongCode
  BY <1>3, FailureKeepsInv DEF WrongCode
<1>4. CASE RightCode
  BY <1>4, SuccessKeepsInv DEF RightCode
<1>5. ASSUME NEW c \in Codes, TakeBackupCode(c) PROVE LimiterInv'
  <2>1. now' = now /\ attempts' = Recent(attempts) /\ UNCHANGED lockouts
    BY <1>5 DEF TakeBackupCode
  <2>2. now' \in Nat /\ now' >= now
    BY <2>1 DEF LimiterInv, LimiterTypeOK
  <2> QED BY <2>1, <2>2, PruningKeepsInv
<1>6. CASE SaveEnds
  <2>1. CASE stored = Missing
    <3>1. UNCHANGED <<now, limiter>>
      BY <1>6, <2>1 DEF SaveEnds
    <3> QED BY <3>1, UnchangedKeepsInv
  <2>2. CASE stored # Missing
    <3>1. RecordAttempt(TRUE)
      BY <1>6, <2>2 DEF SaveEnds
    <3> QED BY <3>1, SuccessKeepsInv
  <2> QED BY <2>1, <2>2
<1>7. CASE Mint \/ CreateFails \/ WriteSession \/ Handover
  <2>1. UNCHANGED <<now, limiter>>
    BY <1>7 DEF Mint, CreateFails, WriteSession, Handover, SessionStep
  <2> QED BY <2>1, UnchangedKeepsInv
<1>8. ASSUME NEW s \in Tokens, Open(s) \/ Validate(s) \/ LookAt(s) PROVE LimiterInv'
  <2>1. UNCHANGED <<now, limiter>>
    BY <1>8 DEF Open, Validate, LookAt, SessionStep
  <2> QED BY <2>1, UnchangedKeepsInv
<1>9. CASE BeginPurge \/ Unlink \/ Start
  <2>1. UNCHANGED <<now, limiter>>
    BY <1>9 DEF BeginPurge, Unlink, Start
  <2> QED BY <2>1, UnchangedKeepsInv
<1>10. CASE Die
  <2>1. now' = now /\ Reset /\ Observed({}, {now})
    BY <1>10 DEF Die
  <2>2. now' \in Nat /\ now' >= now
    BY <2>1 DEF LimiterInv, LimiterTypeOK
  <2> QED BY <2>1, <2>2, RenewalKeepsInv
<1>11. CASE Tick
  <2>1. now' = now + 1 /\ UNCHANGED limiter
    BY <1>11 DEF Tick
  <2>2. now' \in Nat /\ now' >= now
    BY <2>1 DEF LimiterInv, LimiterTypeOK
  <2> QED BY <2>1, <2>2, PruningKeepsInv DEF limiter
<1>12. CASE UNCHANGED vars
  BY <1>12, UnchangedKeepsInv DEF vars
<1> QED BY <1>1, <1>2, <1>3, <1>4, <1>5, <1>6, <1>7, <1>8, <1>9, <1>10, <1>11, <1>12, <1>13 DEF Next

\* The bound on guessing: in no stretch of a window's length are there more failures
\* than the limit for each success and restart in it, and the limit once more; at
\* whatever times they come, and however lockouts follow one another and overflow.
THEOREM FailuresAreBounded == Spec => []FailuresPerWindow
<1>1. LimiterInv => FailuresPerWindow
  BY BoundedByAccounts
<1> QED BY <1>1, InitLimiterInv, NextKeepsLimiterInv, PTL DEF Spec

-----------------------------------------------------------------------------
(* Files *)

LEMMA FileFacts ==
    /\ Missing.is = "missing" /\ Torn.is = "torn" /\ Missing # Torn
    /\ \A k, codes : /\ Enrolment(k, codes).is = "enrolled"
                     /\ Enrolment(k, codes).secret = k /\ Enrolment(k, codes).codes = codes
                     /\ Enrolment(k, codes) # Missing /\ Enrolment(k, codes) # Torn
    /\ \A c : /\ Session(c).is = "session" /\ Session(c).created = c
              /\ Session(c) # Missing /\ Session(c) # Torn
<1>1. Missing.is = "missing" /\ Torn.is = "torn"
  BY DEF Missing, Torn
<1>2. ASSUME NEW k, NEW codes
      PROVE  /\ Enrolment(k, codes).is = "enrolled"
             /\ Enrolment(k, codes).secret = k /\ Enrolment(k, codes).codes = codes
  BY DEF Enrolment
<1>3. ASSUME NEW c PROVE Session(c).is = "session" /\ Session(c).created = c
  BY DEF Session
<1> QED
  BY <1>1, <1>2, <1>3

LEMMA FileKinds ==
    ASSUME NEW f \in Files
    PROVE  /\ f = Missing \/ f = Torn \/ f.is = "enrolled"
           /\ f.is = "enrolled" => /\ f.secret \in Secrets /\ f.codes \subseteq Codes
                                   /\ f # Missing /\ f # Torn
<1>1. CASE \E k \in Secrets, codes \in SUBSET Codes : f = Enrolment(k, codes)
  BY <1>1, FileFacts
<1> QED
  BY <1>1, FileFacts DEF Files

LEMMA FilesHold ==
    /\ Missing \in Files /\ Torn \in Files
    /\ \A k \in Secrets, codes \in SUBSET Codes : Enrolment(k, codes) \in Files
BY DEF Files

-----------------------------------------------------------------------------
(* Who edits totp.json *)

ServerEdits == phase \in {"loaded", "saving"}

\* The types of the variables that the edits use.
FileTypes ==
    /\ stored \in Files /\ data \in Files /\ clean \in BOOLEAN
    /\ stale \subseteq Editing
    /\ unused \subseteq Secrets /\ told \in Secrets \cup {NoSecret}
    /\ doing \in [Commands -> {"none", "setup", "saving", "disable"}]
    /\ mine \in [Commands -> Secrets \cup {NoSecret}]
    /\ phase \in {"idle", "loaded", "saving", "creating", "writing", "closing"}
    /\ spent \in Codes \cup {NoCode}
    /\ accepted \subseteq Secrets \X Codes /\ reused \in BOOLEAN

\* An edit has what it is to write.
HoldsData ==
    /\ ServerEdits => /\ data.is = "enrolled" /\ now < MaxTime
                      /\ spent \in Codes /\ spent \notin data.codes
    /\ \A p \in Commands : doing[p] \in {"setup", "saving"} => mine[p] \in Secrets

FileInv == FileTypes /\ HoldsData

\* The processes, and those that have emptied the file to write it.
Editors == Commands \cup {Server}

Saves(p) == IF p = Server THEN phase = "saving" ELSE doing[p] = "saving"

\* A step of p in its edit: the others' readings are outdated when it changes the file.
EditStep(p) ==
    /\ stale \ {p} \subseteq stale'
    /\ stored' # stored => Editing \ {p} \subseteq stale'
    /\ clean' => clean
    /\ \A q \in Commands \ {p} : doing'[q] = doing[q] /\ mine'[q] = mine[q]
    /\ IF p = Server THEN UNCHANGED <<unused, told>> ELSE UNCHANGED <<phase, data, spent, accepted, reused>>

\* Every other step.
FilesUntouched ==
    /\ UNCHANGED <<totp, commands, data, spent, accepted, reused>>
    /\ UNCHANGED <<now, phase>> \/ (~ServerEdits /\ ~ServerEdits')
    /\ phase' \in {"idle", "loaded", "saving", "creating", "writing", "closing"}

Command(p) ==
    BeginSetup(p) \/ BeginDisable(p) \/ Confirm(p) \/ SaveSetup(p) \/ Disable(p) \/ Quit(p)

ServerEdit == (\E c \in Codes : TakeBackupCode(c)) \/ SaveBegins \/ SaveEnds \/ Die

LEMMA CommandEdits ==
    ASSUME FileTypes, NEW p \in Commands, Command(p)
    PROVE  EditStep(p) /\ now' = now
<1>1. p # Server
  BY Identities
<1>2. UNCHANGED <<now, phase, data, spent, accepted, reused>>
      /\ \A q \in Commands \ {p} : doing'[q] = doing[q] /\ mine'[q] = mine[q]
  BY DEF Command, BeginSetup, BeginDisable, Confirm, SaveSetup, Disable, Quit, Exit, server,
     FileTypes
<1>3. /\ stale \ {p} \subseteq stale'
      /\ stored' # stored => Editing \ {p} \subseteq stale'
      /\ clean' => clean
  <2>1. CASE BeginSetup(p) \/ BeginDisable(p)
    BY <2>1 DEF BeginSetup, BeginDisable, totp
  <2>2. CASE Confirm(p)
    BY <2>2 DEF Confirm, Empties, Change
  <2>3. CASE SaveSetup(p)
    BY <2>3 DEF SaveSetup, Writes, FileTypes
  <2>4. CASE Disable(p) \/ Quit(p)
    BY <2>4 DEF Disable, Quit, Forget
  <2> QED
    BY <2>1, <2>2, <2>3, <2>4 DEF Command
<1> QED
  BY <1>1, <1>2, <1>3 DEF EditStep

LEMMA ServerEditsToo == ASSUME FileTypes, ServerEdit PROVE EditStep(Server)
<1>1. UNCHANGED commands
  BY DEF ServerEdit, TakeBackupCode, Attempt, SaveBegins, SaveEnds, Die
<1>2. /\ stale \ {Server} \subseteq stale'
      /\ stored' # stored => Editing \ {Server} \subseteq stale'
      /\ clean' => clean
  <2>1. ASSUME NEW c \in Codes, TakeBackupCode(c) PROVE UNCHANGED totp
    BY <2>1 DEF TakeBackupCode
  <2>2. CASE SaveBegins
    BY <2>2 DEF SaveBegins, Empties, Change
  <2>3. CASE SaveEnds
    BY <2>3 DEF SaveEnds, Writes
  <2>4. CASE Die
    BY <2>4 DEF Die, Forget
  <2> QED
    BY <2>1, <2>2, <2>3, <2>4 DEF ServerEdit, totp
<1> QED
  BY <1>1, <1>2 DEF EditStep, commands

LEMMA StepsOnFiles ==
    ASSUME FileTypes, [Next]_vars
    PROVE  (\E p \in Commands : Command(p)) \/ ServerEdit \/ FilesUntouched
<1>0. phase \in {"idle", "loaded", "saving", "creating", "writing", "closing"}
  BY DEF FileTypes
<1>1. CASE Ask \/ TooMany \/ WrongCode \/ RightCode
  <2>1. phase = "idle" /\ phase' \in {"idle", "creating"}
        /\ UNCHANGED <<totp, commands, data, spent, accepted, reused>>
    BY <1>1 DEF Ask, TooMany, WrongCode, RightCode, Attempt, Serving
  <2> QED
    BY <2>1 DEF FilesUntouched, ServerEdits
<1>2. CASE \/ Mint \/ CreateFails \/ WriteSession \/ Handover
           \/ \E s \in Tokens : Open(s) \/ Validate(s) \/ LookAt(s)
  <2>1. CASE Mint \/ CreateFails \/ WriteSession \/ Handover \/ \E s \in Tokens : Open(s)
    <3>1. phase \in {"idle", "creating", "writing", "closing"}
          /\ phase' \in {"idle", "creating", "writing", "closing"}
          /\ UNCHANGED <<totp, commands, data, spent, accepted, reused>>
      BY <2>1 DEF Mint, CreateFails, WriteSession, Handover, Open, SessionStep, Serving
    <3> QED
      BY <3>1 DEF FilesUntouched, ServerEdits
  <2>2. CASE \E s \in Tokens : Validate(s) \/ LookAt(s)
    <3>1. UNCHANGED <<now, totp, commands, server>>
      BY <2>2 DEF Validate, LookAt
    <3> QED
      BY <1>0, <3>1 DEF server, FilesUntouched
  <2> QED
    BY <1>2, <2>1, <2>2
<1>3. CASE BeginPurge \/ Unlink \/ Start \/ Tick \/ UNCHANGED vars
  <2>1. UNCHANGED <<totp, commands, phase, data, spent, accepted, reused>>
        /\ (UNCHANGED now \/ phase = "idle")
    BY <1>3 DEF BeginPurge, Unlink, Start, Tick, server, vars
  <2> QED
    BY <1>0, <2>1 DEF FilesUntouched, ServerEdits
<1> QED
  BY <1>1, <1>2, <1>3 DEF Next, Command, ServerEdit

-----------------------------------------------------------------------------
(* The types of the edits *)

LEMMA UntouchedFileInv == ASSUME FileInv, FilesUntouched PROVE FileInv'
<1>1. FileTypes'
  BY DEF FileInv, FileTypes, FilesUntouched, totp, commands, Editing, ServerEdits
<1>2. HoldsData'
  BY DEF FileInv, HoldsData, FilesUntouched, commands, ServerEdits
<1> QED
  BY <1>1, <1>2 DEF FileInv

\* What a command does to its own variables.
LEMMA CommandTypes ==
    ASSUME FileInv, NEW p \in Commands, Command(p)
    PROVE  FileInv'
<1>1. EditStep(p) /\ now' = now /\ p # Server
  BY CommandEdits, Identities DEF FileInv
<1>2. /\ doing' \in [Commands -> {"none", "setup", "saving", "disable"}]
      /\ mine' \in [Commands -> Secrets \cup {NoSecret}]
      /\ unused' \subseteq Secrets
      /\ (doing'[p] \in {"setup", "saving"} => mine'[p] \in Secrets)
  BY DEF Command, BeginSetup, BeginDisable, Confirm, SaveSetup, Disable, Quit, Exit, FileInv,
     FileTypes, HoldsData
<1>3. stored' \in Files /\ told' \in Secrets \cup {NoSecret} /\ clean' \in BOOLEAN
  <2>1. CASE BeginSetup(p) \/ BeginDisable(p) \/ Quit(p)
    BY <2>1 DEF BeginSetup, BeginDisable, Quit, Exit, Forget, totp, FileInv, FileTypes
  <2>2. CASE Confirm(p)
    BY <2>2, FilesHold DEF Confirm, Empties, Change, FileInv, FileTypes
  <2>3. CASE SaveSetup(p)
    <3>1. mine[p] \in Secrets /\ Codes \in SUBSET Codes
      BY <2>3 DEF SaveSetup, FileInv, HoldsData
    <3>2. Enrolment(mine[p], Codes) \in Files
      BY <3>1, FilesHold
    <3> QED
      BY <2>3, <3>1, <3>2, FilesHold DEF SaveSetup, Writes, Exit, FileInv, FileTypes
  <2>4. CASE Disable(p)
    BY <2>4, FilesHold DEF Disable, Exit, FileInv, FileTypes
  <2> QED
    BY <2>1, <2>2, <2>3, <2>4 DEF Command
<1>4. stale' \subseteq Editing'
  <2>1. Editing \ {p} \subseteq Editing'
    BY <1>1 DEF EditStep, Editing
  <2>2. stale' \subseteq Editing
    <3>1. CASE BeginSetup(p) \/ BeginDisable(p) \/ Quit(p)
      BY <3>1 DEF BeginSetup, BeginDisable, Quit, Forget, totp, FileInv, FileTypes
    <3>2. CASE Confirm(p)
      BY <3>2 DEF Confirm, Empties, Change, FileInv, FileTypes
    <3>3. CASE SaveSetup(p)
      BY <3>3 DEF SaveSetup, Writes, FileInv, FileTypes
    <3>4. CASE Disable(p)
      BY <3>4 DEF Disable, FileInv, FileTypes
    <3> QED
      BY <3>1, <3>2, <3>3, <3>4 DEF Command
  <2>3. p \in stale' => p \in Editing'
    <3>1. CASE BeginSetup(p) \/ BeginDisable(p)
      BY <3>1 DEF BeginSetup, BeginDisable, totp, FileInv, FileTypes, Editing
    <3>2. CASE Confirm(p)
      BY <3>2 DEF Confirm, FileInv, FileTypes, Editing
    <3>3. CASE SaveSetup(p) \/ Disable(p) \/ Quit(p)
      BY <3>3 DEF SaveSetup, Disable, Quit, Writes, Forget
    <3> QED
      BY <3>1, <3>2, <3>3 DEF Command
  <2> QED
    BY <2>1, <2>2, <2>3
<1>5. UNCHANGED <<phase, data, spent, accepted, reused>>
      /\ \A q \in Commands \ {p} : doing'[q] = doing[q] /\ mine'[q] = mine[q]
  BY <1>1 DEF EditStep
<1>6. HoldsData'
  BY <1>1, <1>2, <1>5 DEF FileInv, HoldsData, ServerEdits
<1> QED
  BY <1>2, <1>3, <1>4, <1>5, <1>6 DEF FileInv, FileTypes

LEMMA ServerEditTypes == ASSUME FileInv, ServerEdit PROVE FileInv'
<1>1. CASE \E c \in Codes : TakeBackupCode(c)
  <2>1. PICK c \in Codes : TakeBackupCode(c)
    BY <1>1
  <2>2. /\ UNCHANGED <<now, totp, commands, accepted, reused>> /\ now < MaxTime
        /\ stored \in Files /\ stored.is = "enrolled" /\ c \in stored.codes
        /\ phase = "idle" /\ phase' = "loaded" /\ spent' = c
        /\ data' = Enrolment(stored.secret, stored.codes \ {c})
    BY <2>1 DEF TakeBackupCode, Attempt, Serving, IsEnabled, FileInv, FileTypes
  <2>3. data' \in Files /\ data'.is = "enrolled" /\ c \notin data'.codes
    BY <2>2, FileKinds, FileFacts, FilesHold
  <2>4. stale' \subseteq Editing'
    BY <2>2 DEF FileInv, FileTypes, totp, commands, Editing
  <2> QED
    BY <2>2, <2>3, <2>4 DEF FileInv, FileTypes, HoldsData, ServerEdits, totp, commands
<1>2. CASE SaveBegins
  <2>1. /\ UNCHANGED <<now, commands, data, spent, accepted, reused>>
        /\ phase = "loaded" /\ phase' = "saving"
        /\ stored' = Torn /\ stale' \subseteq stale \cup Editing /\ clean' \in BOOLEAN
    BY <1>2 DEF SaveBegins, Empties, Change, FileInv, FileTypes
  <2>2. stale' \subseteq Editing'
    BY <2>1 DEF FileInv, FileTypes, commands, Editing
  <2> QED
    BY <2>1, <2>2, FilesHold DEF FileInv, FileTypes, HoldsData, ServerEdits, commands
<1>3. CASE SaveEnds
  <2>1. /\ UNCHANGED commands
        /\ phase = "saving" /\ phase' \in {"idle", "creating"}
        /\ stored' \in {Missing, Torn, data} /\ clean' \in BOOLEAN
        /\ stale' \subseteq (stale \cup Editing) \ {Server}
        /\ data' = Missing /\ spent' = NoCode
        /\ accepted' \subseteq accepted \cup {<<data.secret, spent>>} /\ reused' \in BOOLEAN
    BY <1>3 DEF SaveEnds, Writes, FileInv, FileTypes
  <2>2. stale' \subseteq Editing'
    BY <2>1 DEF FileInv, FileTypes, commands, Editing
  <2>3. data.secret \in Secrets /\ spent \in Codes
    BY <2>1, FileKinds DEF FileInv, FileTypes, HoldsData, ServerEdits
  <2> QED
    BY <2>1, <2>2, <2>3, FilesHold DEF FileInv, FileTypes, HoldsData, ServerEdits, commands
<1>4. CASE Die
  <2>1. /\ UNCHANGED <<commands, stored, clean, accepted, reused>>
        /\ phase' = "idle" /\ data' = Missing /\ spent' = NoCode /\ stale' = stale \ {Server}
    BY <1>4 DEF Die, Forget
  <2>2. stale' \subseteq Editing'
    BY <2>1 DEF FileInv, FileTypes, commands, Editing
  <2> QED
    BY <2>1, <2>2, FilesHold DEF FileInv, FileTypes, HoldsData, ServerEdits, commands
<1> QED
  BY <1>1, <1>2, <1>3, <1>4 DEF ServerEdit

LEMMA FileInvInvariant == Spec => []FileInv
<1>1. Init => FileInv
  BY FilesHold DEF Init, FileInv, FileTypes, HoldsData, ServerEdits
<1>2. FileInv /\ [Next]_vars => FileInv'
  BY StepsOnFiles, UntouchedFileInv, CommandTypes, ServerEditTypes DEF FileInv
<1> QED
  BY <1>1, <1>2, PTL DEF Spec

\* Whoever has emptied the file, and not been overtaken, finds it empty.
SaversEmptied == \A p \in Editors : Saves(p) /\ p \notin stale => stored = Torn

LEMMA OthersSaving ==
    ASSUME FileInv, SaversEmptied, NEW p \in Editors, EditStep(p)
    PROVE  \A q \in Editors \ {p} : Saves(q)' /\ q \notin stale' => stored' = Torn
<1> SUFFICES ASSUME NEW q \in Editors, q # p, Saves(q)', q \notin stale'
             PROVE  stored' = Torn
  OBVIOUS
<1>1. Saves(q)
  BY Identities DEF EditStep, Saves, Editors
<1>2. q \in Editing \ {p}
  BY <1>1, Identities DEF Saves, Editing, Editors
<1>3. stored' = stored /\ q \notin stale
  BY <1>2 DEF EditStep
<1> QED
  BY <1>1, <1>3 DEF SaversEmptied

LEMMA SaversStayEmptied == FileInv /\ SaversEmptied /\ [Next]_vars => SaversEmptied'
<1> SUFFICES ASSUME FileInv, SaversEmptied, [Next]_vars PROVE SaversEmptied'
  OBVIOUS
<1>1. ASSUME NEW p \in Commands, Command(p) PROVE SaversEmptied'
  <2>1. p # Server /\ p \in Editors /\ EditStep(p)
    BY <1>1, CommandEdits, Identities DEF FileInv, Editors
  <2>2. doing'[p] = "saving" => stored' = Torn
    BY <1>1 DEF Command, BeginSetup, BeginDisable, Confirm, Empties, Change, SaveSetup, Disable,
       Quit, Exit, FileInv, FileTypes
  <2> QED
    BY <2>1, <2>2, OthersSaving DEF SaversEmptied, Saves
<1>2. CASE ServerEdit
  <2>1. Server \in Editors /\ EditStep(Server)
    BY <1>2, ServerEditsToo DEF FileInv, Editors
  <2>2. phase' = "saving" => stored' = Torn
    BY <1>2 DEF ServerEdit, TakeBackupCode, Attempt, SaveBegins, Empties, Change, SaveEnds, Die
  <2> QED
    BY <2>1, <2>2, OthersSaving DEF SaversEmptied, Saves
<1>3. CASE FilesUntouched
  BY <1>3 DEF FilesUntouched, ServerEdits, SaversEmptied, Saves, totp, commands
<1> QED
  BY <1>1, <1>2, <1>3, StepsOnFiles DEF FileInv

-----------------------------------------------------------------------------
(* What the user was told *)

\* The daemon writes back the enrolment it was told of.
ReadIsTold == clean /\ ServerEdits /\ Server \notin stale => data.secret = told

\* As long as nobody has written what was outdated, a whole file is what the last
\* command told the user; to keep it so, whoever has not been overtaken must hold
\* that enrolment, and no one may come between its emptying and its writing.
EInv == FileInv /\ SaversEmptied /\ ReadIsTold /\ EnrolmentStands

LEMMA CommandStands ==
    ASSUME EInv, NEW p \in Commands, Command(p)
    PROVE  ReadIsTold' /\ EnrolmentStands'
<1>1. EditStep(p) /\ p # Server /\ p \in Editors
      /\ (doing[p] = "saving" => mine[p] \in Secrets /\ mine[p] # NoSecret)
  BY CommandEdits, Identities DEF EInv, FileInv, Editors, HoldsData
<1>2. UNCHANGED <<phase, data>>
  BY <1>1 DEF EditStep
<1>3. ServerEdits /\ Server \notin stale' => stored' = stored /\ Server \notin stale
  BY <1>1, Identities DEF EditStep, ServerEdits, Editing
<1>4. CASE BeginSetup(p) \/ BeginDisable(p) \/ Quit(p)
  <2>1. UNCHANGED <<stored, clean, told>>
    BY <1>4 DEF BeginSetup, BeginDisable, Quit, Forget, Exit, totp
  <2> QED
    BY <1>2, <1>3, <2>1 DEF EInv, ReadIsTold, EnrolmentStands, IsEnabled, ServerEdits
<1>5. CASE Confirm(p)
  <2>1. stored' = Torn /\ told' = told /\ (clean' => clean)
    BY <1>5 DEF Confirm, Empties, Change
  <2> QED
    BY <1>2, <1>3, <2>1 DEF EInv, ReadIsTold, EnrolmentStands, ServerEdits
<1>6. CASE SaveSetup(p)
  <2> SUFFICES ASSUME clean' PROVE ReadIsTold' /\ EnrolmentStands'
    BY DEF ReadIsTold, EnrolmentStands
  <2>1. p \notin stale /\ doing[p] = "saving"
    BY <1>6 DEF SaveSetup, Writes
  <2>2. stored = Torn
    BY <1>1, <2>1 DEF EInv, SaversEmptied, Saves
  <2>3. stored' = Enrolment(mine[p], Codes) /\ told' = mine[p]
    BY <1>6, <2>1, <2>2, FileFacts DEF SaveSetup, Writes, Exit
  <2>4. stored' # stored /\ told' # NoSecret
    BY <1>1, <2>1, <2>2, <2>3, FileFacts
  <2>5. ReadIsTold'
    BY <1>2, <1>3, <2>4 DEF ReadIsTold, ServerEdits
  <2> QED
    BY <2>3, <2>4, <2>5, FileFacts DEF EnrolmentStands, IsEnabled
<1>7. CASE Disable(p)
  <2>1. stored' = Missing /\ told' = NoSecret /\ Editing \ {p} \subseteq stale'
    BY <1>7 DEF Disable, Exit
  <2>2. ReadIsTold'
    BY <1>1, <1>2, <2>1 DEF ReadIsTold, ServerEdits, Editing
  <2> QED
    BY <2>1, <2>2 DEF EnrolmentStands
<1> QED
  BY <1>4, <1>5, <1>6, <1>7 DEF Command

LEMMA ServerStands ==
    ASSUME EInv, ServerEdit
    PROVE  ReadIsTold' /\ EnrolmentStands'
<1>1. told' = told /\ Server \in Editors
  BY ServerEditsToo DEF EditStep, EInv, FileInv, Editors
<1>2. CASE \E c \in Codes : TakeBackupCode(c)
  <2>1. PICK c \in Codes : TakeBackupCode(c)
    BY <1>2
  <2>2. UNCHANGED <<stored, clean>> /\ stored \in Files /\ stored.is = "enrolled"
        /\ data' = Enrolment(stored.secret, stored.codes \ {c})
    BY <2>1 DEF TakeBackupCode, IsEnabled, totp, EInv, FileInv, FileTypes
  <2>3. data'.secret = stored.secret /\ stored # Torn /\ stored # Missing
    BY <2>2, FileFacts, FileKinds
  <2> QED
    BY <1>1, <2>2, <2>3 DEF EInv, ReadIsTold, EnrolmentStands, IsEnabled
<1>3. CASE SaveBegins
  <2>1. stored' = Torn /\ data' = data /\ (clean' => clean /\ Server \notin stale) /\ ServerEdits
    BY <1>3 DEF SaveBegins, Empties, Change, ServerEdits
  <2> QED
    BY <1>1, <2>1 DEF EInv, ReadIsTold, EnrolmentStands
<1>4. CASE SaveEnds
  <2>0. ReadIsTold'
    BY <1>4 DEF SaveEnds, ReadIsTold, ServerEdits
  <2> SUFFICES ASSUME clean' PROVE EnrolmentStands'
    BY <2>0 DEF EnrolmentStands
  <2>1. clean /\ Server \notin stale /\ phase = "saving" /\ ServerEdits
    BY <1>4 DEF SaveEnds, Writes, ServerEdits
  <2>2. stored = Torn /\ stored # Missing
    BY <1>1, <2>1, FileFacts DEF EInv, SaversEmptied, Saves
  <2>3. stored' = data
    BY <1>4, <2>1, <2>2 DEF SaveEnds, Writes
  <2>4. data.is = "enrolled" /\ data.secret = told /\ told # NoSecret
    BY <2>1, FileKinds, Identities DEF EInv, FileInv, FileTypes, HoldsData, ReadIsTold
  <2> QED
    BY <1>1, <2>3, <2>4 DEF EnrolmentStands, IsEnabled
<1>5. CASE Die
  BY <1>1, <1>5 DEF Die, Forget, EInv, ReadIsTold, ServerEdits, EnrolmentStands, IsEnabled
<1> QED
  BY <1>2, <1>3, <1>4, <1>5 DEF ServerEdit

\* A confirmed enrolment stands, and a disabled one is gone, whoever was killed
\* while he prompted or read and however many backup codes were spent since: unless
\* a process has written what it had read before another one's edit, or was killed
\* in its own.
THEOREM ConfirmedEnrolmentStands == Spec => []EnrolmentStands
<1>1. Init => SaversEmptied /\ ReadIsTold /\ EnrolmentStands
  BY Identities DEF Init, SaversEmptied, Saves, Editors, ReadIsTold, ServerEdits, EnrolmentStands
<1>2. EInv /\ FileInv' /\ [Next]_vars => EInv'
  <2> SUFFICES ASSUME EInv, FileInv', [Next]_vars PROVE EInv'
    OBVIOUS
  <2>1. ASSUME FilesUntouched PROVE ReadIsTold' /\ EnrolmentStands'
    BY <2>1 DEF FilesUntouched, totp, commands, EInv, ReadIsTold, ServerEdits,
       EnrolmentStands, IsEnabled
  <2> QED
    BY <2>1, StepsOnFiles, SaversStayEmptied, CommandStands, ServerStands DEF EInv, FileInv
<1>3. EInv => EnrolmentStands
  BY DEF EInv
<1>4. Init /\ FileInv => EInv
  BY <1>1 DEF EInv
<1> QED
  BY <1>2, <1>3, <1>4, FileInvInvariant, PTL DEF Spec

-----------------------------------------------------------------------------
(* Backup codes *)

\* An enrolment that is or was in use: nobody can set it up.
InUse(k) == k \notin unused /\ \A p \in Commands : mine[p] # k

\* Each setup has a secret of its own.
OwnSecrets ==
    /\ \A p \in Commands : mine[p] \notin unused
    /\ \A p, q \in Commands : p # q /\ mine[p] \in Secrets => mine[p] # mine[q]

\* The enrolments on file and in the daemon's hands are in use, and so are those
\* whose codes were accepted.
FilesInUse ==
    /\ stored.is = "enrolled" => InUse(stored.secret)
    /\ ServerEdits => InUse(data.secret)
    /\ \A k \in Secrets, c \in Codes : <<k, c>> \in accepted => InUse(k)

\* An accepted code is on no list that can come into the file.
Crossed(k, c) ==
    /\ stored.is = "enrolled" /\ stored.secret = k => c \notin stored.codes
    /\ ServerEdits /\ data.secret = k => c \notin data.codes /\ c # spent

AcceptedAreCrossed == \A k \in Secrets, c \in Codes : <<k, c>> \in accepted => Crossed(k, c)

BInv == OwnSecrets /\ FilesInUse /\ AcceptedAreCrossed /\ BackupCodeOnce

LEMMA UntouchedCodes == ASSUME BInv, FilesUntouched PROVE BInv'
BY DEF FilesUntouched, totp, commands, BInv, OwnSecrets, FilesInUse, InUse, AcceptedAreCrossed,
   Crossed, ServerEdits, BackupCodeOnce

\* A command puts no code into the file but those of a secret that was never in use.
LEMMA CommandCodes ==
    ASSUME FileInv, BInv, NEW p \in Commands, Command(p)
    PROVE  BInv'
<1>1. UNCHANGED <<phase, data, spent, accepted, reused>> /\ p # Server
  BY CommandEdits, Identities DEF EditStep, FileInv
<1>2. \A q \in Commands \ {p} : mine'[q] = mine[q]
  BY CommandEdits DEF EditStep, FileInv
<1>3. CASE BeginSetup(p)
  <2>1. PICK k \in unused : mine' = [mine EXCEPT ![p] = k] /\ unused' = unused \ {k}
    BY <1>3 DEF BeginSetup
  <2>2. mine'[p] = k /\ k \in Secrets /\ stored' = stored
    BY <1>3, <2>1 DEF BeginSetup, totp, FileInv, FileTypes
  <2>3. OwnSecrets'
    BY <1>2, <2>1, <2>2 DEF BInv, OwnSecrets
  <2>4. \A j : InUse(j) => InUse(j)'
    BY <1>2, <2>1, <2>2 DEF InUse
  <2> QED
    BY <1>1, <2>2, <2>3, <2>4 DEF BInv, FilesInUse, AcceptedAreCrossed, Crossed, ServerEdits,
       BackupCodeOnce
<1>4. CASE BeginDisable(p) \/ Confirm(p) \/ Disable(p) \/ Quit(p)
  <2>1. unused' = unused /\ (stored' = stored \/ stored'.is # "enrolled")
        /\ mine'[p] \in {mine[p], NoSecret}
    BY <1>4, FileFacts DEF BeginDisable, Confirm, Empties, Change, Disable, Quit, Forget, Exit,
       totp, FileInv, FileTypes
  <2>2. NoSecret \notin Secrets /\ unused \subseteq Secrets
    BY Identities DEF FileInv, FileTypes
  <2>3. OwnSecrets'
    BY <1>2, <2>1, <2>2 DEF BInv, OwnSecrets
  <2>4. \A j \in Secrets : InUse(j) => InUse(j)'
    BY <1>2, <2>1, <2>2 DEF InUse
  <2>5. (stored.is = "enrolled" => stored.secret \in Secrets)
        /\ (ServerEdits => data.secret \in Secrets)
    BY FileKinds DEF FileInv, FileTypes, HoldsData
  <2> QED
    BY <1>1, <2>1, <2>3, <2>4, <2>5 DEF BInv, FilesInUse, AcceptedAreCrossed, Crossed,
       ServerEdits, BackupCodeOnce
<1>5. CASE SaveSetup(p)
  <2>1. /\ stored' \in {Missing, Torn, Enrolment(mine[p], Codes)}
        /\ unused' = unused /\ mine'[p] = NoSecret /\ mine[p] \in Secrets
    BY <1>5 DEF SaveSetup, Writes, Exit, FileInv, FileTypes, HoldsData
  <2>2. NoSecret \notin Secrets /\ unused \subseteq Secrets
    BY Identities DEF FileInv, FileTypes
  <2>3. OwnSecrets'
    BY <1>2, <2>1, <2>2 DEF BInv, OwnSecrets
  <2>4. PICK k \in Secrets : k = mine[p]
    BY <2>1
  <2>5. InUse(k)' /\ \A j \in Secrets : InUse(j) => InUse(j)'
    <3>1. InUse(k)'
      BY <1>2, <2>1, <2>2, <2>4 DEF BInv, OwnSecrets, InUse
    <3> QED
      BY <1>2, <2>1, <2>2, <3>1 DEF InUse
  <2>6. ServerEdits => data.secret \in Secrets
    BY FileKinds DEF FileInv, FileTypes, HoldsData
  <2> QED
    <3>1. stored'.is = "enrolled" => stored'.secret = k
      BY <2>1, <2>4, FileFacts
    <3>2. \A c \in Codes : <<k, c>> \notin accepted
      BY <2>4 DEF BInv, FilesInUse, InUse
    <3>3. FilesInUse'
      BY <1>1, <2>5, <2>6, <3>1 DEF BInv, FilesInUse, ServerEdits
    <3>4. AcceptedAreCrossed' /\ BackupCodeOnce'
      BY <1>1, <3>1, <3>2 DEF BInv, AcceptedAreCrossed, Crossed, ServerEdits, BackupCodeOnce
    <3> QED
      BY <2>3, <3>3, <3>4 DEF BInv
<1> QED
  BY <1>3, <1>4, <1>5 DEF Command

LEMMA ServerCodes == ASSUME FileInv, BInv, ServerEdit PROVE BInv'
<1>1. UNCHANGED <<unused, doing, mine>>
  BY DEF ServerEdit, TakeBackupCode, Attempt, SaveBegins, SaveEnds, Die, commands
<1>2. OwnSecrets' /\ \A k : InUse(k)' <=> InUse(k)
  BY <1>1 DEF BInv, OwnSecrets, InUse
<1>3. CASE \E c \in Codes : TakeBackupCode(c)
  <2>1. PICK c \in Codes : TakeBackupCode(c)
    BY <1>3
  <2>2. /\ stored \in Files /\ stored.is = "enrolled" /\ c \in stored.codes /\ stored' = stored
        /\ spent' = c /\ data' = Enrolment(stored.secret, stored.codes \ {c})
        /\ UNCHANGED <<accepted, reused>>
    BY <2>1 DEF TakeBackupCode, Attempt, IsEnabled, totp, FileInv, FileTypes
  <2>3. data'.secret = stored.secret /\ data'.codes = stored.codes \ {c}
    BY <2>2, FileFacts
  <2>4. FilesInUse'
    BY <1>2, <2>2, <2>3 DEF BInv, FilesInUse
  <2> QED
    BY <1>2, <2>2, <2>3, <2>4 DEF BInv, AcceptedAreCrossed, Crossed, BackupCodeOnce
<1>4. CASE SaveBegins
  BY <1>2, <1>4, FileFacts DEF SaveBegins, Empties, Change, BInv, FilesInUse, AcceptedAreCrossed,
     Crossed, ServerEdits, BackupCodeOnce
<1>5. CASE SaveEnds
  <2>1. /\ phase = "saving" /\ phase' \in {"idle", "creating"} /\ ServerEdits /\ ~ServerEdits'
        /\ stored' \in {Missing, Torn, data}
        /\ (UNCHANGED <<accepted, reused>>
            \/ (accepted' = accepted \cup {<<data.secret, spent>>}
                /\ reused' = (reused \/ <<data.secret, spent>> \in accepted)))
    BY <1>5 DEF SaveEnds, Writes, ServerEdits
  <2>2. PICK k \in Secrets, c \in Codes : k = data.secret /\ c = spent
    BY <2>1, FileKinds DEF FileInv, FileTypes, HoldsData
  <2>3. InUse(k) /\ c \notin data.codes /\ <<k, c>> \notin accepted
    BY <2>1, <2>2 DEF BInv, FilesInUse, AcceptedAreCrossed, Crossed, FileInv, HoldsData
  <2>4. BackupCodeOnce'
    BY <2>1, <2>2, <2>3 DEF BInv, BackupCodeOnce
  <2>5. FilesInUse'
    BY <1>2, <2>1, <2>2, <2>3, FileFacts DEF BInv, FilesInUse
  <2>6. AcceptedAreCrossed'
    BY <2>1, <2>2, <2>3, FileFacts DEF BInv, AcceptedAreCrossed, Crossed
  <2> QED
    BY <1>2, <2>4, <2>5, <2>6 DEF BInv
<1>6. CASE Die
  BY <1>2, <1>6 DEF Die, Forget, BInv, FilesInUse, AcceptedAreCrossed, Crossed, ServerEdits,
     BackupCodeOnce
<1> QED
  BY <1>3, <1>4, <1>5, <1>6 DEF ServerEdit

\* No backup code lets somebody in twice, whatever commands edit the file meanwhile,
\* whoever writes what was outdated, and whenever the daemon is killed.
THEOREM BackupCodesWorkOnce == Spec => []BackupCodeOnce
<1>1. Init => BInv
  BY Identities, FileFacts DEF Init, BInv, OwnSecrets, FilesInUse, AcceptedAreCrossed,
     ServerEdits, BackupCodeOnce
<1>2. FileInv /\ BInv /\ [Next]_vars => BInv'
  BY StepsOnFiles, UntouchedCodes, CommandCodes, ServerCodes DEF FileInv
<1>3. BInv => BackupCodeOnce
  BY DEF BInv
<1> QED
  BY <1>1, <1>2, <1>3, FileInvInvariant, PTL DEF Spec

-----------------------------------------------------------------------------
(* Sessions *)

SessionTypes ==
    /\ session \in [Tokens -> {Missing, Torn} \cup {Session(c) : c \in 0..MaxTime}]
    /\ fresh \subseteq Tokens /\ token \in Tokens \cup {NoToken}
    /\ issued \subseteq Tokens \X (0..MaxTime)
    /\ purging \subseteq Tokens /\ doomed \in Tokens \cup {NoToken} /\ halfRead \subseteq Tokens
    /\ now \in 0..MaxTime

\* A token that was not generated has no file, and nobody goes by it.
FreshAreNobodys == \A s \in fresh :
    session[s] = Missing /\ s # token /\ s \notin purging /\ s # doomed

\* The session that is being created is nobody's yet, and is whole when it is handed over.
Created ==
    /\ phase \in {"writing", "closing"} => token \in Tokens
    /\ \A s \in Tokens : token = s /\ phase = "writing" => session[s] \in {Missing, Torn}
    /\ \A s \in Tokens : token = s /\ phase = "closing" => session[s] # Torn

\* A file that a purge will remove was outdated or not yet written when it was read.
DoomedAreOver == \A s \in Tokens :
    doomed = s => s \in halfRead \/ session[s] = Missing \/ Expired(s)

\* A browser's session was written once.
IssuedStay == \A s \in Tokens, c \in 0..MaxTime : <<s, c>> \in issued =>
    /\ s \notin fresh /\ s # token
    /\ session[s] \in {Missing, Session(c)}

\* SessionsHold, for a session given by its token and the time it was created.
Holds == \A s \in Tokens, c \in 0..MaxTime :
    <<s, c>> \in issued /\ session[s] = Missing => s \in halfRead \/ now - c > TTL

SessionInv == SessionTypes /\ FreshAreNobodys /\ Created /\ DoomedAreOver /\ IssuedStay /\ Holds

\* Every step that uses no session's file.
SessionsUntouched ==
    /\ UNCHANGED <<sessions, purge>>
    /\ now' = now \/ (now < MaxTime /\ now' = now + 1)
    /\ phase' = phase \/ phase' \notin {"writing", "closing"}

SessionFile(s) == Open(s) \/ Validate(s) \/ LookAt(s)

LEMMA StepsOnSessions ==
    ASSUME FileInv, [Next]_vars
    PROVE  \/ \E s \in Tokens : SessionFile(s)
           \/ WriteSession \/ Handover \/ BeginPurge \/ Unlink \/ Die \/ Start
           \/ SessionsUntouched
<1>1. ASSUME NEW p \in Commands, Command(p) PROVE SessionsUntouched
  BY <1>1 DEF Command, BeginSetup, BeginDisable, Confirm, SaveSetup, Disable, Quit, Exit, server,
     SessionsUntouched
<1>2. CASE Ask \/ TooMany \/ \E c \in Codes : TakeBackupCode(c)
  BY <1>2 DEF Ask, TooMany, TakeBackupCode, Attempt, SessionsUntouched
<1>3. CASE WrongCode \/ RightCode
  BY <1>3 DEF WrongCode, RightCode, RecordAttempt, Attempt, SessionsUntouched
<1>4. CASE SaveBegins \/ Mint \/ CreateFails \/ UNCHANGED vars
  BY <1>4 DEF SaveBegins, Mint, CreateFails, SessionStep, vars, server, SessionsUntouched
<1>5. CASE SaveEnds
  <2>1. now < MaxTime
    BY <1>5 DEF SaveEnds, FileInv, HoldsData, ServerEdits
  <2> QED
    BY <1>5, <2>1 DEF SaveEnds, RecordAttempt, SessionsUntouched
<1>6. CASE Tick
  BY <1>6 DEF Tick, server, SessionsUntouched
<1> QED
  BY <1>1, <1>2, <1>3, <1>4, <1>5, <1>6 DEF Next, Command, SessionFile

LEMMA TimeGoesOn ==
    ASSUME NEW x \in Int, NEW y \in Int, NEW c \in Int, NEW d \in Int, y >= x
    PROVE  x - c > d => y - c > d
OBVIOUS

\* What has expired stays so.
LEMMA UntouchedSessions == ASSUME SessionInv, SessionsUntouched PROVE SessionInv'
<1>1. now \in 0..MaxTime /\ now' \in 0..MaxTime /\ now' >= now
      /\ MaxTime \in Nat /\ TTL \in Nat
  BY Bounds DEF SessionInv, SessionTypes, SessionsUntouched
<1>2. UNCHANGED <<session, fresh, token, issued, purging, doomed, halfRead>>
  BY DEF SessionsUntouched, sessions, purge
<1>3. SessionTypes' /\ FreshAreNobodys' /\ IssuedStay'
  BY <1>1, <1>2 DEF SessionInv, SessionTypes, FreshAreNobodys, IssuedStay
<1>4. Created'
  BY <1>2 DEF SessionInv, Created, SessionsUntouched
<1>5. \A s \in Tokens : Expired(s) => Expired(s)'
  <2> SUFFICES ASSUME NEW s \in Tokens, Expired(s) PROVE Expired(s)'
    OBVIOUS
  <2>1. session[s].created \in 0..MaxTime
    BY FileFacts DEF Expired, SessionInv, SessionTypes
  <2> QED
    BY <1>1, <1>2, <2>1 DEF Expired
<1>6. DoomedAreOver'
  <2> SUFFICES ASSUME NEW s \in Tokens, doomed' = s
               PROVE  s \in halfRead' \/ session'[s] = Missing \/ Expired(s)'
    BY DEF DoomedAreOver
  <2>1. s \in halfRead \/ session[s] = Missing \/ Expired(s)
    BY <1>2 DEF SessionInv, DoomedAreOver
  <2>2. Expired(s) => Expired(s)'
    BY <1>5
  <2> QED
    BY <1>2, <2>1, <2>2
<1>7. Holds'
  <2> SUFFICES ASSUME NEW s \in Tokens, NEW c \in 0..MaxTime, <<s, c>> \in issued, session[s] = Missing
               PROVE  s \in halfRead \/ now' - c > TTL
    BY <1>2 DEF Holds
  <2>1. s \in halfRead \/ now - c > TTL
    BY DEF SessionInv, Holds
  <2>2. PICK x \in Int, y \in Int : x = now /\ y = now' /\ y >= x /\ TTL \in Int /\ c \in Int
    BY <1>1
  <2> QED
    BY <2>1, <2>2, TimeGoesOn
<1> QED
  BY <1>3, <1>4, <1>6, <1>7 DEF SessionInv

\* A step that leaves the clock and the files alone, or removes files.
LEMMA RemovalKeepsDoomed ==
    ASSUME SessionInv, UNCHANGED <<now, doomed, halfRead>>,
           \A s \in Tokens : session'[s] \in {session[s], Missing}
    PROVE  DoomedAreOver'
<1> SUFFICES ASSUME NEW s \in Tokens, doomed' = s
             PROVE  s \in halfRead' \/ session'[s] = Missing \/ Expired(s)'
  BY DEF DoomedAreOver
<1>1. s \in halfRead \/ session[s] = Missing \/ Expired(s)
  BY DEF SessionInv, DoomedAreOver
<1> QED
  BY <1>1 DEF Expired

LEMMA OpenKeepsSessions == ASSUME SessionInv, NEW s \in Tokens, Open(s) PROVE SessionInv'
<1>1. /\ phase = "creating" /\ phase' = "writing" /\ s \in fresh /\ fresh' = fresh \ {s}
      /\ token' = s /\ session' = [session EXCEPT ![s] = Torn]
      /\ UNCHANGED <<now, issued, purging, doomed, halfRead>>
  BY DEF Open, SessionStep, purge
<1>2. session'[s] = Torn /\ \A r \in Tokens \ {s} : session'[r] = session[r]
  BY <1>1 DEF SessionInv, SessionTypes
<1>3. s # doomed /\ s \notin purging /\ NoToken \notin Tokens
      /\ \A c \in 0..MaxTime : <<s, c>> \notin issued
  BY <1>1, Identities DEF SessionInv, FreshAreNobodys, IssuedStay
<1>4. SessionTypes' /\ FreshAreNobodys'
  BY <1>1, <1>2, <1>3 DEF SessionInv, SessionTypes, FreshAreNobodys
<1>5. Created' /\ IssuedStay' /\ Holds'
  BY <1>1, <1>2, <1>3 DEF SessionInv, Created, IssuedStay, Holds
<1>6. \A r \in Tokens \ {s} : Expired(r)' <=> Expired(r)
  BY <1>1, <1>2 DEF Expired
<1>7. DoomedAreOver'
  <2> SUFFICES ASSUME NEW r \in Tokens, doomed' = r
               PROVE  r \in halfRead' \/ session'[r] = Missing \/ Expired(r)'
    BY DEF DoomedAreOver
  <2>1. r # s /\ (r \in halfRead \/ session[r] = Missing \/ Expired(r))
    BY <1>1, <1>3 DEF SessionInv, DoomedAreOver
  <2> QED
    BY <1>1, <1>2, <1>6, <2>1
<1> QED
  BY <1>4, <1>5, <1>7 DEF SessionInv

LEMMA WriteKeepsSessions == ASSUME SessionInv, WriteSession PROVE SessionInv'
<1>1. PICK s \in Tokens : s = token
  BY DEF WriteSession, SessionStep, SessionInv, Created
<1>2. /\ phase = "writing" /\ phase' = "closing"
      /\ session' = [session EXCEPT ![s] = IF @ = Missing THEN @ ELSE Session(now)]
      /\ UNCHANGED <<now, fresh, token, issued, purging, doomed, halfRead>>
  BY <1>1 DEF WriteSession, SessionStep, purge
<1>3. /\ session[s] \in {Missing, Torn} /\ session'[s] \in {Missing, Session(now)}
      /\ (session[s] = Missing => session'[s] = Missing)
      /\ \A r \in Tokens \ {s} : session'[r] = session[r]
  <2>1. session[s] \in {Missing, Torn}
    BY <1>1, <1>2 DEF SessionInv, Created
  <2>2. session'[s] = (IF session[s] = Missing THEN session[s] ELSE Session(now))
        /\ \A r \in Tokens \ {s} : session'[r] = session[r]
    BY <1>2 DEF SessionInv, SessionTypes
  <2> QED
    BY <2>1, <2>2
<1>4. s \notin fresh /\ \A c \in 0..MaxTime : <<s, c>> \notin issued
  BY <1>1 DEF SessionInv, FreshAreNobodys, IssuedStay
<1>5. SessionTypes'
  <2>1. session' \in [Tokens -> {Missing, Torn} \cup {Session(c) : c \in 0..MaxTime}]
    BY <1>1 DEF WriteSession, SessionInv, SessionTypes
  <2> QED
    BY <1>2, <2>1 DEF SessionInv, SessionTypes
<1>6. FreshAreNobodys' /\ Created' /\ IssuedStay' /\ Holds'
  <2>1. FreshAreNobodys'
    BY <1>2, <1>4, <1>3 DEF SessionInv, FreshAreNobodys
  <2>2. Created'
    BY <1>1, <1>2, <1>3, FileFacts DEF SessionInv, Created
  <2>3. IssuedStay'
    BY <1>2, <1>4, <1>3 DEF SessionInv, IssuedStay
  <2>4. Holds'
    BY <1>2, <1>4, <1>3 DEF SessionInv, Holds
  <2> QED
    BY <2>1, <2>2, <2>3, <2>4
<1>7. ~Expired(s)
  BY <1>3, FileFacts DEF Expired
<1>8. DoomedAreOver'
  <2> SUFFICES ASSUME NEW r \in Tokens, doomed' = r
               PROVE  r \in halfRead' \/ session'[r] = Missing \/ Expired(r)'
    BY DEF DoomedAreOver
  <2>1. r \in halfRead \/ session[r] = Missing \/ Expired(r)
    BY <1>2 DEF SessionInv, DoomedAreOver
  <2>2. CASE r = s
    BY <1>2, <1>7, <1>3, <2>1, <2>2
  <2>3. CASE r # s
    BY <1>2, <1>3, <2>1, <2>3 DEF Expired
  <2> QED
    BY <2>2, <2>3
<1> QED
  BY <1>5, <1>6, <1>8 DEF SessionInv

LEMMA HandoverKeepsSessions == ASSUME SessionInv, Handover PROVE SessionInv'
<1>1. PICK s \in Tokens : s = token
  BY DEF Handover, SessionStep, SessionInv, Created
<1>2. /\ phase' = "idle" /\ token' = NoToken /\ session[s] # Torn /\ NoToken \notin Tokens
      /\ issued' = IF session[s] = Missing THEN issued ELSE issued \cup {<<s, session[s].created>>}
      /\ UNCHANGED <<now, session, fresh, purging, doomed, halfRead>>
  BY <1>1, Identities DEF Handover, SessionStep, SessionInv, Created, purge
<1>3. PICK c \in 0..MaxTime : session[s] # Missing => session[s] = Session(c)
  BY <1>2, Bounds DEF SessionInv, SessionTypes
<1>4. issued' \subseteq issued \cup {<<s, c>>} /\ (<<s, c>> \in issued' => <<s, c>> \in issued \/ session[s] = Session(c))
      /\ (session[s] = Missing => issued' = issued)
  BY <1>2, <1>3, FileFacts
<1>5. s \notin fresh /\ \A d \in 0..MaxTime : <<s, d>> \notin issued
  BY <1>1 DEF SessionInv, FreshAreNobodys, IssuedStay
<1>6. SessionTypes' /\ FreshAreNobodys' /\ Created'
  BY <1>2, <1>4 DEF SessionInv, SessionTypes, FreshAreNobodys, Created
<1>7. \A r \in Tokens, d \in 0..MaxTime : <<r, d>> \in issued' =>
        <<r, d>> \in issued \/ (r = s /\ d = c /\ session[s] = Session(c))
  BY <1>4, <1>5
<1>8. IssuedStay' /\ Holds'
  <2>1. IssuedStay'
    BY <1>2, <1>5, <1>7 DEF SessionInv, IssuedStay
  <2>2. Holds'
    BY <1>2, <1>7, FileFacts DEF SessionInv, Holds
  <2> QED
    BY <2>1, <2>2
<1>9. DoomedAreOver'
  BY <1>2, RemovalKeepsDoomed
<1> QED
  BY <1>6, <1>8, <1>9 DEF SessionInv

\* Whoever removes files removes what has expired or was not written when he read it.
LEMMA RemovalKeepsSessions ==
    ASSUME SessionInv, UNCHANGED <<now, fresh, issued, purging, doomed, halfRead>>,
           \A s \in Tokens : session'[s] = session[s]
              \/ (session'[s] = Missing /\ (Expired(s) \/ session[s] = Torn \/ s \in halfRead)),
           session' \in [Tokens -> {Missing, Torn} \cup {Session(c) : c \in 0..MaxTime}],
           UNCHANGED <<phase, token>> \/ (phase' = "idle" /\ token' = NoToken)
    PROVE  SessionInv'
<1>1. NoToken \notin Tokens
  BY Identities
<1>2. SessionTypes' /\ FreshAreNobodys' /\ Created'
  BY <1>1, FileFacts DEF SessionInv, SessionTypes, FreshAreNobodys, Created
<1>3. DoomedAreOver'
  BY RemovalKeepsDoomed
<1>4. IssuedStay'
  BY <1>1 DEF SessionInv, IssuedStay
<1>5. Holds'
  <2> SUFFICES ASSUME NEW s \in Tokens, NEW c \in 0..MaxTime, <<s, c>> \in issued, session'[s] = Missing
               PROVE  s \in halfRead \/ now - c > TTL
    BY DEF Holds
  <2>1. session[s] = Missing \/ session[s] = Session(c)
    BY DEF SessionInv, IssuedStay
  <2>2. CASE session[s] = Missing
    BY <2>2 DEF SessionInv, Holds
  <2>3. CASE session[s] = Session(c)
    BY <2>3, FileFacts DEF Expired
  <2> QED
    BY <2>1, <2>2, <2>3
<1> QED
  BY <1>2, <1>3, <1>4, <1>5 DEF SessionInv

LEMMA PurgeKeepsSessions ==
    ASSUME SessionInv, BeginPurge \/ Unlink \/ \E s \in Tokens : LookAt(s)
    PROVE  SessionInv'
<1>1. CASE BeginPurge
  <2>1. /\ UNCHANGED <<now, phase, session, fresh, token, issued, doomed, halfRead>>
        /\ purging' = {s \in Tokens : session[s] # Missing}
    BY <1>1 DEF BeginPurge, server, sessions
  <2>2. DoomedAreOver'
    BY <2>1, RemovalKeepsDoomed
  <2> QED
    BY <2>1, <2>2 DEF SessionInv, SessionTypes, FreshAreNobodys, Created, IssuedStay, Holds
<1>2. ASSUME NEW s \in Tokens, LookAt(s) PROVE SessionInv'
  <2>1. /\ UNCHANGED <<now, phase, session, fresh, token, issued>>
        /\ s \in purging /\ purging' = purging \ {s} /\ doomed' \in {s, NoToken}
        /\ halfRead' \in {halfRead, halfRead \cup {s}}
        /\ (doomed' = s => s \in halfRead' \/ Expired(s))
    BY <1>2, Identities DEF LookAt, server, sessions
  <2>2. Expired(s) => Expired(s)'
    BY <2>1 DEF Expired
  <2>3. DoomedAreOver'
    BY <2>1, <2>2, Identities DEF DoomedAreOver
  <2>4. FreshAreNobodys' /\ Created' /\ IssuedStay' /\ Holds'
    BY <2>1, Identities DEF SessionInv, SessionTypes, FreshAreNobodys, Created, IssuedStay, Holds
  <2> QED
    BY <2>1, <2>3, <2>4 DEF SessionInv, SessionTypes
<1>3. CASE Unlink
  <2>1. PICK s \in Tokens : s = doomed
    BY <1>3 DEF Unlink, SessionInv, SessionTypes
  <2>2. /\ UNCHANGED <<now, phase, fresh, token, issued, purging, halfRead>>
        /\ session' = [session EXCEPT ![s] = Missing] /\ doomed' = NoToken
    BY <1>3, <2>1 DEF Unlink, server
  <2>3. session'[s] = Missing /\ \A r \in Tokens \ {s} : session'[r] = session[r]
    BY <2>2 DEF SessionInv, SessionTypes
  <2>4. SessionTypes' /\ FreshAreNobodys' /\ Created' /\ IssuedStay'
    BY <2>2, <2>3, FileFacts, Identities
       DEF SessionInv, SessionTypes, FreshAreNobodys, Created, IssuedStay
  <2>5. DoomedAreOver'
    BY <2>2, Identities DEF DoomedAreOver
  <2>6. ASSUME NEW c \in 0..MaxTime, <<s, c>> \in issued PROVE s \in halfRead \/ now - c > TTL
    <3>1. session[s] \in {Missing, Session(c)}
      BY <2>6 DEF SessionInv, IssuedStay
    <3>2. CASE session[s] = Missing
      BY <2>6, <3>2 DEF SessionInv, Holds
    <3>3. CASE session[s] = Session(c)
      BY <2>1, <3>3, FileFacts DEF SessionInv, DoomedAreOver, Expired
    <3> QED
      BY <3>1, <3>2, <3>3
  <2>7. Holds'
    BY <2>2, <2>3, <2>6 DEF SessionInv, Holds
  <2> QED
    BY <2>4, <2>5, <2>7 DEF SessionInv
<1> QED
  BY <1>1, <1>2, <1>3

LEMMA NextKeepsSessions == FileInv /\ SessionInv /\ [Next]_vars => SessionInv'
<1> SUFFICES ASSUME FileInv, SessionInv, [Next]_vars PROVE SessionInv'
  OBVIOUS
<1>1. ASSUME NEW s \in Tokens, Validate(s) PROVE SessionInv'
  <2>1. /\ Expired(s) /\ session' = [session EXCEPT ![s] = Missing]
        /\ UNCHANGED <<now, phase, token, fresh, issued, purging, doomed, halfRead>>
    BY <1>1 DEF Validate, server, purge
  <2> QED
    BY <2>1, RemovalKeepsSessions DEF SessionInv, SessionTypes
<1>2. CASE Start
  <2>1. /\ session' = [s \in Tokens |-> IF session[s] = Torn \/ Expired(s) THEN Missing ELSE session[s]]
        /\ UNCHANGED <<now, phase, token, fresh, issued, purging, doomed, halfRead>>
    BY <1>2 DEF Start, purge
  <2> QED
    BY <2>1, RemovalKeepsSessions DEF SessionInv, SessionTypes
<1>3. CASE Die
  <2>1. UNCHANGED <<now, session, fresh, issued, purging, doomed, halfRead>>
        /\ phase' = "idle" /\ token' = NoToken
    BY <1>3 DEF Die, purge
  <2> QED
    BY <2>1, RemovalKeepsSessions DEF SessionInv, SessionTypes
<1> QED
  BY <1>1, <1>2, <1>3, StepsOnSessions, UntouchedSessions, OpenKeepsSessions, WriteKeepsSessions,
     HandoverKeepsSessions, PurgeKeepsSessions DEF SessionFile

LEMMA SessionInvInvariant == Spec => []SessionInv
<1>1. Init => SessionInv
  BY Bounds, Identities DEF Init, SessionInv, SessionTypes, FreshAreNobodys, Created,
     DoomedAreOver, IssuedStay, Holds
<1> QED
  BY <1>1, NextKeepsSessions, FileInvInvariant, PTL DEF Spec

\* A browser's session holds for its lifetime, whatever else starts and purges,
\* whenever the daemon is killed, and however many sessions expire meanwhile:
\* unless a purge has read its file before it was written.
THEOREM SessionsLast == Spec => []SessionsHold
<1>1. SessionInv => SessionsHold
  <2> SUFFICES ASSUME SessionInv, NEW i \in issued, session[i[1]] = Missing
               PROVE  i[1] \in halfRead \/ now - i[2] > TTL
    BY DEF SessionsHold
  <2>1. PICK s \in Tokens, c \in 0..MaxTime : i = <<s, c>>
    BY DEF SessionInv, SessionTypes
  <2> QED
    BY <2>1 DEF SessionInv, Holds
<1> QED
  BY <1>1, SessionInvInvariant, PTL

-----------------------------------------------------------------------------
(* Types *)

\* What is left to say of the limiter and of the requests that wait.
Bounded ==
    /\ penalty \in LockoutBase..LockoutCap
    /\ up \in BOOLEAN /\ parked \in 0..MaxRequests

LEMMA AttemptBounded ==
    ASSUME penalty \in LockoutBase..LockoutCap, NEW ok \in BOOLEAN, RecordAttempt(ok)
    PROVE  penalty' \in LockoutBase..LockoutCap
BY Limits DEF RecordAttempt, Reset, Burst

LEMMA NextKeepsBounded == Bounded /\ [Next]_vars => Bounded'
<1> SUFFICES ASSUME Bounded, [Next]_vars PROVE Bounded'
  OBVIOUS
<1>1. ASSUME UNCHANGED <<limiter, up, parked>> PROVE Bounded'
  BY <1>1 DEF Bounded, limiter, lockouts
<1>2. ASSUME NEW p \in Commands, Command(p) PROVE Bounded'
  BY <1>1, <1>2 DEF Command, BeginSetup, BeginDisable, Confirm, SaveSetup, Disable, Quit, Exit, server
<1>3. CASE Ask \/ TooMany \/ WrongCode \/ RightCode \/ \E c \in Codes : TakeBackupCode(c)
  <2>1. up' = up
        /\ ((parked < MaxRequests /\ parked' = parked + 1) \/ (parked > 0 /\ parked' = parked - 1))
    BY <1>3 DEF Ask, TooMany, WrongCode, RightCode, TakeBackupCode, Attempt
  <2>2. parked' \in 0..MaxRequests
    BY <2>1, Bounds DEF Bounded
  <2>3. penalty' \in LockoutBase..LockoutCap
    BY <1>3, AttemptBounded
       DEF Ask, TooMany, WrongCode, RightCode, TakeBackupCode, limiter, lockouts, Bounded
  <2> QED
    BY <2>1, <2>2, <2>3 DEF Bounded
<1>4. CASE SaveEnds
  BY <1>4, AttemptBounded DEF SaveEnds, Bounded, limiter, lockouts
<1>5. CASE SaveBegins \/ Mint \/ CreateFails \/ WriteSession \/ Handover \/ BeginPurge \/ Unlink \/ Tick
           \/ UNCHANGED vars
  BY <1>1, <1>5 DEF SaveBegins, Mint, CreateFails, WriteSession, Handover, SessionStep, BeginPurge, Unlink,
     Tick, server, vars
<1>6. ASSUME NEW s \in Tokens, SessionFile(s) PROVE Bounded'
  BY <1>1, <1>6 DEF SessionFile, Open, SessionStep, Validate, LookAt, server
<1>7. CASE Die
  <2>1. up' = FALSE /\ parked' = 0 /\ penalty' = LockoutBase
    BY <1>7 DEF Die, Reset
  <2>2. LockoutBase \in LockoutBase..LockoutCap /\ 0 \in 0..MaxRequests
    BY Bounds, Limits
  <2> QED
    BY <2>1, <2>2 DEF Bounded
<1>8. CASE Start
  <2>1. up' = TRUE /\ parked' = parked /\ penalty' = penalty
    BY <1>8 DEF Start, limiter, lockouts
  <2> QED
    BY <2>1 DEF Bounded
<1> QED
  BY <1>2, <1>3, <1>4, <1>5, <1>6, <1>7, <1>8 DEF Next, Command, SessionFile

\* The variables have their types, and no more attempts are on record than it takes
\* to be refused.
THEOREM SecondFactorTypeCorrect == Spec => []TypeOK
<1>1. Init => Bounded
  BY Bounds, Limits DEF Init, Bounded
<1>2. LimiterInv /\ FileInv /\ SessionInv /\ Bounded => TypeOK
  <2> SUFFICES ASSUME LimiterInv, FileInv, SessionInv, Bounded PROVE TypeOK
    OBVIOUS
  <2>1. 0..now \subseteq 0..MaxTime
    BY Bounds DEF SessionInv, SessionTypes
  <2>2. /\ attempts \subseteq 0..MaxTime /\ Cardinality(attempts) <= MaxAttempts
        /\ failures \subseteq 0..MaxTime /\ renewals \subseteq 0..MaxTime
        /\ lockoutUntil \in Nat /\ level \in Nat /\ bursts \in Nat /\ since \in Nat
    BY <2>1 DEF LimiterInv, LimiterTypeOK
  <2> QED
    BY <2>2 DEF FileInv, FileTypes, SessionInv, SessionTypes, Bounded, TypeOK
<1>3. Spec => []LimiterInv
  BY InitLimiterInv, NextKeepsLimiterInv, PTL DEF Spec
<1>4. Spec => []Bounded
  BY <1>1, NextKeepsBounded, PTL DEF Spec
<1> QED
  BY <1>2, <1>3, <1>4, FileInvInvariant, SessionInvInvariant, PTL
=============================================================================
