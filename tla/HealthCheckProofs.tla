-------------------------- MODULE HealthCheckProofs --------------------------
(***************************************************************************)
(* What the health checks of a group promise for any number of checkers,   *)
(* checks, hosts, AMIs and faults: whatever beans read before their locks  *)
(* are written over each other, a group gets a new AMI only after a host   *)
(* launched with it has served.                                            *)
(***************************************************************************)
EXTENDS HealthCheck, FiniteSetTheorems, TLAPS

\* Ids are given in order, so that no check and no host is given twice.
Numbered ==
  /\ \E n \in 0 .. MaxChecks : Rows = 1 .. n
  /\ \E n \in 0 .. MaxHosts : Launched = 1 .. n

\* Some host of check c has served, of the hosts V.
Verified(V, c) == \E h \in Hosts : V[h] # Null /\ V[h].check = c /\ V[h].agents = "serving"

\* A bean of check c, in the table R or in the hands of a worker, old as it may
\* be: its AMI is the one of the check, its host was launched for the check, and
\* if it says QUALIFIED, some host of the check has served.
Good(R, V, c, b) ==
  /\ b.ami = R[c].ami
  /\ b.host # Null => b.host \in Hosts /\ V[b.host] # Null /\ V[b.host].check = c
  /\ b.state \in {"LAUNCHING", "PENDING_VERIFY"} \/ b.terminated # Null => b.host # Null
  /\ b.status = "QUALIFIED" => Verified(V, c)

Sound ==
  /\ \A c \in Rows : Good(row, vm, c, row[c])
  /\ \A w \in Checkers, c \in Checks :
       batch[w][c] # Null => c \in Rows /\ Good(row, vm, c, batch[w][c])
  /\ \A c \in Checks : doomed[c] # Null =>
       c \in Rows /\ Good(row, vm, c, doomed[c]) /\ doomed[c].host # Null /\ row[c].host # Null
  /\ \A w \in Checkers : updating[w] # Null =>
       batch[w][updating[w]] # Null /\ batch[w][updating[w]].status = "QUALIFIED"
  /\ \A h \in Launched : vm[h].check \in Rows

IInv == TypeOK /\ Numbered /\ Sound /\ AmiWasVerified

-----------------------------------------------------------------------------
\* What no step takes back.
Keeps ==
  /\ Rows \subseteq Rows' /\ Launched \subseteq Launched'
  /\ \A c \in Rows : row'[c].ami = row[c].ami /\ (row[c].host # Null => row'[c].host # Null)
  /\ \A h \in Launched : /\ vm'[h].check = vm[h].check
                         /\ vm[h].agents = "serving" => vm'[h].agents = "serving"

LEMMA NullIsNoBean == \A b \in Bean : b # Null
BY HealthCheckAssumption

LEMMA GoodStays ==
  ASSUME Keeps, NEW c \in Rows, NEW b, Good(row, vm, c, b)
  PROVE  Good(row', vm', c, b)
<1>1. \A h \in Hosts : vm[h] # Null => /\ vm'[h] # Null /\ vm'[h].check = vm[h].check
                                       /\ vm[h].agents = "serving" => vm'[h].agents = "serving"
  BY DEF Keeps, Launched
<1>2. Verified(vm, c) => Verified(vm', c)
  BY <1>1 DEF Verified
<1> QED BY <1>1, <1>2 DEF Keeps, Good

(***************************************************************************)
(* The invariant after a step: rows are as before or Good, beans are kept, *)
(* dropped or read from the table, and a new AMI has served.               *)
(***************************************************************************)
LEMMA StepKeeps ==
  ASSUME IInv, TypeOK', Numbered', Keeps,
         \A c \in Rows' : (c \in Rows /\ row'[c] = row[c]) \/ Good(row', vm', c, row'[c]),
         \A w \in Checkers, c \in Checks :
           batch'[w][c] \in {Null, batch[w][c]} \/ (c \in Rows /\ batch'[w][c] = row[c]),
         \A c \in Checks :
           doomed'[c] \in {Null, doomed[c]} \/ (c \in Rows /\ doomed'[c] = row[c] /\ row[c].host # Null),
         \A w \in Checkers : updating'[w] # Null =>
           batch'[w][updating'[w]] # Null /\ batch'[w][updating'[w]].status = "QUALIFIED",
         \A h \in Launched' \ Launched : vm'[h].check \in Rows',
         image' = image \/ \E h \in Launched : vm[h].agents = "serving" /\ row[vm[h].check].ami = image'
  PROVE  IInv'
<1>1. \A c \in Rows' : Good(row', vm', c, row'[c])
  <2> SUFFICES ASSUME NEW c \in Rows', c \in Rows, row'[c] = row[c] PROVE Good(row', vm', c, row'[c])
    OBVIOUS
  <2> QED BY GoodStays DEF IInv, Sound
<1>2. ASSUME NEW w \in Checkers, NEW c \in Checks, batch'[w][c] # Null
      PROVE  c \in Rows' /\ Good(row', vm', c, batch'[w][c])
  <2>1. c \in Rows /\ Good(row, vm, c, batch'[w][c])
    BY <1>2 DEF IInv, Sound
  <2>2. Good(row', vm', c, batch'[w][c])
    BY <2>1, GoodStays
  <2> QED BY <2>1, <2>2 DEF Keeps
<1>3. ASSUME NEW c \in Checks, doomed'[c] # Null
      PROVE  c \in Rows' /\ Good(row', vm', c, doomed'[c]) /\ doomed'[c].host # Null /\ row'[c].host # Null
  <2>1. c \in Rows /\ Good(row, vm, c, doomed'[c]) /\ doomed'[c].host # Null /\ row[c].host # Null
    BY <1>3 DEF IInv, Sound
  <2>2. Good(row', vm', c, doomed'[c])
    BY <2>1, GoodStays
  <2> QED BY <2>1, <2>2 DEF Keeps
<1>4. \A h \in Launched' : vm'[h].check \in Rows'
  BY DEF IInv, Sound, Keeps
<1>5. Sound'
  BY <1>1, <1>2, <1>3, <1>4 DEF Sound
<1>6. AmiWasVerified'
  <2> SUFFICES ASSUME image' # 1
               PROVE  \E h \in Launched' : vm'[h].agents = "serving" /\ row'[vm'[h].check].ami = image'
    BY DEF AmiWasVerified
  <2>1. PICK h \in Launched : vm[h].agents = "serving" /\ row[vm[h].check].ami = image'
    BY DEF IInv, AmiWasVerified
  <2>2. vm[h].check \in Rows
    BY DEF IInv, Sound
  <2>3. h \in Launched' /\ vm'[h].agents = "serving" /\ row'[vm'[h].check].ami = image'
    BY <2>1, <2>2 DEF Keeps
  <2> QED BY <2>3
<1> QED BY <1>5, <1>6 DEF IInv

(***************************************************************************)
(* transistionState                                                        *)
(***************************************************************************)
LEMMA MovedIs ==
  ASSUME TypeOK, NEW c \in Rows, NEW b \in Bean, NEW s \in State, NEW t \in Status \cup {Null}
  PROVE  /\ Moved(c, b, s, t) \in [Checks -> Bean \cup {Null}]
         /\ \A d \in Checks : d # c => Moved(c, b, s, t)[d] = row[d]
         /\ Moved(c, b, s, t)[c] \in Bean
         /\ Moved(c, b, s, t)[c].ami = row[c].ami
         /\ Moved(c, b, s, t)[c].state = s
         /\ Moved(c, b, s, t)[c].status = IF t = Null THEN row[c].status ELSE t
         /\ Moved(c, b, s, t)[c].host = IF b.host = Null THEN row[c].host ELSE b.host
         /\ Moved(c, b, s, t)[c].terminated =
              IF b.terminated = Null THEN row[c].terminated ELSE b.terminated
<1> DEFINE st == IF t = Null THEN row[c].status ELSE t
           ho == IF b.host = Null THEN row[c].host ELSE b.host
           te == IF b.terminated = Null THEN row[c].terminated ELSE b.terminated
           r == [row[c] EXCEPT !.state = s, !.status = st, !.host = ho, !.terminated = te]
<1>1. c \in Checks /\ row[c] \in Bean /\ row \in [Checks -> Bean \cup {Null}]
  BY DEF TypeOK, Rows
<1>2. Moved(c, b, s, t) = [row EXCEPT ![c] = r]
  BY DEF Moved
<1>3. st \in Status /\ ho \in Hosts \cup {Null} /\ te \in BOOLEAN \cup {Null}
  BY <1>1 DEF Bean
<1>4. r \in Bean /\ r.ami = row[c].ami /\ r.state = s /\ r.status = st /\ r.host = ho
      /\ r.terminated = te
  <2> HIDE DEF st, ho, te
  <2> QED BY <1>1, <1>3 DEF Bean
<1> HIDE DEF r
<1>5. /\ [row EXCEPT ![c] = r] \in [Checks -> Bean \cup {Null}]
      /\ [row EXCEPT ![c] = r][c] = r
      /\ \A d \in Checks : d # c => [row EXCEPT ![c] = r][d] = row[d]
  BY <1>1, <1>4
<1> QED BY <1>2, <1>4, <1>5

LEMMA DoneIs ==
  ASSUME TypeOK, NEW w \in Checkers, NEW c \in Checks, Done(w, c)
  PROVE  /\ batch' \in [Checkers -> [Checks -> Bean \cup {Null}]]
         /\ \A v \in Checkers, d \in Checks :
              batch'[v][d] = IF v = w /\ d = c THEN Null ELSE batch[v][d]
<1>1. batch' = [batch EXCEPT ![w][c] = Null] /\ batch \in [Checkers -> [Checks -> Bean \cup {Null}]]
  BY DEF Done, TypeOK
<1>2. \A v \in Checkers, d \in Checks :
        batch'[v][d] = IF v = w /\ d = c THEN Null ELSE batch[v][d]
  BY <1>1
<1> DEFINE f == [batch[w] EXCEPT ![c] = Null]
<1>3. batch' = [batch EXCEPT ![w] = f]
  BY <1>1
<1>4. f \in [Checks -> Bean \cup {Null}]
  BY <1>1
<1> HIDE DEF f
<1> QED BY <1>1, <1>2, <1>3, <1>4

\* One bean b judged under its lock: its row becomes Good, or is left alone.
LEMMA Judged ==
  ASSUME IInv, NEW w \in Checkers, NEW c \in Rows, NEW b \in Bean,
         NEW s \in State, NEW t \in Status \cup {Null},
         Done(w, c), Saved(Moved(c, b, s, t)),
         vm' \in [Hosts -> Vm \cup {Null}], Launched \subseteq Launched',
         \E n \in 0 .. MaxHosts : Launched' = 1 .. n,
         \A h \in Launched : vm'[h] = vm[h],
         \A h \in Launched' \ Launched : vm'[h].check = c,
         image' \in Amis, scaling' \in BOOLEAN, doomed' = doomed,
         updating[w] = Null \/ updating[w] = c,
         updating' = [updating EXCEPT ![w] = Null],
         b.ami = row[c].ami,
         b.host # Null => b.host \in Launched' /\ vm'[b.host].check = c,
         b.terminated # Null => b.host # Null,
         s \in {"LAUNCHING", "PENDING_VERIFY"} => b.host # Null,
         t = "QUALIFIED" => Verified(vm, c),
         image' = image \/ \E h \in Launched : vm[h].agents = "serving" /\ row[vm[h].check].ami = image'
  PROVE  IInv'
<1> DEFINE new == Moved(c, b, s, t)
<1>0. TypeOK /\ c \in Checks
  BY DEF IInv, Rows
<1>1. /\ new \in [Checks -> Bean \cup {Null}] /\ new[c] \in Bean
      /\ \A d \in Checks : d # c => new[d] = row[d]
      /\ new[c].ami = row[c].ami /\ new[c].state = s
      /\ new[c].status = IF t = Null THEN row[c].status ELSE t
      /\ new[c].host = IF b.host = Null THEN row[c].host ELSE b.host
      /\ new[c].terminated = IF b.terminated = Null THEN row[c].terminated ELSE b.terminated
  BY <1>0, MovedIs
<1> HIDE DEF new
<1>2. (row' = new \/ row' = row) /\ faults' \in 0 .. MaxFaults
  BY <1>0, HealthCheckAssumption DEF Saved, TypeOK, new
<1>3. Rows' = Rows
  BY <1>1, <1>2, <1>0, NullIsNoBean DEF Rows
<1>4. /\ batch' \in [Checkers -> [Checks -> Bean \cup {Null}]]
      /\ \A v \in Checkers, d \in Checks :
           batch'[v][d] = IF v = w /\ d = c THEN Null ELSE batch[v][d]
  BY <1>0, DoneIs
<1>5. updating' \in [Checkers -> Checks \cup {Null}]
  BY <1>0 DEF TypeOK
<1>6. TypeOK'
  BY <1>0, <1>1, <1>2, <1>4, <1>5 DEF TypeOK
<1>7. Numbered'
  BY <1>3 DEF IInv, Numbered
<1>8. Keeps
  <2>1. \A d \in Rows : row'[d].ami = row[d].ami /\ (row[d].host # Null => row'[d].host # Null)
    BY <1>1, <1>2 DEF Rows
  <2> QED BY <1>3, <2>1 DEF Keeps
<1>9. \A d \in Rows' : (d \in Rows /\ row'[d] = row[d]) \/ Good(row', vm', d, row'[d])
  <2> SUFFICES ASSUME row' = new PROVE Good(row', vm', c, row'[c])
    BY <1>1, <1>2, <1>3 DEF Rows
  <2>1. Good(row, vm, c, row[c])
    BY DEF IInv, Sound
  <2>2. Good(row', vm', c, row[c])
    BY <1>8, <2>1, GoodStays
  <2>3. row'[c].host # Null => row'[c].host \in Hosts /\ vm'[row'[c].host] # Null /\ vm'[row'[c].host].check = c
    BY <1>1, <2>2 DEF Good, Launched
  <2>4. s \in {"LAUNCHING", "PENDING_VERIFY"} \/ row'[c].terminated # Null => row'[c].host # Null
    BY <1>1, <2>2 DEF Good, Launched
  <2>6. Verified(vm, c) => Verified(vm', c)
    BY DEF Verified, Launched
  <2>5. row'[c].status = "QUALIFIED" => Verified(vm', c)
    BY <1>1, <2>2, <2>6 DEF Good
  <2> QED BY <1>1, <2>3, <2>4, <2>5 DEF Good
<1>10. \A v \in Checkers : updating'[v] # Null =>
         batch'[v][updating'[v]] # Null /\ batch'[v][updating'[v]].status = "QUALIFIED"
  BY <1>0, <1>4 DEF IInv, Sound, TypeOK
<1> QED BY <1>3, <1>4, <1>6, <1>7, <1>8, <1>9, <1>10, StepKeeps

\* What a checker that holds a bean of c knows.
LEMMA Held ==
  ASSUME IInv, NEW w \in Checkers, NEW c \in Checks, batch[w][c] # Null
  PROVE  /\ c \in Rows /\ batch[w][c] \in Bean /\ Good(row, vm, c, batch[w][c])
         /\ batch[w][c].host # Null => batch[w][c].host \in Launched
                                       /\ vm[batch[w][c].host].check = c
BY DEF IInv, TypeOK, Sound, Good, Launched

\* Most steps of a checker write the bean they hold and launch nothing.
LEMMA JudgedBean ==
  ASSUME IInv, NEW w \in Checkers, NEW c \in Checks, batch[w][c] # Null,
         NEW s \in State, NEW t \in Status \cup {Null},
         Done(w, c), Saved(Moved(c, batch[w][c], s, t)),
         UNCHANGED <<vm, image, updating, doomed>>, scaling' \in BOOLEAN, updating[w] = Null,
         s \in {"LAUNCHING", "PENDING_VERIFY"} => batch[w][c].host # Null,
         t = "QUALIFIED" => Verified(vm, c)
  PROVE  IInv'
<1> DEFINE b == batch[w][c]
<1>1. c \in Rows /\ b \in Bean /\ Good(row, vm, c, b)
      /\ (b.host # Null => b.host \in Launched /\ vm[b.host].check = c)
  BY Held
<1>2. b.ami = row[c].ami /\ (b.terminated # Null => b.host # Null)
  BY <1>1 DEF Good
<1>3. Launched' = Launched
  BY DEF Launched
<1>4. /\ vm' \in [Hosts -> Vm \cup {Null}] /\ image' \in Amis
      /\ updating' = [updating EXCEPT ![w] = Null]
      /\ \E n \in 0 .. MaxHosts : Launched' = 1 .. n
  BY <1>3 DEF IInv, TypeOK, Numbered
<1> HIDE DEF b
<1>5. Saved(Moved(c, b, s, t)) /\ (s \in {"LAUNCHING", "PENDING_VERIFY"} => b.host # Null)
  BY DEF b
<1> QED BY <1>1, <1>2, <1>3, <1>4, <1>5, Judged

\* Steps that write no row and no host.
LEMMA RowsStay ==
  ASSUME IInv, TypeOK', UNCHANGED <<row, vm, image>>,
         \A w \in Checkers, c \in Checks :
           batch'[w][c] \in {Null, batch[w][c]} \/ (c \in Rows /\ batch'[w][c] = row[c]),
         \A c \in Checks :
           doomed'[c] \in {Null, doomed[c]} \/ (c \in Rows /\ doomed'[c] = row[c] /\ row[c].host # Null),
         \A w \in Checkers : updating'[w] # Null =>
           batch'[w][updating'[w]] # Null /\ batch'[w][updating'[w]].status = "QUALIFIED"
  PROVE  IInv'
<1>1. Rows' = Rows /\ Launched' = Launched
  BY DEF Rows, Launched
<1>2. Keeps /\ Numbered'
  BY <1>1 DEF Keeps, IInv, Numbered
<1> QED BY <1>1, <1>2, StepKeeps

(***************************************************************************)
(* The steps of a checker                                                  *)
(***************************************************************************)
LEMMA FetchStep == ASSUME IInv, NEW w \in Checkers, Fetch(w) PROVE IInv'
<1> DEFINE f == [c \in Checks |-> IF c \in Ongoing THEN row[c] ELSE Null]
<1>1. batch' = [batch EXCEPT ![w] = f] /\ f \in [Checks -> Bean \cup {Null}]
  BY DEF Fetch, IInv, TypeOK
<1>2. \A c \in Checks : f[c] = Null \/ (c \in Rows /\ f[c] = row[c])
  BY DEF Ongoing
<1>3. batch[w] = [c \in Checks |-> Null]
  BY DEF Fetch, NoBeans
<1> HIDE DEF f
<1>4. batch \in [Checkers -> [Checks -> Bean \cup {Null}]]
  BY DEF IInv, TypeOK
<1>5. TypeOK'
  BY <1>1, <1>4 DEF Fetch, IInv, TypeOK
<1>6. \A v \in Checkers : batch'[v] = IF v = w THEN f ELSE batch[v]
  BY <1>1, <1>4
<1>7. \A v \in Checkers : updating'[v] # Null => v # w
  BY <1>3 DEF Fetch, IInv, Sound, TypeOK
<1> QED BY <1>2, <1>5, <1>6, <1>7, RowsStay DEF Fetch, IInv, Sound

\* A bean that is dropped is not the one the launch config is updated for.
LEMMA Dropped ==
  ASSUME IInv, NEW w \in Checkers, NEW c \in Checks, Done(w, c), updating[w] = Null,
         scaling' \in BOOLEAN, UNCHANGED <<row, vm, image, updating, doomed, faults>>
  PROVE  IInv'
<1>1. TypeOK
  BY DEF IInv
<1>2. /\ batch' \in [Checkers -> [Checks -> Bean \cup {Null}]]
      /\ \A v \in Checkers, d \in Checks :
           batch'[v][d] = IF v = w /\ d = c THEN Null ELSE batch[v][d]
  BY <1>1, DoneIs
<1>3. TypeOK'
  BY <1>1, <1>2 DEF TypeOK
<1>4. \A v \in Checkers : updating'[v] # Null =>
        batch'[v][updating'[v]] # Null /\ batch'[v][updating'[v]].status = "QUALIFIED"
  BY <1>1, <1>2 DEF IInv, Sound, TypeOK
<1> QED BY <1>2, <1>3, <1>4, RowsStay

LEMMA DropSteps ==
  ASSUME IInv, NEW w \in Checkers, NEW c \in Checks, Skip(w, c) \/ Wait(w, c)
  PROVE  IInv'
<1>1. /\ Done(w, c) /\ updating[w] = Null /\ scaling' \in BOOLEAN
      /\ UNCHANGED <<row, vm, image, updating, doomed, faults>>
  BY DEF Skip, Wait, Has, IInv, TypeOK
<1> QED BY <1>1, Dropped

LEMMA TimeoutStep ==
  ASSUME IInv, NEW w \in Checkers, NEW c \in Checks, Timeout(w, c)
  PROVE  IInv'
<1>1. PICK next \in {"COMPLETED", "COMPLETING"} :
        /\ batch[w][c] # Null /\ updating[w] = Null
        /\ Done(w, c) /\ scaling' = Disabled(batch[w][c])
        /\ Saved(Moved(c, batch[w][c], next, "TIMEOUT"))
        /\ UNCHANGED <<vm, image, updating, doomed>>
  BY DEF Timeout, Has
<1>2. next \in State /\ "TIMEOUT" \in Status \cup {Null}
      /\ next \notin {"LAUNCHING", "PENDING_VERIFY"} /\ "TIMEOUT" # "QUALIFIED"
  BY DEF State, Status
<1>3. scaling' \in BOOLEAN
  BY <1>1 DEF Disabled, IInv, TypeOK
<1> QED BY <1>1, <1>2, <1>3, JudgedBean

\* The lowest id that is free is the next one of the hosts launched.
LEMMA NextHost ==
  ASSUME IInv, NEW h \in Hosts, h = Cardinality(Launched) + 1
  PROVE  h \notin Launched /\ Launched \cup {h} = 1 .. h
<1>1. PICK n \in 0 .. MaxHosts : Launched = 1 .. n
  BY DEF IInv, Numbered
<1>2. n \in Nat /\ Cardinality(Launched) = n
  BY <1>1, HealthCheckAssumption, FS_Interval
<1> QED BY <1>1, <1>2

LEMMA LaunchStep ==
  ASSUME IInv, NEW w \in Checkers, NEW c \in Checks, Launch(w, c)
  PROVE  IInv'
<1>1. PICK h \in Hosts :
        /\ batch[w][c] # Null /\ updating[w] = Null
        /\ h = Cardinality(Launched) + 1
        /\ vm' = [vm EXCEPT ![h] = [check |-> c, aws |-> "pending", agents |-> "busy"]]
        /\ Done(w, c)
        /\ Saved(Moved(c, [batch[w][c] EXCEPT !.host = h, !.terminated = FALSE],
                       "LAUNCHING", "SUCCEEDED"))
        /\ UNCHANGED <<image, scaling, updating, doomed>>
  BY DEF Launch, Has
<1> DEFINE new == [check |-> c, aws |-> "pending", agents |-> "busy"]
           b == [batch[w][c] EXCEPT !.host = h, !.terminated = FALSE]
<1>2. h \notin Launched /\ Launched \cup {h} = 1 .. h
  BY <1>1, NextHost
<1>3. vm \in [Hosts -> Vm \cup {Null}]
  BY DEF IInv, TypeOK
<1>4. new \in Vm /\ new # Null /\ new.check = c
  BY HealthCheckAssumption DEF Vm
<1>5. vm' = [vm EXCEPT ![h] = new]
  BY <1>1
<1> HIDE DEF new
<1>6. vm' \in [Hosts -> Vm \cup {Null}] /\ \A g \in Hosts : vm'[g] = IF g = h THEN new ELSE vm[g]
  BY <1>3, <1>4, <1>5
<1>7. Launched' = Launched \cup {h}
  BY <1>4, <1>6 DEF Launched
<1>8. \E n \in 0 .. MaxHosts : Launched' = 1 .. n
  BY <1>2, <1>7, HealthCheckAssumption DEF Hosts
<1>9. c \in Rows /\ batch[w][c] \in Bean /\ Good(row, vm, c, batch[w][c])
  BY <1>1, Held
<1>10. b \in Bean /\ b.host = h /\ b.ami = batch[w][c].ami
  BY <1>9 DEF Bean
<1>11. b.ami = row[c].ami /\ h # Null /\ h \in Launched' /\ vm'[h].check = c
  BY <1>4, <1>6, <1>7, <1>9, <1>10, HealthCheckAssumption DEF Good, Hosts
<1>12. Saved(Moved(c, b, "LAUNCHING", "SUCCEEDED"))
  BY <1>1
<1> HIDE DEF b
<1>13. "LAUNCHING" \in State /\ "SUCCEEDED" \in Status \cup {Null} /\ "SUCCEEDED" # "QUALIFIED"
  BY DEF State, Status
<1>14. /\ image' \in Amis /\ image' = image /\ scaling' \in BOOLEAN /\ doomed' = doomed
       /\ updating' = [updating EXCEPT ![w] = Null]
  BY <1>1 DEF IInv, TypeOK
<1>15. Launched \subseteq Launched' /\ (\A g \in Launched : vm'[g] = vm[g])
       /\ \A g \in Launched' \ Launched : vm'[g].check = c
  BY <1>2, <1>4, <1>6, <1>7 DEF Launched
<1>16. Done(w, c) /\ (updating[w] = Null \/ updating[w] = c)
       /\ (b.host # Null => b.host \in Launched' /\ vm'[b.host].check = c)
       /\ (b.terminated # Null => b.host # Null)
  BY <1>1, <1>10, <1>11
<1> QED BY <1>6, <1>8, <1>9, <1>10, <1>11, <1>12, <1>13, <1>14, <1>15, <1>16, Judged

LEMMA JudgeSteps ==
  ASSUME IInv, NEW w \in Checkers, NEW c \in Checks,
         \/ LaunchNothing(w, c) \/ Started(w, c) \/ NotStarted(w, c)
         \/ Qualify(w, c) \/ Disqualify(w, c)
  PROVE  IInv'
<1>0. scaling \in BOOLEAN /\ {"COMPLETED", "PENDING_VERIFY", "COMPLETING"} \subseteq State
      /\ {"FAILED", "SUCCEEDED", "QUALIFIED"} \subseteq Status \cup {Null}
  BY DEF IInv, TypeOK, State, Status
<1>1. CASE LaunchNothing(w, c)
  BY <1>0, <1>1, JudgedBean DEF LaunchNothing, Has
<1>2. CASE Started(w, c)
  <2>1. batch[w][c] # Null /\ batch[w][c].state = "LAUNCHING"
    BY <1>2 DEF Started, Has
  <2>2. batch[w][c].host # Null
    BY <2>1, Held DEF Good
  <2> QED BY <1>0, <1>2, <2>2, JudgedBean DEF Started, Has
<1>3. CASE NotStarted(w, c)
  BY <1>0, <1>3, JudgedBean DEF NotStarted, Has
<1>4. CASE Qualify(w, c)
  <2>1. batch[w][c] # Null /\ batch[w][c].state = "PENDING_VERIFY"
    BY <1>4 DEF Qualify, Has
  <2>2. batch[w][c].host \in Launched /\ vm[batch[w][c].host].check = c
    BY <2>1, Held DEF Good
  <2>3. Verified(vm, c)
    BY <1>4, <2>2 DEF Qualify, Verified, Launched
  <2> QED BY <1>0, <1>4, <2>3, JudgedBean DEF Qualify, Has
<1>5. CASE Disqualify(w, c)
  BY <1>0, <1>5, JudgedBean DEF Disqualify, Disabled, Has
<1> QED BY <1>1, <1>2, <1>3, <1>4, <1>5

LEMMA CompleteStep ==
  ASSUME IInv, NEW w \in Checkers, NEW c \in Checks, Complete(w, c)
  PROVE  IInv'
<1>1. batch[w][c] # Null /\ updating[w] = Null /\ scaling' \in BOOLEAN
      /\ UNCHANGED <<vm, image, doomed>>
  BY DEF Complete, Has, Enabled, IInv, TypeOK
<1>2. CASE NewerAmi(batch[w][c])
  <2>1. updating' = [updating EXCEPT ![w] = c] /\ UNCHANGED <<row, batch, faults>>
    BY <1>2 DEF Complete
  <2>2. TypeOK'
    BY <1>1, <2>1 DEF IInv, TypeOK
  <2>3. batch[w][c].status = "QUALIFIED"
    BY <1>2 DEF NewerAmi
  <2>4. \A v \in Checkers : updating'[v] # Null =>
          batch'[v][updating'[v]] # Null /\ batch'[v][updating'[v]].status = "QUALIFIED"
    BY <1>1, <2>1, <2>3 DEF IInv, Sound, TypeOK
  <2> QED BY <1>1, <2>1, <2>2, <2>4, RowsStay
<1>3. CASE ~NewerAmi(batch[w][c])
  <2>1. Done(w, c) /\ Saved(Moved(c, batch[w][c], "COMPLETED", Null)) /\ UNCHANGED updating
    BY <1>3 DEF Complete
  <2>2. "COMPLETED" \in State /\ Null \in Status \cup {Null}
    BY DEF State
  <2>3. Null # "QUALIFIED"
    BY HealthCheckAssumption DEF Status
  <2> QED BY <1>1, <2>1, <2>2, <2>3, JudgedBean
<1> QED BY <1>2, <1>3

LEMMA UpdateStep ==
  ASSUME IInv, NEW w \in Checkers, UpdateLaunchConfig(w)
  PROVE  IInv'
<1> DEFINE c == updating[w]
           b == batch[w][c]
<1>1. c \in Checks /\ c # Null
  BY DEF UpdateLaunchConfig, IInv, TypeOK
<1>2. b # Null /\ b.status = "QUALIFIED"
  BY <1>1 DEF IInv, Sound
<1>3. /\ c \in Rows /\ b \in Bean /\ Good(row, vm, c, b)
      /\ b.host # Null => b.host \in Launched /\ vm[b.host].check = c
  BY <1>1, <1>2, Held
<1>4. /\ image' \in {image, b.ami} /\ Done(w, c) /\ updating' = [updating EXCEPT ![w] = Null]
      /\ Saved(Moved(c, b, "COMPLETED", Null)) /\ UNCHANGED <<vm, scaling, doomed>>
  BY DEF UpdateLaunchConfig
<1>5. b.ami = row[c].ami /\ (b.terminated # Null => b.host # Null) /\ Verified(vm, c)
  BY <1>2, <1>3 DEF Good
<1>6. PICK h \in Launched : vm[h].check = c /\ vm[h].agents = "serving"
  BY <1>5 DEF Verified, Launched
<1>7. image' = image \/ \E g \in Launched : vm[g].agents = "serving" /\ row[vm[g].check].ami = image'
  BY <1>4, <1>5, <1>6
<1>8. image' \in Amis /\ scaling' \in BOOLEAN /\ vm' \in [Hosts -> Vm \cup {Null}]
  BY <1>3, <1>4 DEF IInv, TypeOK, Bean
<1>9. Launched' = Launched /\ \E n \in 0 .. MaxHosts : Launched' = 1 .. n
  BY <1>4 DEF Launched, IInv, Numbered
<1>10. /\ "COMPLETED" \in State /\ "COMPLETED" \notin {"LAUNCHING", "PENDING_VERIFY"}
       /\ Null \in Status \cup {Null}
  BY DEF State
<1>11. updating[w] = Null \/ updating[w] = c
  OBVIOUS
<1> HIDE DEF b, c
<1> QED BY <1>3, <1>4, <1>5, <1>7, <1>8, <1>9, <1>10, <1>11, Judged

LEMMA CrashStep == ASSUME IInv, NEW w \in Checkers, Crash(w) PROVE IInv'
<1>1. NoBeans \in [Checks -> Bean \cup {Null}] /\ \A c \in Checks : NoBeans[c] = Null
  BY DEF NoBeans
<1>2. batch \in [Checkers -> [Checks -> Bean \cup {Null}]] /\ batch' = [batch EXCEPT ![w] = NoBeans]
  BY DEF Crash, IInv, TypeOK
<1>3. \A v \in Checkers : batch'[v] = IF v = w THEN NoBeans ELSE batch[v]
  BY <1>2
<1>4. batch' \in [Checkers -> [Checks -> Bean \cup {Null}]]
  BY <1>1, <1>2
<1>5. faults' \in 0 .. MaxFaults
  BY HealthCheckAssumption DEF Crash, IInv, TypeOK
<1>6. TypeOK'
  BY <1>4, <1>5 DEF Crash, IInv, TypeOK
<1>7. \A v \in Checkers : updating'[v] # Null =>
        batch'[v][updating'[v]] # Null /\ batch'[v][updating'[v]].status = "QUALIFIED"
  BY <1>3 DEF Crash, IInv, Sound, TypeOK
<1> QED BY <1>1, <1>3, <1>6, <1>7, RowsStay DEF Crash

(***************************************************************************)
(* Inserting checks                                                        *)
(***************************************************************************)
LEMMA CreateStep ==
  ASSUME IInv, NEW type \in Type, NEW ami \in Amis, NEW envs \in Nat,
         CreateHealthCheck(type, ami, envs)
  PROVE  IInv'
<1> DEFINE new == NewCheck(type, ami)
<1>1. new \in Bean
  BY DEF NewCheck, Bean, State, Status
<1>2. PICK n \in 0 .. MaxChecks : Rows = 1 .. n
  BY DEF IInv, Numbered
<1>3. n \in Nat /\ Cardinality(Rows) = n
  BY <1>2, HealthCheckAssumption, FS_Interval
<1>4. /\ n + envs <= MaxChecks
      /\ row' = [c \in Checks |-> IF c \in n + 1 .. n + envs THEN new ELSE row[c]]
      /\ UNCHANGED <<vm, image, scaling, batch, updating, doomed, faults>>
  BY <1>3 DEF CreateHealthCheck
<1>5. new # Null /\ new.host = Null /\ new.terminated = Null /\ new.state = "INIT"
      /\ new.status = "UNKNOWN" /\ new.ami = ami
  BY <1>1, NullIsNoBean DEF NewCheck
<1> HIDE DEF new
<1>6. TypeOK'
  BY <1>1, <1>4 DEF IInv, TypeOK
<1>7. Rows' = 1 .. n + envs /\ n + envs \in 0 .. MaxChecks
  BY <1>2, <1>3, <1>4, <1>5, HealthCheckAssumption DEF Rows, Checks
<1>8. Launched' = Launched
  BY <1>4 DEF Launched
<1>9. Numbered'
  BY <1>7, <1>8 DEF IInv, Numbered
<1>10. \A c \in Rows : row'[c] = row[c]
  BY <1>2, <1>3, <1>4 DEF Checks, Rows
<1>11. \A c \in Rows' : c \in Rows \/ row'[c] = new
  BY <1>2, <1>3, <1>4, <1>7 DEF Rows
<1>12. Rows \subseteq Rows'
  BY <1>2, <1>3, <1>7
<1>13. Keeps
  BY <1>4, <1>8, <1>10, <1>12 DEF Keeps
<1>14. \A c \in Rows' : row'[c] = new => Good(row', vm', c, row'[c])
  BY <1>5 DEF Good
<1>15. \A c \in Rows' : (c \in Rows /\ row'[c] = row[c]) \/ Good(row', vm', c, row'[c])
  BY <1>10, <1>11, <1>14
<1>16. \A w \in Checkers : updating'[w] # Null =>
         batch'[w][updating'[w]] # Null /\ batch'[w][updating'[w]].status = "QUALIFIED"
  BY <1>4 DEF IInv, Sound
<1> QED BY <1>4, <1>6, <1>8, <1>9, <1>13, <1>15, <1>16, StepKeeps

LEMMA InsertSteps ==
  ASSUME IInv, InsertRegular \/ InsertManual \/ \E a \in Amis \ {1} : PublishAmi(a)
  PROVE  IInv'
<1>1. image \in Amis /\ Envs \in Nat /\ 1 \in Nat
      /\ {"TIME_TRIGGERED", "MANUALLY_TRIGGERED", "AMI_TRIGGERED"} \subseteq Type
  BY HealthCheckAssumption DEF IInv, TypeOK, Type
<1>2. CASE InsertRegular
  BY <1>1, <1>2, CreateStep DEF InsertRegular
<1>3. CASE InsertManual
  BY <1>1, <1>3, CreateStep DEF InsertManual
<1>4. CASE \E a \in Amis \ {1} : PublishAmi(a)
  BY <1>1, <1>4, CreateStep DEF PublishAmi
<1> QED BY <1>2, <1>3, <1>4

(***************************************************************************)
(* The terminator, AWS and the agents                                      *)
(***************************************************************************)
LEMMA SelectStep == ASSUME IInv, Select PROVE IInv'
<1>1. \A c \in Checks :
        /\ doomed'[c] = IF c \in Unterminated THEN row[c] ELSE Null
        /\ doomed'[c] \in Bean \cup {Null}
  BY DEF Select, IInv, TypeOK
<1>2. doomed' \in [Checks -> Bean \cup {Null}]
  BY <1>1 DEF Select
<1>3. TypeOK'
  BY <1>2 DEF Select, IInv, TypeOK
<1>4. \A c \in Unterminated : c \in Rows /\ row[c].host # Null
  <2> SUFFICES ASSUME NEW c \in Unterminated PROVE c \in Rows /\ row[c].host # Null
    OBVIOUS
  <2>1. c \in Rows /\ row[c].terminated = FALSE
    BY DEF Unterminated
  <2>2. Good(row, vm, c, row[c]) /\ row[c].terminated # Null
    BY <2>1, HealthCheckAssumption DEF IInv, Sound
  <2> QED BY <2>1, <2>2 DEF Good
<1>5. \A w \in Checkers : updating'[w] # Null =>
        batch'[w][updating'[w]] # Null /\ batch'[w][updating'[w]].status = "QUALIFIED"
  BY DEF Select, IInv, Sound
<1> QED BY <1>1, <1>3, <1>4, <1>5, RowsStay DEF Select

LEMMA RetainStep == ASSUME IInv, NEW c \in Checks, Retain(c) PROVE IInv'
<1>1. faults' \in 0 .. MaxFaults
  BY HealthCheckAssumption DEF Retain, IInv, TypeOK
<1>2. /\ doomed' \in [Checks -> Bean \cup {Null}]
      /\ \A d \in Checks : doomed'[d] \in {Null, doomed[d]}
  BY DEF Retain, IInv, TypeOK
<1>3. TypeOK'
  BY <1>1, <1>2 DEF Retain, IInv, TypeOK
<1>4. \A w \in Checkers : updating'[w] # Null =>
        batch'[w][updating'[w]] # Null /\ batch'[w][updating'[w]].status = "QUALIFIED"
  BY DEF Retain, IInv, Sound
<1> QED BY <1>2, <1>3, <1>4, RowsStay DEF Retain

\* AWS and the agents change a host that was launched, and never what it is for.
LEMMA HostIs ==
  ASSUME IInv, NEW h \in Launched, NEW r \in Vm, vm' = [vm EXCEPT ![h] = r],
         r.check = vm[h].check, vm[h].agents = "serving" => r.agents = "serving"
  PROVE  /\ vm' \in [Hosts -> Vm \cup {Null}]
         /\ Launched' = Launched
         /\ \A g \in Launched : /\ vm'[g].check = vm[g].check
                                /\ vm[g].agents = "serving" => vm'[g].agents = "serving"
<1>1. vm \in [Hosts -> Vm \cup {Null}] /\ h \in Hosts
  BY DEF IInv, TypeOK, Launched
<1>2. r # Null
  BY HealthCheckAssumption
<1>3. \A g \in Hosts : vm'[g] = IF g = h THEN r ELSE vm[g]
  BY <1>1
<1> QED BY <1>1, <1>2, <1>3 DEF Launched

LEMMA HostSteps ==
  ASSUME IInv, NEW h \in Hosts, Boot(h) \/ Stop(h) \/ Agents(h)
  PROVE  IInv'
<1>1. /\ h \in Launched /\ vm[h] \in Vm /\ vm \in [Hosts -> Vm \cup {Null}]
      /\ UNCHANGED <<row, image, scaling, batch, updating, doomed, faults>>
  BY DEF Boot, Stop, Agents, Launched, IInv, TypeOK
<1>2. PICK r \in Vm : /\ vm' = [vm EXCEPT ![h] = r] /\ r.check = vm[h].check
                      /\ vm[h].agents = "serving" => r.agents = "serving"
  <2>1. CASE Boot(h)
    <3>1. PICK s \in {"running", "gone"} : vm' = [vm EXCEPT ![h].aws = s]
      BY <2>1 DEF Boot
    <3> DEFINE r == [vm[h] EXCEPT !.aws = s]
    <3>2. r \in Vm /\ r.check = vm[h].check /\ r.agents = vm[h].agents
      BY <1>1 DEF Vm
    <3>3. vm' = [vm EXCEPT ![h] = r]
      BY <3>1
    <3> QED BY <3>2, <3>3
  <2>2. CASE Stop(h)
    <3> DEFINE r == [vm[h] EXCEPT !.aws = "gone"]
    <3>1. r \in Vm /\ r.check = vm[h].check /\ r.agents = vm[h].agents
      BY <1>1 DEF Vm
    <3>2. vm' = [vm EXCEPT ![h] = r]
      BY <2>2 DEF Stop
    <3> QED BY <3>1, <3>2
  <2>3. CASE Agents(h)
    <3>1. PICK a \in {"failed", "serving"} : vm' = [vm EXCEPT ![h].agents = a]
      BY <2>3 DEF Agents
    <3> DEFINE r == [vm[h] EXCEPT !.agents = a]
    <3>2. r \in Vm /\ r.check = vm[h].check /\ vm[h].agents = "busy"
      BY <1>1, <2>3 DEF Agents, Vm
    <3>3. vm' = [vm EXCEPT ![h] = r]
      BY <3>1
    <3> QED BY <3>2, <3>3
  <2> QED BY <2>1, <2>2, <2>3 DEF Boot
<1>3. /\ vm' \in [Hosts -> Vm \cup {Null}] /\ Launched' = Launched
      /\ \A g \in Launched : /\ vm'[g].check = vm[g].check
                             /\ vm[g].agents = "serving" => vm'[g].agents = "serving"
  BY <1>1, <1>2, HostIs
<1>4. Rows' = Rows
  BY <1>1 DEF Rows
<1>5. TypeOK' /\ Numbered' /\ Keeps
  BY <1>1, <1>3, <1>4 DEF IInv, TypeOK, Numbered, Keeps
<1>6. \A w \in Checkers : updating'[w] # Null =>
        batch'[w][updating'[w]] # Null /\ batch'[w][updating'[w]].status = "QUALIFIED"
  BY <1>1 DEF IInv, Sound
<1> QED BY <1>1, <1>3, <1>4, <1>5, <1>6, StepKeeps

LEMMA TerminateStep == ASSUME IInv, NEW c \in Checks, Terminate(c) PROVE IInv'
<1> DEFINE h == doomed[c].host
           r == [vm[h] EXCEPT !.aws = "gone"]
           b == [row[c] EXCEPT !.terminated = TRUE]
<1>1. c \in Rows /\ h \in Launched /\ row[c].host # Null
  BY DEF Terminate, IInv, Sound, Good, Launched
<1>2. vm[h] \in Vm /\ row[c] \in Bean /\ row \in [Checks -> Bean \cup {Null}]
  BY <1>1 DEF Launched, Rows, IInv, TypeOK
<1>3. r \in Vm /\ r.check = vm[h].check /\ r.agents = vm[h].agents
  BY <1>2 DEF Vm
<1>4. vm' = [vm EXCEPT ![h] = r]
  BY DEF Terminate
<1>5. /\ vm' \in [Hosts -> Vm \cup {Null}] /\ Launched' = Launched
      /\ \A g \in Launched : /\ vm'[g].check = vm[g].check
                             /\ vm[g].agents = "serving" => vm'[g].agents = "serving"
  BY <1>1, <1>3, <1>4, HostIs
<1>6. /\ b \in Bean /\ b.ami = row[c].ami /\ b.host = row[c].host /\ b.state = row[c].state
      /\ b.status = row[c].status
  BY <1>2 DEF Bean
<1>7. row' = [row EXCEPT ![c] = b] \/ row' = row
  BY DEF Terminate, Saved
<1>8. faults' \in 0 .. MaxFaults
  BY HealthCheckAssumption DEF Terminate, Saved, IInv, TypeOK
<1>9. /\ doomed' = [doomed EXCEPT ![c] = Null]
      /\ UNCHANGED <<image, scaling, batch, updating>>
  BY DEF Terminate
<1> HIDE DEF h, r, b
<1>10. /\ row' \in [Checks -> Bean \cup {Null}]
       /\ \A d \in Checks : row'[d] = row[d] \/ (d = c /\ row'[d] = b)
  BY <1>2, <1>6, <1>7
<1>11. /\ doomed' \in [Checks -> Bean \cup {Null}]
       /\ \A d \in Checks : doomed'[d] \in {Null, doomed[d]}
  BY <1>9 DEF IInv, TypeOK
<1>12. TypeOK'
  BY <1>5, <1>8, <1>9, <1>10, <1>11 DEF IInv, TypeOK
<1>13. Rows' = Rows
  BY <1>1, <1>6, <1>10, NullIsNoBean DEF Rows
<1>14. Numbered'
  BY <1>5, <1>13 DEF IInv, Numbered
<1>15. \A d \in Rows : row'[d].ami = row[d].ami /\ (row[d].host # Null => row'[d].host # Null)
  BY <1>6, <1>10 DEF Rows
<1>16. Keeps
  BY <1>5, <1>13, <1>15 DEF Keeps
<1>17. \A d \in Rows' : (d \in Rows /\ row'[d] = row[d]) \/ Good(row', vm', d, row'[d])
  <2>1. Good(row', vm', c, row[c])
    BY <1>1, <1>16, GoodStays DEF IInv, Sound
  <2>2. Good(row', vm', c, b)
    BY <1>1, <1>6, <2>1 DEF Good
  <2> QED BY <1>10, <1>13, <2>2 DEF Rows
<1>18. \A w \in Checkers : updating'[w] # Null =>
         batch'[w][updating'[w]] # Null /\ batch'[w][updating'[w]].status = "QUALIFIED"
  BY <1>9 DEF IInv, Sound
<1> QED BY <1>5, <1>9, <1>11, <1>12, <1>14, <1>16, <1>17, <1>18, StepKeeps

-----------------------------------------------------------------------------
LEMMA InitHolds == Init => IInv
<1> SUFFICES ASSUME Init PROVE IInv
  OBVIOUS
<1>1. NoBeans \in [Checks -> Bean \cup {Null}] /\ \A c \in Checks : NoBeans[c] = Null
  BY DEF NoBeans
<1>2. 1 \in Amis /\ 0 \in 0 .. MaxFaults /\ 0 \in 0 .. MaxChecks /\ 0 \in 0 .. MaxHosts /\ 1 .. 0 = {}
  BY HealthCheckAssumption DEF Amis
<1>3. Rows = {} /\ Launched = {}
  BY <1>1 DEF Init, Rows, Launched
<1>4. TypeOK
  BY <1>1, <1>2 DEF Init, TypeOK
<1>5. Numbered
  BY <1>2, <1>3 DEF Numbered
<1>6. Sound
  BY <1>1, <1>3 DEF Init, Sound
<1>7. AmiWasVerified
  BY DEF Init, AmiWasVerified
<1> QED BY <1>4, <1>5, <1>6, <1>7 DEF IInv

LEMMA Stutters == ASSUME IInv, UNCHANGED vars PROVE IInv'
<1>1. UNCHANGED <<row, vm, image, scaling, batch, updating, doomed, faults>>
  BY DEF vars
<1>2. TypeOK'
  BY <1>1 DEF IInv, TypeOK
<1>3. \A w \in Checkers : updating'[w] # Null =>
        batch'[w][updating'[w]] # Null /\ batch'[w][updating'[w]].status = "QUALIFIED"
  BY <1>1 DEF IInv, Sound
<1> QED BY <1>1, <1>2, <1>3, RowsStay

LEMMA Preserved == IInv /\ [Next]_vars => IInv'
<1> SUFFICES ASSUME IInv, [Next]_vars PROVE IInv'
  OBVIOUS
<1>1. CASE InsertRegular \/ InsertManual \/ \E a \in Amis \ {1} : PublishAmi(a)
  BY <1>1, InsertSteps
<1>2. ASSUME NEW w \in Checkers, CheckerStep(w) PROVE IInv'
  <2>1. CASE Fetch(w)
    BY <2>1, FetchStep
  <2>2. CASE UpdateLaunchConfig(w)
    BY <2>2, UpdateStep
  <2>3. ASSUME NEW c \in Checks, Skip(w, c) \/ Timeout(w, c) \/ Process(w, c) PROVE IInv'
    <3>1. CASE Skip(w, c) \/ Wait(w, c)
      BY <3>1, DropSteps
    <3>2. CASE Timeout(w, c)
      BY <3>2, TimeoutStep
    <3>3. CASE Launch(w, c)
      BY <3>3, LaunchStep
    <3>4. CASE Complete(w, c)
      BY <3>4, CompleteStep
    <3>5. CASE \/ LaunchNothing(w, c) \/ Started(w, c) \/ NotStarted(w, c)
               \/ Qualify(w, c) \/ Disqualify(w, c)
      BY <3>5, JudgeSteps
    <3> QED BY <2>3, <3>1, <3>2, <3>3, <3>4, <3>5 DEF Process
  <2> QED BY <1>2, <2>1, <2>2, <2>3 DEF CheckerStep
<1>3. ASSUME NEW w \in Checkers, Crash(w) PROVE IInv'
  BY <1>3, CrashStep
<1>4. CASE TerminatorStep
  BY <1>4, SelectStep, TerminateStep, RetainStep DEF TerminatorStep
<1>5. ASSUME NEW h \in Hosts, Boot(h) \/ Stop(h) \/ Agents(h) PROVE IInv'
  BY <1>5, HostSteps
<1>6. CASE UNCHANGED vars
  BY <1>6, Stutters
<1> QED BY <1>1, <1>2, <1>3, <1>4, <1>5, <1>6 DEF Next

LEMMA Invariant == Spec => []IInv
<1> QED BY InitHolds, Preserved, PTL DEF Spec

\* Every column of a check and every bean in a worker's hands stays within its
\* type, and no more faults happen than the bound allows.
THEOREM TypeCorrect == Spec => []TypeOK
<1>1. IInv => TypeOK
  BY DEF IInv
<1> QED BY <1>1, Invariant, PTL

\* A group gets a new AMI only after the deploys served on a host launched with
\* it, however old the beans are that checkers write over each other, whichever
\* of them crash, and whether or not their updates of the table succeed
\* (HealthChecker.processCompletingState).
THEOREM AmiIsVerified == Spec => []AmiWasVerified
<1>1. IInv => AmiWasVerified
  BY DEF IInv
<1> QED BY <1>1, Invariant, PTL
=============================================================================
