--------------------------- MODULE CatalogProofs ---------------------------
(***************************************************************************)
(* What holds of Catalog for any descriptors, MEAs, threads and names: an  *)
(* inline descriptor goes with an MEA of it, and only a creation that ends *)
(* before its MEA has a row can leave one behind.                          *)
(***************************************************************************)
EXTENDS Catalog, TLAPS

USE DEF MeadRow, MeaRow

Deleting == {"delete.vim", "delete.driver", "delete.post", "delete.error"}

\* Each request knows its descriptor or its MEA, whose row names one.
Known ==
  /\ \A t \in Thread : pc[t] \in {"vim", "insert"} => on[t] \in Mead
  /\ \A t \in Thread : pc[t] \notin {"idle", "vim", "insert"} =>
       of[t] \in Mea /\ mea[of[t]].deletedAt # "absent"
  /\ \A e \in Mea : mea[e].deletedAt # "absent" => mea[e].mead \in Mead

\* An MEA marked for deletion has one request that deletes it.
OneDeleter ==
  /\ \A t \in Thread : pc[t] \in Deleting =>
       Live(mea[of[t]]) /\ mea[of[t]].status = "PENDING_DELETE"
  /\ \A t, u \in Thread : pc[t] \in Deleting /\ pc[u] \in Deleting /\ of[t] = of[u] => t = u

IInv == TypeOK /\ Known /\ OneDeleter /\ OnlyEarlyFailuresOrphan

LEMMA InitHolds == Init => IInv
<1> SUFFICES ASSUME Init PROVE IInv
  OBVIOUS
<1>1. TypeOK
  BY CatalogAssumption DEF Init, TypeOK, DeletedAt, Step
<1>2. Known /\ OneDeleter /\ OnlyEarlyFailuresOrphan
  BY DEF Init, Known, OneDeleter, Deleting, OnlyEarlyFailuresOrphan, Live, Inline
<1> QED BY <1>1, <1>2 DEF IInv

\* What is not of a row another request's step changes
Others(t) == \A u \in Thread \ {t} : pc'[u] = pc[u] /\ on'[u] = on[u] /\ of'[u] = of[u]

LocalTypes ==
  /\ pc' \in [Thread -> Step]
  /\ on' \in [Thread -> Mead \union {None}] /\ of' \in [Thread -> Mea \union {None}]
  /\ wanted' \in [Thread -> Name \union {None}]

LEMMA GotoSays ==
  ASSUME TypeOK, NEW t \in Thread, NEW step \in Step, Goto(t, step)
  PROVE  /\ LocalTypes /\ Others(t)
         /\ pc'[t] = step /\ on'[t] = on[t] /\ of'[t] = of[t]
BY DEF TypeOK, Goto, LocalTypes, Others

LEMMA EndSays ==
  ASSUME TypeOK, NEW t \in Thread, End(t)
  PROVE  LocalTypes /\ Others(t) /\ pc'[t] = "idle"
<1>1. "idle" \in Step
  BY DEF Step
<1> QED BY <1>1 DEF TypeOK, End, LocalTypes, Others

LEMMA BeginSays ==
  ASSUME TypeOK, NEW t \in Thread, NEW d \in Mead, NEW n \in Name, Begin(t, d, n)
  PROVE  LocalTypes /\ Others(t) /\ pc'[t] = "vim" /\ on'[t] = d
<1>1. "vim" \in Step
  BY DEF Step
<1> QED BY <1>1 DEF TypeOK, Begin, LocalTypes, Others

LEMMA GoOnSays ==
  ASSUME TypeOK, NEW t \in Thread, NEW e \in Mea, NEW step \in Step, GoOnWith(t, e, step)
  PROVE  LocalTypes /\ Others(t) /\ pc'[t] = step /\ of'[t] = e /\ on'[t] = on[t]
BY DEF TypeOK, GoOnWith, LocalTypes, Others

Rows == <<mead, mea, asked, restarts>>

\* A request goes on with what it works on.
LEMMA GoesOn ==
  ASSUME IInv, NEW t \in Thread, UNCHANGED <<Rows, early>>, LocalTypes, Others(t),
         pc[t] \notin {"idle", "vim", "insert"}, pc'[t] \notin {"idle", "vim", "insert"},
         on'[t] = on[t], of'[t] = of[t], pc'[t] \in Deleting => pc[t] \in Deleting
  PROVE  IInv'
<1>1. TypeOK'
  BY DEF IInv, TypeOK, LocalTypes, Rows
<1>2. Known'
  BY DEF IInv, Known, Others, Rows
<1>3. OneDeleter'
  BY DEF IInv, OneDeleter, Live, Others, Deleting, Rows
<1>4. OnlyEarlyFailuresOrphan'
  BY DEF IInv, OnlyEarlyFailuresOrphan, Live, Inline, Others, Rows
<1> QED BY <1>1, <1>2, <1>3, <1>4 DEF IInv

\* A request ends; when it was to create an MEA, that is noted.
LEMMA Ends ==
  ASSUME IInv, NEW t \in Thread, UNCHANGED Rows, End(t),
         \/ pc[t] \in {"vim", "insert"} /\ early' = early \union {on[t]}
         \/ pc[t] \notin {"vim", "insert"} /\ UNCHANGED early
  PROVE  IInv'
<1>1. LocalTypes /\ Others(t) /\ pc'[t] = "idle"
  BY EndSays DEF IInv
<1>2. TypeOK'
  BY <1>1 DEF IInv, TypeOK, LocalTypes, Rows
<1>3. Known'
  BY <1>1 DEF IInv, Known, Others, Rows
<1>4. OneDeleter'
  BY <1>1 DEF IInv, OneDeleter, Live, Others, Deleting, Rows
<1>5. OnlyEarlyFailuresOrphan'
  BY <1>1 DEF IInv, OnlyEarlyFailuresOrphan, Live, Inline, Others, Rows
<1> QED BY <1>2, <1>3, <1>4, <1>5 DEF IInv

LEMMA GetVimKeeps ==
  ASSUME IInv, NEW t \in Thread, GetVim(t) PROVE IInv'
<1>1. CASE Goto(t, "insert") /\ UNCHANGED early
  <2>1. LocalTypes /\ Others(t) /\ pc[t] = "vim" /\ pc'[t] = "insert" /\ on'[t] = on[t]
    BY <1>1, GotoSays DEF IInv, GetVim, Step
  <2>2. UNCHANGED <<mead, mea, asked, early, restarts>>
    BY <1>1 DEF GetVim
  <2>3. TypeOK'
    BY <2>1, <2>2 DEF IInv, TypeOK, LocalTypes
  <2>4. Known'
    BY <2>1, <2>2 DEF IInv, Known, Others
  <2>5. OneDeleter'
    BY <2>1, <2>2 DEF IInv, OneDeleter, Live, Others, Deleting
  <2>6. OnlyEarlyFailuresOrphan'
    BY <2>1, <2>2 DEF IInv, OnlyEarlyFailuresOrphan, Live, Inline, Others
  <2> QED BY <2>3, <2>4, <2>5, <2>6 DEF IInv
<1>2. CASE End(t) /\ early' = early \union {on[t]}
  BY <1>2, Ends DEF GetVim, Rows
<1> QED BY <1>1, <1>2 DEF GetVim

LEMMA DriverKeeps ==
  ASSUME IInv, NEW t \in Thread,
         AddAlarmUrl(t) \/ DriverCreate(t) \/ DeleteGetVim(t) \/ DeleteDriver(t)
  PROVE  IInv'
<1>1. UNCHANGED <<Rows, early>>
  BY DEF AddAlarmUrl, DriverCreate, DeleteGetVim, DeleteDriver, Rows
<1>2. /\ pc[t] \in {"alarms", "driver", "delete.vim", "delete.driver"}
      /\ \/ End(t)
         \/ \E step \in {"driver", "post", "delete.pre"} : Goto(t, step)
         \/ /\ pc[t] \in Deleting
            /\ \E step \in {"delete.driver", "delete.post", "delete.error"} : Goto(t, step)
  BY DEF AddAlarmUrl, DriverCreate, DeleteGetVim, DeleteDriver, Deleting
<1>3. CASE End(t)
  BY <1>1, <1>2, <1>3, Ends
<1>4. ASSUME NEW step \in {"driver", "post", "delete.pre"}, Goto(t, step) PROVE IInv'
  <2>1. step \in Step /\ step \notin Deleting
    BY DEF Step, Deleting
  <2>2. LocalTypes /\ Others(t) /\ pc'[t] = step /\ on'[t] = on[t] /\ of'[t] = of[t]
    BY <1>4, <2>1, GotoSays DEF IInv
  <2> QED BY <1>1, <1>2, <2>1, <2>2, GoesOn
<1>5. ASSUME pc[t] \in Deleting, NEW step \in {"delete.driver", "delete.post", "delete.error"},
             Goto(t, step)
      PROVE  IInv'
  <2>1. step \in Step
    BY DEF Step
  <2>2. LocalTypes /\ Others(t) /\ pc'[t] = step /\ on'[t] = on[t] /\ of'[t] = of[t]
    BY <1>5, <2>1, GotoSays DEF IInv
  <2> QED BY <1>1, <1>2, <1>5, <2>1, <2>2, GoesOn
<1> QED BY <1>2, <1>3, <1>4, <1>5

LEMMA DeleteMeaKeeps ==
  ASSUME IInv, NEW t \in Thread, DeleteMea(t) PROVE IInv'
<1>1. PICK e \in Mea : Live(mea[e]) /\ GoOnWith(t, e, "delete.pre")
  BY DEF DeleteMea
<1>2. /\ LocalTypes /\ Others(t) /\ pc[t] = "idle" /\ pc'[t] = "delete.pre" /\ of'[t] = e
      /\ UNCHANGED <<mead, mea, asked, early, restarts>>
  BY <1>1, GoOnSays DEF IInv, DeleteMea, Step
<1>3. TypeOK'
  BY <1>2 DEF IInv, TypeOK, LocalTypes
<1>4. Known'
  BY <1>1, <1>2 DEF IInv, Known, Others, Live
<1>5. OneDeleter'
  BY <1>2 DEF IInv, OneDeleter, Live, Others, Deleting
<1>6. OnlyEarlyFailuresOrphan'
  BY <1>2 DEF IInv, OnlyEarlyFailuresOrphan, Live, Inline, Others
<1> QED BY <1>3, <1>4, <1>5, <1>6 DEF IInv

\* A descriptor is inserted or deleted by its client's request.
LEMMA MeadKeeps ==
  ASSUME IInv, NEW t \in Thread, CreateMead(t) \/ DeleteMead(t) PROVE IInv'
<1>1. UNCHANGED <<mea, pc, local, early, restarts>>
  BY DEF CreateMead, DeleteMead
<1>2. PICK d \in Mead : \/ mead' = [mead EXCEPT ![d] = [deletedAt |-> "min", source |-> "onboarded"]]
                           /\ UNCHANGED asked
                        \/ mead' = [mead EXCEPT ![d].deletedAt = "stamp"] /\ asked' = asked \union {d}
  BY DEF CreateMead, DeleteMead, Insert
<1>3. TypeOK'
  BY <1>1, <1>2 DEF IInv, TypeOK, DeletedAt, local
<1>4. Known' /\ OneDeleter'
  BY <1>1 DEF IInv, Known, OneDeleter, Live, Deleting, local
<1>5. \A x \in Mead : mead'[x].deletedAt = "min" /\ mead'[x].source = "inline" =>
        mead[x].deletedAt = "min" /\ mead[x].source = "inline"
  BY <1>2 DEF IInv, TypeOK
<1>6. OnlyEarlyFailuresOrphan'
  <2> SUFFICES ASSUME NEW x \in Mead, mead'[x].deletedAt = "min", mead'[x].source = "inline",
                      x \notin early'
               PROVE  \/ \E e \in Mea : mea'[e].mead = x /\ Live(mea'[e])
                      \/ \E u \in Thread : on'[u] = x /\ pc'[u] \in {"vim", "insert"}
    BY DEF OnlyEarlyFailuresOrphan, Live, Inline
  <2>1. Live(mead[x]) /\ Inline(x) /\ x \notin early
    BY <1>1, <1>5 DEF Live, Inline
  <2> QED BY <1>1, <2>1 DEF IInv, OnlyEarlyFailuresOrphan, local
<1> QED BY <1>3, <1>4, <1>6 DEF IInv

\* The request that makes an inline descriptor works on it.
LEMMA BeginKeeps ==
  ASSUME IInv, NEW t \in Thread, CreateInline(t) \/ CreateFrom(t) PROVE IInv'
<1>1. pc[t] = "idle" /\ UNCHANGED <<mea, asked, early, restarts>>
  BY DEF CreateInline, CreateFrom
<1>2. PICK d \in Mead, n \in Name :
        /\ Begin(t, d, n)
        /\ mead' = [mead EXCEPT ![d] = [deletedAt |-> "min", source |-> "inline"]] \/ UNCHANGED mead
  BY DEF CreateInline, CreateFrom, Insert
<1>3. LocalTypes /\ Others(t) /\ pc'[t] = "vim" /\ on'[t] = d
  BY <1>2, BeginSays DEF IInv
<1>4. TypeOK'
  BY <1>1, <1>2, <1>3 DEF IInv, TypeOK, DeletedAt, LocalTypes
<1>5. Known'
  BY <1>1, <1>3 DEF IInv, Known, Others
<1>6. OneDeleter'
  BY <1>1, <1>3 DEF IInv, OneDeleter, Live, Others, Deleting
<1>7. OnlyEarlyFailuresOrphan'
  <2> SUFFICES ASSUME NEW x \in Mead, mead'[x].deletedAt = "min", mead'[x].source = "inline",
                      x \notin early'
               PROVE  \/ \E e \in Mea : mea'[e].mead = x /\ Live(mea'[e])
                      \/ \E u \in Thread : on'[u] = x /\ pc'[u] \in {"vim", "insert"}
    BY DEF OnlyEarlyFailuresOrphan, Live, Inline
  <2>1. CASE x = d
    BY <1>3, <2>1
  <2>2. CASE x # d
    <3>1. mead'[x] = mead[x]
      BY <1>2, <2>2 DEF IInv, TypeOK
    <3>2. Live(mead[x]) /\ Inline(x) /\ x \notin early
      BY <1>1, <3>1 DEF Live, Inline
    <3>3. \A u \in Thread : pc[u] \in {"vim", "insert"} => on'[u] = on[u] /\ pc'[u] = pc[u]
      BY <1>1, <1>3 DEF Others
    <3> QED BY <1>1, <3>2, <3>3 DEF IInv, OnlyEarlyFailuresOrphan
  <2> QED BY <2>1, <2>2
<1> QED BY <1>4, <1>5, <1>6, <1>7 DEF IInv

LEMMA CreateMeaPreKeeps ==
  ASSUME IInv, NEW t \in Thread, CreateMeaPre(t) PROVE IInv'
<1>1. pc[t] = "insert" /\ on[t] \in Mead /\ UNCHANGED <<mead, asked, restarts>>
  BY DEF CreateMeaPre, IInv, Known
<1>2. CASE End(t) /\ early' = early \union {on[t]} /\ UNCHANGED mea
  BY <1>1, <1>2, Ends DEF Rows
<1>3. CASE \E e \in Mea :
             /\ mea[e].deletedAt = "absent"
             /\ mea' = [mea EXCEPT ![e] = [deletedAt |-> "min", status |-> "PENDING_CREATE",
                                           mead |-> on[t], name |-> wanted[t]]]
             /\ GoOnWith(t, e, "alarms") /\ UNCHANGED early
  <2>1. PICK e \in Mea :
             /\ mea[e].deletedAt = "absent"
             /\ mea' = [mea EXCEPT ![e] = [deletedAt |-> "min", status |-> "PENDING_CREATE",
                                           mead |-> on[t], name |-> wanted[t]]]
             /\ GoOnWith(t, e, "alarms") /\ UNCHANGED early
    BY <1>3
  <2>2. LocalTypes /\ Others(t) /\ pc'[t] = "alarms" /\ of'[t] = e /\ on'[t] = on[t]
    BY <2>1, GoOnSays DEF IInv, Step
  <2>3. /\ mea'[e].deletedAt = "min" /\ mea'[e].mead = on[t]
        /\ \A x \in Mea \ {e} : mea'[x] = mea[x]
    BY <2>1 DEF IInv, TypeOK
  <2>4. TypeOK'
    <3>1. wanted[t] \in Name \union {None}
      BY DEF IInv, TypeOK
    <3>2. mea' \in [Mea -> MeaRow]
      BY <1>1, <2>1, <3>1 DEF IInv, TypeOK, DeletedAt, Deletable
    <3> QED BY <1>1, <2>1, <2>2, <3>2 DEF IInv, TypeOK, LocalTypes
  <2>5. Known'
    BY <1>1, <2>2, <2>3 DEF IInv, Known, Others
  <2>6. OneDeleter'
    BY <2>1, <2>2, <2>3 DEF IInv, OneDeleter, Known, Live, Others, Deleting
  <2>7. OnlyEarlyFailuresOrphan'
    BY <1>1, <2>1, <2>2, <2>3 DEF IInv, OnlyEarlyFailuresOrphan, Live, Inline, Others
  <2> QED BY <2>4, <2>5, <2>6, <2>7 DEF IInv
<1> QED BY <1>2, <1>3, Zenon DEF CreateMeaPre

\* Only the status of one MEA changes, of one no request deletes or of the
\* one this request deletes.
LEMMA StatusKeeps ==
  ASSUME IInv, NEW t \in Thread, UNCHANGED <<mead, asked, early, restarts>>,
         NEW e \in Mea, NEW s \in Deletable \union {"PENDING_DELETE"},
         mea' = [mea EXCEPT ![e].status = s], LocalTypes, Others(t), of[t] = e,
         pc[t] \notin {"idle", "vim", "insert"},
         \/ pc'[t] = "idle"
         \/ pc'[t] = "delete.vim" /\ of'[t] = e /\ Live(mea[e]) /\ s = "PENDING_DELETE",
         pc[t] \in Deleting \/ mea[e].status # "PENDING_DELETE"
  PROVE  IInv'
<1>1. /\ \A x \in Mea : mea'[x].deletedAt = mea[x].deletedAt /\ mea'[x].mead = mea[x].mead
      /\ \A x \in Mea \ {e} : mea'[x] = mea[x]
      /\ mea'[e].status = s
  BY DEF IInv, TypeOK
<1>2. TypeOK'
  <2>1. mea \in [Mea -> MeaRow] /\ mea[e] \in MeaRow
    BY DEF IInv, TypeOK
  <2>2. [mea[e] EXCEPT !.status = s] \in MeaRow
    BY <2>1
  <2>3. mea' \in [Mea -> MeaRow]
    BY <2>1, <2>2
  <2> QED BY <2>3 DEF IInv, TypeOK, LocalTypes
<1>3. Known'
  BY <1>1 DEF IInv, Known, Others
<1>4. \A u \in Thread \ {t} : pc[u] \in Deleting => of[u] # e /\ of[u] \in Mea
  BY DEF IInv, OneDeleter, Known, Deleting
<1>5. OneDeleter'
  BY <1>1, <1>4 DEF IInv, OneDeleter, Live, Others, Deleting
<1>6. OnlyEarlyFailuresOrphan'
  BY <1>1 DEF IInv, OnlyEarlyFailuresOrphan, Live, Inline, Others
<1> QED BY <1>2, <1>3, <1>5, <1>6 DEF IInv

LEMMA CreateMeaWaitKeeps ==
  ASSUME IInv, NEW t \in Thread, CreateMeaWait(t) PROVE IInv'
<1>1. pc[t] = "post" /\ of[t] \in Mea /\ End(t) /\ UNCHANGED <<mead, asked, early, restarts>>
  BY DEF CreateMeaWait, IInv, Known
<1>2. LocalTypes /\ Others(t) /\ pc'[t] = "idle"
  BY <1>1, EndSays DEF IInv
<1>3. CASE UNCHANGED mea
  BY <1>1, <1>3, Ends DEF Rows
<1>4. CASE ~UNCHANGED mea
  <2>1. PICK s \in {"ACTIVE", "ERROR"} : mea' = [mea EXCEPT ![of[t]].status = s]
    BY <1>4 DEF CreateMeaWait
  <2>2. mea[of[t]].status # "PENDING_DELETE"
    BY <1>4 DEF CreateMeaWait, CREATE_STATES
  <2>3. s \in Deletable \union {"PENDING_DELETE"}
    BY DEF Deletable
  <2> QED BY <1>1, <1>2, <2>1, <2>2, <2>3, StatusKeeps
<1> QED BY <1>3, <1>4

LEMMA DeleteMeaPreKeeps ==
  ASSUME IInv, NEW t \in Thread, DeleteMeaPre(t) PROVE IInv'
<1>1. pc[t] = "delete.pre" /\ of[t] \in Mea /\ UNCHANGED <<mead, asked, early, restarts>>
  BY DEF DeleteMeaPre, IInv, Known
<1>2. CASE End(t) /\ UNCHANGED mea
  BY <1>1, <1>2, Ends DEF Rows
<1>3. CASE /\ Live(mea[of[t]]) /\ mea[of[t]].status \in Deletable
           /\ mea' = [mea EXCEPT ![of[t]].status = "PENDING_DELETE"] /\ Goto(t, "delete.vim")
  <2>1. LocalTypes /\ Others(t) /\ pc'[t] = "delete.vim" /\ of'[t] = of[t]
    BY <1>3, GotoSays DEF IInv, Step
  <2>2. mea[of[t]].status # "PENDING_DELETE"
    BY <1>3 DEF Deletable
  <2> QED BY <1>1, <1>3, <2>1, <2>2, StatusKeeps
<1> QED BY <1>2, <1>3 DEF DeleteMeaPre

LEMMA DeleteErrorKeeps ==
  ASSUME IInv, NEW t \in Thread, DeleteError(t) PROVE IInv'
<1>1. /\ pc[t] = "delete.error" /\ of[t] \in Mea /\ UNCHANGED <<mead, asked, early, restarts>>
      /\ End(t) /\ mea' = [mea EXCEPT ![of[t]].status = "ERROR"]
  BY DEF DeleteError, IInv, Known
<1>2. LocalTypes /\ Others(t) /\ pc'[t] = "idle"
  BY <1>1, EndSays DEF IInv
<1>3. "delete.error" \in Deleting /\ "ERROR" \in Deletable \union {"PENDING_DELETE"}
  BY DEF Deleting, Deletable
<1> QED BY <1>1, <1>2, <1>3, StatusKeeps

\* The row of an MEA goes, and with it an inline descriptor.
LEMMA DeletePostKeeps ==
  ASSUME IInv, NEW t \in Thread, DeletePost(t) PROVE IInv'
<1> DEFINE e == of[t]
<1> DEFINE d == mea[e].mead
<1>1. /\ pc[t] = "delete.post" /\ e \in Mea /\ d \in Mead
      /\ UNCHANGED <<asked, early, restarts>> /\ End(t)
  BY DEF DeletePost, IInv, Known
<1>2. LocalTypes /\ Others(t) /\ pc'[t] = "idle"
  BY <1>1, EndSays DEF IInv
<1>3. CASE UNCHANGED <<mead, mea>>
  BY <1>1, <1>3, Ends DEF Rows
<1>4. CASE /\ mea' = [mea EXCEPT ![e].deletedAt = "stamp"]
           /\ \/ UNCHANGED mead /\ ~Inline(d)
              \/ mead' = [mead EXCEPT ![d].deletedAt = "stamp"]
  <2>1. TypeOK'
    <3>1. mea' \in [Mea -> MeaRow]
      BY <1>1, <1>4 DEF IInv, TypeOK, DeletedAt
    <3>2. mead' \in [Mead -> MeadRow]
      <4>1. CASE UNCHANGED mead
        BY <4>1 DEF IInv, TypeOK
      <4>2. CASE mead' = [mead EXCEPT ![d].deletedAt = "stamp"]
        BY <1>1, <4>2 DEF IInv, TypeOK, DeletedAt
      <4> QED BY <1>4, <4>1, <4>2
    <3> QED BY <1>1, <1>2, <3>1, <3>2 DEF IInv, TypeOK, LocalTypes
  <2>2. /\ \A x \in Mea \ {e} : mea'[x] = mea[x]
        /\ mea'[e].deletedAt = "stamp" /\ mea'[e].mead = d /\ mea'[e].status = mea[e].status
    BY <1>1, <1>4 DEF IInv, TypeOK
  <2>3. Known'
    BY <1>1, <1>2, <2>2 DEF IInv, Known, Others
  <2>4. "delete.post" \in Deleting
    BY DEF Deleting
  <2>5. \A u \in Thread \ {t} : pc[u] \in Deleting => of[u] # e /\ of[u] \in Mea
    BY <1>1, <2>4 DEF IInv, OneDeleter, Known, Deleting
  <2>6. OneDeleter'
    BY <1>2, <2>2, <2>5 DEF IInv, OneDeleter, Live, Others, Deleting
  <2>7. OnlyEarlyFailuresOrphan'
    <3> SUFFICES ASSUME NEW x \in Mead, Live(mead'[x]), Inline(x)', x \notin early'
                 PROVE  \/ \E y \in Mea : mea'[y].mead = x /\ Live(mea'[y])
                        \/ \E u \in Thread : on'[u] = x /\ pc'[u] \in {"vim", "insert"}
      BY DEF OnlyEarlyFailuresOrphan, Live
    <3>1. x # d /\ mead'[x] = mead[x]
      BY <1>1, <1>4 DEF IInv, TypeOK, Live, Inline
    <3>2. Live(mead[x]) /\ Inline(x) /\ x \notin early
      BY <1>1, <3>1 DEF Inline
    <3>3. CASE \E y \in Mea : mea[y].mead = x /\ Live(mea[y])
      BY <2>2, <3>1, <3>3
    <3>4. CASE \E u \in Thread : on[u] = x /\ pc[u] \in {"vim", "insert"}
      BY <1>1, <1>2, <3>4 DEF Others
    <3> QED BY <3>2, <3>3, <3>4 DEF IInv, OnlyEarlyFailuresOrphan
  <2> QED BY <2>1, <2>3, <2>6, <2>7 DEF IInv
<1> QED BY <1>3, <1>4 DEF DeletePost

LEMMA RestartKeeps ==
  ASSUME IInv, Restart PROVE IInv'
<1>1. /\ \A t \in Thread : pc'[t] = "idle"
      /\ UNCHANGED <<mead, mea, asked>>
      /\ early \subseteq early'
      /\ \A t \in Thread : pc[t] \in {"vim", "insert"} => on[t] \in early'
  BY DEF Restart
<1>2. TypeOK'
  BY DEF Restart, IInv, TypeOK, Step
<1>3. Known' /\ OneDeleter'
  BY <1>1 DEF IInv, Known, OneDeleter, Deleting
<1>4. OnlyEarlyFailuresOrphan'
  BY <1>1 DEF IInv, OnlyEarlyFailuresOrphan, Live, Inline
<1> QED BY <1>2, <1>3, <1>4 DEF IInv

\* The invariant holds in every reachable state of Catalog.
LEMMA Invariance == Spec => []IInv
<1>1. IInv /\ [Next]_vars => IInv'
  <2> SUFFICES ASSUME IInv, [Next]_vars PROVE IInv'
    OBVIOUS
  <2>1. CASE Restart
    BY <2>1, RestartKeeps
  <2>2. CASE UNCHANGED vars
    BY <2>2 DEF vars, IInv, TypeOK, Known, OneDeleter, Deleting, OnlyEarlyFailuresOrphan, Live, Inline
  <2>3. ASSUME NEW t \in Thread,
               \/ CreateMead(t) \/ DeleteMead(t) \/ CreateInline(t) \/ CreateFrom(t) \/ GetVim(t)
               \/ CreateMeaPre(t) \/ AddAlarmUrl(t) \/ DriverCreate(t) \/ CreateMeaWait(t)
               \/ DeleteMea(t) \/ DeleteMeaPre(t) \/ DeleteGetVim(t) \/ DeleteDriver(t)
               \/ DeleteError(t) \/ DeletePost(t)
        PROVE  IInv'
    BY <2>3, MeadKeeps, BeginKeeps, GetVimKeeps, CreateMeaPreKeeps, DriverKeeps,
       CreateMeaWaitKeeps, DeleteMeaKeeps, DeleteMeaPreKeeps, DeleteErrorKeeps, DeletePostKeeps
  <2> QED BY <2>1, <2>2, <2>3 DEF Next
<1> QED BY <1>1, InitHolds, PTL DEF Spec

\* No inline descriptor is left behind but by a creation that ended before
\* its MEA had a row, whatever the threads, the faults and the restarts.
THEOREM OnlyEarlyOrphans == Spec => []OnlyEarlyFailuresOrphan
<1>1. IInv => OnlyEarlyFailuresOrphan
  BY DEF IInv
<1> QED BY <1>1, Invariance, PTL

\* An inline descriptor goes in the transaction that deletes an MEA of it,
\* or at a client's request.
THEOREM InlineGoes == Spec => InlineGoesWithMea
<1> DEFINE Together == \A d \in Mead : Goes(mead[d], mead'[d]) /\ Inline(d) /\ d \notin asked' =>
                         \E e \in Mea : mea[e].mead = d /\ Goes(mea[e], mea'[e])
<1>1. IInv /\ [Next]_vars => [Together]_vars
  <2> SUFFICES ASSUME IInv, [Next]_vars, NEW d \in Mead, Goes(mead[d], mead'[d]), d \notin asked'
               PROVE  \E e \in Mea : mea[e].mead = d /\ Goes(mea[e], mea'[e])
    OBVIOUS
  <2>1. PICK t \in Thread :
          \/ \E x \in Mead : Insert(x, "onboarded") \/ Insert(x, "inline")
          \/ \E x \in Mead : mead' = [mead EXCEPT ![x].deletedAt = "stamp"] /\ x \in asked'
          \/ DeletePost(t)
    <3>1. ~UNCHANGED mead
      BY DEF Goes
    <3> QED BY <3>1 DEF Next, vars, CreateMead, DeleteMead, CreateInline, CreateFrom, GetVim,
            CreateMeaPre, AddAlarmUrl, DriverCreate, CreateMeaWait, DeleteMea, DeleteMeaPre,
            DeleteGetVim, DeleteDriver, DeleteError, Restart
  <2>2. DeletePost(t)
    BY <2>1 DEF Insert, Goes, Live, IInv, TypeOK
  <2>3. of[t] \in Mea /\ Live(mea[of[t]])
    BY <2>2 DEF DeletePost, IInv, Known, OneDeleter, Deleting
  <2>4. /\ mea' = [mea EXCEPT ![of[t]].deletedAt = "stamp"]
        /\ mead' = [mead EXCEPT ![mea[of[t]].mead].deletedAt = "stamp"]
    BY <2>2 DEF DeletePost, Goes
  <2>5. mea[of[t]].mead = d
    BY <2>4 DEF Goes, Live, IInv, TypeOK
  <2>6. Goes(mea[of[t]], mea'[of[t]])
    BY <2>3, <2>4 DEF Goes, Live, IInv, TypeOK
  <2> QED BY <2>3, <2>5, <2>6
<1>2. Spec => [][Together]_vars
  BY <1>1, Invariance, PTL DEF Spec
<1> QED BY <1>2 DEF InlineGoesWithMea
=============================================================================
