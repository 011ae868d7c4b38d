-------------------------------- MODULE Status --------------------------------
(* Status and StatusOr as a computation of nested calls uses them (the         *)
(* Calculator of the tests): a call holds a Status that update() or a StatusOr *)
(* that set() changes, step by step, and hands it to its caller by value.      *)
EXTENDS Naturals, Sequences

CONSTANTS Errors,      \* the IErrors in use: fields of ErrorBase's union
          FieldSize,   \* the values of one of its 16-bit fields
          Details,     \* texts given with an error
          Values,      \* values of a StatusOr
          NoValue,     \* an empty std::optional
          MaxDepth,    \* bound on nested calls
          MaxFailures  \* bound on failing steps

VARIABLES stack,    \* the calls in progress, outermost first
          failures  \* history: what went wrong, in order

vars == <<stack, failures>>

------------------------------------------------------------------------------
(* IError, ErrorBase, GenericError *)

\* enum ErrorCode
eOk == 0
eUnknown == 1
eInvalidArgument == 2
eNotFound == 4
eExists == 8
eNotImplemented == 16
eNotAvailable == 32
eInternal == 64

GenericError(ecode) == [base_error |-> ecode, module_error |-> 0, module_id |-> 0]
NoError == GenericError(eOk)
UnknownError == GenericError(eUnknown)

\* The union's 64-bit view.
Code(e) == e.base_error + FieldSize * e.module_error + FieldSize * FieldSize * e.module_id
IsError(e) == e.base_error # eOk

\* message(): every error without a text of its own is an unknown one.
Described == {eOk, eExists, eInternal, eInvalidArgument, eNotAvailable, eNotFound,
              eNotImplemented}
Text(e) == IF e.base_error \in Described THEN e.base_error ELSE eUnknown

\* Every error class of the repository sets base_error alone when nothing is wrong.
ASSUME ErrorsAssumption ==
  /\ FieldSize \in Nat \ {0}
  /\ Errors \subseteq [base_error : Nat, module_error : Nat, module_id : Nat]
  /\ {NoError, UnknownError} \subseteq Errors
  /\ \A e \in Errors : ~IsError(e) => e.module_error = 0 /\ e.module_id = 0
  /\ NoValue \notin Values

------------------------------------------------------------------------------
(* Status. A message is the error's text, then the details if there are any. *)

StatusOf(e) == [code |-> Code(e), is_ok |-> ~IsError(e), message |-> <<Text(e)>>]
StatusWith(e, msg) == [StatusOf(e) EXCEPT !.message = <<Text(e), msg>>]
DefaultStatus == [code |-> 0, is_ok |-> TRUE, message |-> <<>>]
StatusOk == StatusOf(NoError)

\* Mutant: an update that brings no error clears the ones before.
UpdateAlways(s, t) == t
Update(s, t) == IF s.code # 0 THEN s ELSE t

------------------------------------------------------------------------------
(* A call: whether it holds a StatusOr or a Status; `from' is history, the     *)
(* number of failures before it began.                                         *)

Call(returns, s, v, n) == [result |-> returns, status |-> s, value |-> v, from |-> n]

Failure(s) == [code |-> s.code, message |-> s.message]

\* StatusOr::set(Status const&). Mutant: also when it is not ok().
SetAlways(r, t) == [r EXCEPT !.status = t]
SetStatus(r, t) == IF r.status.is_ok THEN [r EXCEPT !.status = t] ELSE r
SetValue(r, v) == IF r.status.is_ok THEN [r EXCEPT !.value = v] ELSE r

\* What a call does with the Status of a step or of a call it made.
Absorb(c, t) == IF c.result THEN SetStatus(c, t)
                            ELSE [c EXCEPT !.status = Update(@, t)]

Top == Len(stack)
Inner == stack[Top]

Starts(n) == {Call(FALSE, StatusOk, NoValue, n), Call(FALSE, DefaultStatus, NoValue, n)}
               \cup {Call(TRUE, StatusOk, v, n) : v \in Values}
\* StatusOr<T>(): the computation has no result yet, which counts as a failure.
Unset(n) == Call(TRUE, StatusOf(UnknownError), NoValue, n)

Init == \/ failures = <<>> /\ \E c \in Starts(0) : stack = <<c>>
        \/ failures = <<Failure(StatusOf(UnknownError))>> /\ stack = <<Unset(0)>>

Enter == /\ Top < MaxDepth
         /\ \E c \in Starts(Len(failures)) : stack' = Append(stack, c)
         /\ UNCHANGED failures

EnterUnset == /\ Top < MaxDepth /\ Len(failures) < MaxFailures
              /\ stack' = Append(stack, Unset(Len(failures)))
              /\ failures' = Append(failures, Failure(StatusOf(UnknownError)))

\* update(ie, msg), update(Status{ie, msg}), set(Status{ie, msg})
Step(e, msg) ==
  LET s == StatusWith(e, msg)
  IN  /\ stack' = [stack EXCEPT ![Top] = Absorb(Inner, s)]
      /\ IF IsError(e) THEN /\ Len(failures) < MaxFailures
                            /\ failures' = Append(failures, Failure(s))
                       ELSE UNCHANGED failures

\* StatusOr::set(T&)
Compute(v) == /\ Inner.result
              /\ stack' = [stack EXCEPT ![Top] = SetValue(Inner, v)]
              /\ UNCHANGED failures

ReturnWith(s) == /\ Top > 1
                 /\ stack' = [SubSeq(stack, 1, Top - 1) EXCEPT
                                ![Top - 1] = Absorb(@, s)]
                 /\ UNCHANGED failures

\* Returned by value, as it is or as a StatusOr<U> that the caller's converts.
Return == ReturnWith(Inner.status)
\* As a StatusOr: of the Status if that is not ok, else of a value.
Wrapped(s) == IF s.is_ok THEN StatusOk ELSE s
ReturnWrapped == /\ ~Inner.result
                 /\ ReturnWith(Wrapped(Inner.status))

Next == \/ Enter \/ EnterUnset \/ Return \/ ReturnWrapped
        \/ \E e \in Errors, msg \in Details : Step(e, msg)
        \/ \E v \in Values : Compute(v)

Spec == Init /\ [][Next]_vars

------------------------------------------------------------------------------
(* Properties *)

Messages == {<<>>} \cup {<<t>> : t \in Nat} \cup (Nat \X Details)
StatusType == [code : Nat, is_ok : BOOLEAN, message : Messages]
CallType == [result : BOOLEAN, status : StatusType, value : Values \cup {NoValue}, from : Nat]

\* Statuses are statuses; m_code and m_is_ok, which update() and ok() look at, never
\* disagree; and a StatusOr that is ok has a value.
TypeOK ==
  /\ failures \in Seq([code : Nat, message : Messages])
  /\ stack \in Seq(CallType)
  /\ Top > 0
  /\ \A k \in 1 .. Top :
       /\ stack[k].status.is_ok <=> stack[k].status.code = 0
       /\ stack[k].result /\ stack[k].status.is_ok => stack[k].value \in Values

\* When the outermost call is alone again, it is ok if no step of the whole computation
\* failed, and otherwise has the code and the message of the step that failed first,
\* at whatever depth and through whichever mixture of update(), set() and conversions.
FirstFailureIsReported ==
  Top = 1 => IF failures = <<>> THEN stack[1].status.is_ok
             ELSE /\ ~stack[1].status.is_ok
                  /\ Failure(stack[1].status) = failures[1]

\* Status and StatusOr keep what Outcome promises.
Fine == [fine |-> TRUE]
OutcomeOf(s) == IF s.is_ok THEN Fine ELSE Failure(s)
Seen == [k \in 1 .. Top |-> OutcomeOf(stack[k].status)]
Reported == {Failure(StatusOf(UnknownError))} \cup
              {Failure(StatusWith(e, m)) : e \in {x \in Errors : IsError(x)}, m \in Details}
O == INSTANCE Outcome WITH outcomes <- Seen, Failures <- Reported, Fine <- Fine
ImplementsOutcome == O!Spec
===============================================================================
