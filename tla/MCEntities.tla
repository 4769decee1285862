----------------------------- MODULE MCEntities -----------------------------
(* Instances of Entities for TLC: an attribute "mail" (unique), "name"      *)
(* (cardinality one) and "boss" (references, cardinality many).             *)
EXTENDS Entities

CONSTANTS mail, name, boss, bogus, x, y

\* Transactions of one op, and pairs on which upserts, supersession, the second
\* batch and references depend.
Transactions ==
  {<<Add(s, mail, Val(v))>> : s \in {Tid(1), Eid(1)}, v \in Values}
  \cup {<<Add(s, name, Val(x))>> : s \in {Ref(mail, x), CurrentTx}}
  \cup {<<Ret(s, mail, Val(x))>> : s \in {Eid(1), Ref(mail, x)}}
  \cup {<<Add(Tid(1), mail, Val(x)), Add(s, name, Val(x))>> : s \in {Tid(1), Tid(2)}}
  \cup {<<Add(Tid(1), mail, Val(x)), Add(Tid(2), mail, Val(v))>> : v \in Values}
  \cup {<<Add(Eid(1), mail, Val(y)), op>> :
          op \in {Ret(Eid(1), mail, Val(x)), Ret(Eid(1), mail, Val(y)), Add(Tid(1), mail, Val(x))}}
  \cup {<<Add(Tid(1), mail, Val(x)), Add(Eid(1), boss, Tid(1))>>,
        <<Add(Eid(1), boss, Ref(mail, x)), Ret(Eid(1), boss, Eid(1))>>}

Refused ==
  {<<Add(Tid(1), name, Val(x)), op>> :
     op \in {Ret(CurrentTx, name, Val(x)), Ret(Tid(1), name, Val(x)),
             Ret(Eid(1), boss, Tid(1)), Add(Tid(1), bogus, Val(x)),
             Add(Tid(1), boss, Tid(2)), Add(Ref(mail, y), name, Val(x))}}

AllTxData == Transactions \cup Refused

\* References by lookup ref from an entity that is itself being resolved.
RefTxData ==
  {<<Add(Tid(1), mail, Val(v))>> : v \in Values}
  \cup {<<Add(s, boss, Ref(mail, x))>> : s \in {Tid(1), Ref(mail, y)}}

\* Programs write the address y.
MailY == {<<mail, y>>}

NewTxData == {<<Add(Tid(1), name, Val(v))>> : v \in Values}
=============================================================================
