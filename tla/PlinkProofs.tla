---------------------------- MODULE PlinkProofs -----------------------------
(***************************************************************************)
(* What holds of inode numbers and pseudo links for any number of names,   *)
(* hidden inodes and files.                                                *)
(***************************************************************************)
EXTENDS Plink, TLAPS

(* The hidden inodes of inode i, the file in hidden inode u. *)
H0(i) == inode[i].hi[0]
H1(i) == inode[i].hi[1]
FileOf(u) == data[u].f

(* Name n is seen on branch 1; some name of hidden inode l is. *)
OnLow(n) == up[n] = None /\ n \notin wh /\ low[n] # None
Alive(l) == \E n \in Name : OnLow(n) /\ low[n] = l

-----------------------------------------------------------------------------
(* The part of the invariant that holds whatever fails. *)

(* An inode in memory has a hidden inode, each on its own branch. *)
CoreInv ==
    \A i \in Ino : /\ H0(i) \in UpIno \cup {None} /\ H1(i) \in LowIno \cup {None}
                   /\ InCore(i) <=> H0(i) # None \/ H1(i) # None
                   /\ InCore(i) => inode[i].gen \in Gens /\ i <= last

(* Numbers that were given out are not above the counter. *)
LastInv == \A h \in Inode : xino[h] <= last

(* A cached dentry has the hidden inode of its name. *)
DentInv ==
    \A n \in Name : dent[n] # 0 =>
        /\ Visible(n)
        /\ IF up[n] = None THEN H1(dent[n]) = low[n] ELSE H0(dent[n]) = up[n]

(* What is known of files that no step has copied up or created yet. *)
BornInv ==
    /\ \A l \in LowIno : ver[l] # -1
    /\ \A u \in UpIno : Linked(u) => FileOf(u) \in File /\ ver[FileOf(u)] # -1
    /\ \A n \in Name : OnLow(n) => fid[n] = low[n]
    /\ \A n \in Name : Visible(n) => fid[n] \in File /\ ver[fid[n]] # -1

(* Without pseudo links that fail, only a lost table counts as a failure. *)
FaultInv == Fault \subseteq {"xino"} /\ fails # 0 => ~xon

BaseInv == TypeOK /\ CoreInv /\ LastInv /\ DentInv /\ BornInv /\ FaultInv

-----------------------------------------------------------------------------
(* Facts about the operators. *)

LEMMA MaxOfTwo ==
    ASSUME NEW a \in Int, NEW b \in Int
    PROVE  Max({a, b}) = IF a <= b THEN b ELSE a
<1>. DEFINE m == IF a <= b THEN b ELSE a
<1>1. m \in {a, b} /\ \A y \in {a, b} : m >= y
  OBVIOUS
<1>2. \A x \in {a, b} : (\A y \in {a, b} : x >= y) => x = m
  OBVIOUS
<1>. QED BY <1>1, <1>2 DEF Max

LEMMA OutcomeCount ==
    ASSUME TypeOK, NEW S, NEW r \in Outcome(S), Count(r)
    PROVE  /\ fails' \in 0 .. MaxFail
           /\ r = "ok" \/ (r \in S /\ r \in Fault)
           /\ r = "ok" => fails' = fails
           /\ r # "ok" => fails' # 0
BY PlinkAssumption DEF Outcome, Count, TypeOK


(* What au_new_inode and set_h_iptr do when the dentry of n gets inode i    *)
(* for hidden inode h of branch b; r says whether the table was written.    *)
InstRel(n, b, h, g, i, r) ==
    /\ r = "ok" \/ r \in Fault
    /\ xon /\ xino[h] # 0 /\ (InCore(xino[h]) => inode[xino[h]].gen = g) => i = xino[h]
    /\ i = last + 1 \/ (xon /\ i = xino[h])
    /\ inode[i].hi[b] = None \/ inode[i].hi[b] = h
    /\ inode' \in [Ino -> [hi : [0 .. 1 -> Inode \cup {None}], gen : Gens \cup {None}]]
    /\ inode'[i].hi = [inode[i].hi EXCEPT ![b] = h]
    /\ inode'[i].gen \in Gens
    /\ \A j \in Ino \ {i} : inode'[j] = inode[j]
    /\ dent' = [dent EXCEPT ![n] = i]
    /\ last' \in Ino /\ last' >= last /\ last' >= i
    /\ list' = list
    /\ fails' \in 0 .. MaxFail
    /\ IF r = "ok" THEN fails' = fails ELSE fails' # 0 /\ ~xon'
    /\ xon' = (xon /\ r # "xino")
    /\ xino' = IF xon /\ r # "xino" THEN [xino EXCEPT ![h] = i] ELSE xino

LEMMA InstFacts ==
    ASSUME BaseInv, NEW n \in Name, NEW b \in 0 .. 1, NEW h \in Inode, NEW g \in Gens,
           b = 0 => h \in UpIno, b = 1 => h \in LowIno, Instantiate(n, b, h, g)
    PROVE  \E i \in Ino, r \in {"ok", "xino"} : InstRel(n, b, h, g, i, r)
<1>. DEFINE i == NewInode(h, g)
<1>1. PICK r \in Outcome({"xino"}) :
        /\ i <= MaxIno /\ ~Estale(i, b, h)
        /\ XinoWrite(h, i, r) /\ Count(r)
        /\ last' = Max({last, i})
        /\ dent' = [dent EXCEPT ![n] = i]
        /\ inode' = [inode EXCEPT ![i] = SetInode(i, b, h, g)]
        /\ list' = list
  BY DEF Instantiate
<1>2. TypeOK /\ CoreInv /\ LastInv
  BY DEF BaseInv
<1>3. xino[h] \in Ino \cup {0} /\ last \in Ino \cup {0} /\ MaxIno \in Nat
  BY <1>2, PlinkAssumption DEF TypeOK
<1>4. /\ i = last + 1 \/ (xon /\ i = xino[h] /\ i # 0)
      /\ xon /\ xino[h] # 0 /\ (InCore(xino[h]) => inode[xino[h]].gen = g) => i = xino[h]
  BY <1>2, <1>3 DEF NewInode, XinoRead, NewIno, TypeOK
<1>5. i \in Ino
  BY <1>1, <1>3, <1>4 DEF Ino
<1>6. r \in {"ok", "xino"} /\ (r = "ok" \/ r \in Fault) /\ fails' \in 0 .. MaxFail
      /\ (IF r = "ok" THEN fails' = fails ELSE fails' # 0)
  BY <1>1, <1>2, OutcomeCount
<1>. HIDE DEF i
<1>7. inode[i].hi[b] = None \/ inode[i].hi[b] = h
  <2>1. inode[i].hi[b] \notin {None, h} => InCore(i)
    BY <1>2, <1>5 DEF CoreInv, H0, H1
  <2>. QED BY <1>1, <2>1 DEF Estale
<1>8. inode[i] \in [hi : [0 .. 1 -> Inode \cup {None}], gen : Gens \cup {None}]
  BY <1>2, <1>5 DEF TypeOK
<1>9. /\ SetInode(i, b, h, g) \in [hi : [0 .. 1 -> Inode \cup {None}], gen : Gens \cup {None}]
      /\ SetInode(i, b, h, g).hi = [inode[i].hi EXCEPT ![b] = h]
      /\ SetInode(i, b, h, g).gen \in Gens
  <2>1. CASE InCore(i)
    <3>1. inode[i].gen \in Gens
      BY <1>2, <1>5, <2>1 DEF CoreInv
    <3>. QED BY <1>8, <2>1, <3>1 DEF SetInode
  <2>2. CASE ~InCore(i)
    <3>1. inode[i] = NoInode
      BY <2>2 DEF InCore
    <3>. QED BY <1>8, <2>2, <3>1 DEF SetInode, NoInode
  <2>. QED BY <2>1, <2>2
<1>10. /\ inode' \in [Ino -> [hi : [0 .. 1 -> Inode \cup {None}], gen : Gens \cup {None}]]
       /\ inode'[i].hi = [inode[i].hi EXCEPT ![b] = h]
       /\ inode'[i].gen \in Gens
       /\ \A j \in Ino \ {i} : inode'[j] = inode[j]
  BY <1>1, <1>2, <1>5, <1>9 DEF TypeOK
<1>11. last' \in Ino /\ last' >= last /\ last' >= i
  BY <1>1, <1>3, <1>5, MaxOfTwo DEF Ino
<1>12. /\ xon' = (xon /\ r # "xino")
       /\ xino' = IF xon /\ r # "xino" THEN [xino EXCEPT ![h] = i] ELSE xino
  BY <1>1 DEF XinoWrite
<1>13. r # "ok" => ~xon'
  BY <1>6, <1>12
<1>. QED BY <1>1, <1>4, <1>5, <1>6, <1>7, <1>10, <1>11, <1>12, <1>13 DEF InstRel

(* The inodes in memory after that. *)
LEMMA InstCore ==
    ASSUME BaseInv, NEW n \in Name, dent[n] = 0,
           NEW b \in 0 .. 1, NEW h \in Inode, NEW g \in Gens,
           b = 0 => h \in UpIno, b = 1 => h \in LowIno,
           NEW i \in Ino, NEW r \in {"ok", "xino"}, InstRel(n, b, h, g, i, r)
    PROVE  /\ CoreInv' /\ LastInv' /\ FaultInv'
           /\ xon' \in BOOLEAN /\ xino' \in [Inode -> Ino \cup {0}] /\ last' \in Ino
           /\ dent' \in [Name -> Ino \cup {0}]
           /\ H0(i)' = (IF b = 0 THEN h ELSE H0(i)) /\ H1(i)' = (IF b = 1 THEN h ELSE H1(i))
           /\ \A j \in Ino \ {i} : H0(j)' = H0(j) /\ H1(j)' = H1(j) /\ (InCore(j)' <=> InCore(j))
           /\ \A j \in Ino : (j \in list' \/ \E m \in Name : dent'[m] = j) <=> InCore(j)'
<1>1. TypeOK /\ CoreInv /\ LastInv /\ FaultInv
  BY DEF BaseInv
<1>2. inode[i] \in [hi : [0 .. 1 -> Inode \cup {None}], gen : Gens \cup {None}]
  BY <1>1 DEF TypeOK
<1>3. /\ H0(i)' = (IF b = 0 THEN h ELSE H0(i)) /\ H1(i)' = (IF b = 1 THEN h ELSE H1(i))
      /\ \A j \in Ino \ {i} : H0(j)' = H0(j) /\ H1(j)' = H1(j) /\ (InCore(j)' <=> InCore(j))
  BY <1>2 DEF InstRel, H0, H1, InCore
<1>4. h # None /\ MaxIno \in Nat
  BY PlinkAssumption DEF Inode
<1>5. InCore(i)'
  <2>1. inode'[i].hi[b] # NoInode.hi[b]
    BY <1>2, <1>4 DEF InstRel, NoInode
  <2>. QED BY <2>1 DEF InCore
<1>6. CoreInv'
  <2>1. \A j \in Ino \ {i} : InCore(j)' => inode'[j].gen \in Gens /\ j <= last'
    <3>1. last \in Int /\ last' \in Int
      BY <1>1, <1>4 DEF TypeOK, InstRel, Ino
    <3>. QED BY <1>1, <1>3, <3>1 DEF CoreInv, InstRel, Ino
  <2>2. inode'[i].gen \in Gens /\ i <= last'
    BY DEF InstRel, Ino
  <2>. QED BY <1>1, <1>3, <1>4, <1>5, <2>1, <2>2 DEF CoreInv
<1>7. /\ xon' \in BOOLEAN /\ xino' \in [Inode -> Ino \cup {0}] /\ last' \in Ino
      /\ dent' \in [Name -> Ino \cup {0}]
  BY <1>1 DEF TypeOK, InstRel
<1>8. LastInv'
  <2>1. \A k \in Inode : xino[k] \in Int /\ last \in Int /\ last' \in Int /\ i \in Int
    BY <1>1, <1>4 DEF TypeOK, InstRel, Ino
  <2>. QED BY <1>1, <2>1 DEF LastInv, InstRel, TypeOK
<1>9. FaultInv'
  BY <1>1 DEF FaultInv, InstRel
<1>10. \A j \in Ino : (j \in list' \/ \E m \in Name : dent'[m] = j) <=> InCore(j)'
  <2>1. dent'[n] = i /\ \A m \in Name \ {n} : dent'[m] = dent[m]
    BY <1>1 DEF TypeOK, InstRel
  <2>2. list' = list
    BY DEF InstRel
  <2>3. 0 \notin Ino
    BY DEF Ino
  <2>4. ASSUME NEW j \in Ino \ {i}
        PROVE  (j \in list' \/ \E m \in Name : dent'[m] = j) <=> InCore(j)'
    <3>1. (j \in list \/ \E m \in Name : dent[m] = j) <=> InCore(j)
      BY <1>1 DEF TypeOK
    <3>2. (\E m \in Name : dent'[m] = j) <=> (\E m \in Name : dent[m] = j)
      BY <2>1, <2>3
    <3>. QED BY <1>3, <2>2, <3>1, <3>2
  <2>. QED BY <1>5, <2>1, <2>4
<1>. QED BY <1>3, <1>6, <1>7, <1>8, <1>9, <1>10

(* Name n appears on branch 0 as hidden inode h. *)
LEMMA UpSet ==
    ASSUME TypeOK, NEW n \in Name, NEW h \in UpIno, up' = [up EXCEPT ![n] = h],
           wh' = wh \/ wh' = wh \ {n}, low' = low
    PROVE  /\ up' \in [Name -> UpIno \cup {None}] /\ wh' \subseteq Name
           /\ up'[n] = h /\ h # None /\ \A m \in Name \ {n} : up'[m] = up[m]
           /\ \A m \in Name : OnLow(m)' <=> m # n /\ OnLow(m)
           /\ \A m \in Name : Visible(m)' <=> m = n \/ Visible(m)
           /\ \A l \in LowIno : Alive(l)' => Alive(l)
<1>1. /\ up' \in [Name -> UpIno \cup {None}] /\ wh' \subseteq Name
      /\ up'[n] = h /\ h # None /\ \A m \in Name \ {n} : up'[m] = up[m]
  BY PlinkAssumption DEF TypeOK
<1>2. \A m \in Name : OnLow(m)' <=> m # n /\ OnLow(m)
  BY <1>1 DEF OnLow
<1>3. \A m \in Name : Visible(m)' <=> m = n \/ Visible(m)
  BY <1>1 DEF Visible
<1>4. \A l \in LowIno : Alive(l)' => Alive(l)
  BY <1>2 DEF Alive
<1>. QED BY <1>1, <1>2, <1>3, <1>4

(* A name is on branch 1, on branch 0 or not visible. *)
LEMMA Levels ==
    ASSUME TypeOK, NEW n \in Name
    PROVE  /\ Visible(n) <=> up[n] \in UpIno \/ OnLow(n)
           /\ up[n] \in UpIno <=> up[n] # None
           /\ OnLow(n) => up[n] = None /\ low[n] \in LowIno /\ Alive(low[n])
           /\ Top(n) = (IF up[n] = None THEN 1 ELSE 0)
           /\ Hidden(n) = (IF up[n] = None THEN low[n] ELSE up[n])
BY PlinkAssumption DEF TypeOK, Visible, OnLow, Alive, Top, Hidden

LEMMA LookupBase ==
    ASSUME BaseInv, NEW n \in Name, Lookup(n)
    PROVE  BaseInv'
<1>1. TypeOK /\ CoreInv /\ DentInv /\ BornInv
  BY DEF BaseInv
<1>2. /\ Visible(n) /\ dent[n] = 0
      /\ Instantiate(n, Top(n), Hidden(n), gen[Hidden(n)])
      /\ low' = low /\ up' = up /\ wh' = wh /\ pldir' = pldir /\ data' = data /\ gen' = gen
      /\ job' = job /\ fid' = fid /\ ver' = ver
  BY DEF Lookup, ghost
<1>. DEFINE b == Top(n)  h == Hidden(n)  g == gen[Hidden(n)]
<1>3. /\ b \in 0 .. 1 /\ h \in Inode /\ g \in Gens /\ (b = 0 => h \in UpIno)
      /\ (b = 1 => h \in LowIno) /\ b = (IF up[n] = None THEN 1 ELSE 0)
      /\ h = (IF up[n] = None THEN low[n] ELSE up[n])
  BY <1>1, <1>2, Levels DEF Inode, TypeOK
<1>. HIDE DEF b, h, g
<1>4. Instantiate(n, b, h, g)
  BY <1>2 DEF b, h, g
<1>5. PICK i \in Ino, r \in {"ok", "xino"} : InstRel(n, b, h, g, i, r)
  BY <1>3, <1>4, InstFacts
<1>6. /\ CoreInv' /\ LastInv' /\ FaultInv'
      /\ xon' \in BOOLEAN /\ xino' \in [Inode -> Ino \cup {0}] /\ last' \in Ino
      /\ dent' \in [Name -> Ino \cup {0}]
      /\ H0(i)' = (IF b = 0 THEN h ELSE H0(i)) /\ H1(i)' = (IF b = 1 THEN h ELSE H1(i))
      /\ \A j \in Ino \ {i} : H0(j)' = H0(j) /\ H1(j)' = H1(j)
      /\ \A j \in Ino : (j \in list' \/ \E m \in Name : dent'[m] = j) <=> InCore(j)'
  BY <1>2, <1>3, <1>5, InstCore
<1>7. TypeOK'
  <2>1. list' = list /\ fails' \in 0 .. MaxFail
        /\ inode' \in [Ino -> [hi : [0 .. 1 -> Inode \cup {None}], gen : Gens \cup {None}]]
    BY <1>5 DEF InstRel
  <2>. QED BY <1>1, <1>2, <1>6, <2>1 DEF TypeOK
<1>8. DentInv'
  <2>1. \A m \in Name : Visible(m)' <=> Visible(m)
    BY <1>2 DEF Visible
  <2>2. dent'[n] = i /\ \A m \in Name \ {n} : dent'[m] = dent[m]
    BY <1>1, <1>5 DEF TypeOK, InstRel
  <2>3. (b = 0 => H0(i) = None \/ H0(i) = h) /\ (b = 1 => H1(i) = None \/ H1(i) = h)
    BY <1>5 DEF InstRel, H0, H1
  <2>4. ASSUME NEW m \in Name, NEW j \in Ino \cup {0}, dent'[m] = j, j # 0
        PROVE  Visible(m)' /\ IF up'[m] = None THEN H1(j)' = low'[m] ELSE H0(j)' = up'[m]
    <3>1. CASE m = n
      BY <1>2, <1>3, <1>6, <2>1, <2>2, <2>4, <3>1
    <3>2. CASE m # n
      <4>1. dent[m] = j /\ Visible(m)
            /\ IF up[m] = None THEN H1(j) = low[m] ELSE H0(j) = up[m]
        BY <1>1, <2>2, <2>4, <3>2 DEF DentInv
      <4>2. up[m] = None => low[m] # None
        BY <4>1 DEF Visible
      <4>3. CASE j = i
        BY <1>2, <1>3, <1>6, <2>1, <2>3, <4>1, <4>2, <4>3
      <4>4. CASE j # i
        BY <1>2, <1>6, <2>1, <2>4, <4>1, <4>4
      <4>. QED BY <4>3, <4>4
    <3>. QED BY <3>1, <3>2
  <2>5. \A m \in Name : dent'[m] \in Ino \cup {0}
    BY <1>6
  <2>. QED BY <2>4, <2>5 DEF DentInv
<1>9. BornInv'
  <2>1. \A u \in UpIno : (Linked(u)' <=> Linked(u)) /\ FileOf(u)' = FileOf(u)
    BY <1>2 DEF Linked, FileOf
  <2>2. \A m \in Name : (OnLow(m)' <=> OnLow(m)) /\ (Visible(m)' <=> Visible(m))
    BY <1>2 DEF OnLow, Visible
  <2>. QED BY <1>1, <1>2, <2>1, <2>2 DEF BornInv
<1>. QED BY <1>6, <1>7, <1>8, <1>9 DEF BaseInv

(* aufs_create *)
LEMMA CreateBase ==
    ASSUME BaseInv, NEW n \in Name, NEW f \in NewFile, Create(n, f)
    PROVE  BaseInv'
<1>1. TypeOK /\ CoreInv /\ DentInv /\ BornInv
  BY DEF BaseInv
<1>2. PICK h \in UpIno, g \in Gens :
        /\ up' = [up EXCEPT ![n] = h]
        /\ data' = [data EXCEPT ![h] = [f |-> f, v |-> 0]]
        /\ gen' = [gen EXCEPT ![h] = g]
        /\ Instantiate(n, 0, h, g)
  BY DEF Create
<1>3. /\ ~Visible(n) /\ wh' = wh \ {n} /\ low' = low /\ pldir' = pldir /\ job' = job
      /\ fid' = [fid EXCEPT ![n] = f] /\ ver' = [ver EXCEPT ![f] = 0]
  BY DEF Create
<1>4. dent[n] = 0 /\ up[n] = None /\ h \in Inode /\ f \in File
  BY <1>1, <1>3 DEF DentInv, Visible, Inode, File
<1>5. PICK i \in Ino, r \in {"ok", "xino"} : InstRel(n, 0, h, g, i, r)
  BY <1>2, <1>4, InstFacts
<1>6. /\ CoreInv' /\ LastInv' /\ FaultInv'
      /\ xon' \in BOOLEAN /\ xino' \in [Inode -> Ino \cup {0}] /\ last' \in Ino
      /\ dent' \in [Name -> Ino \cup {0}]
      /\ H0(i)' = h /\ H1(i)' = H1(i)
      /\ \A j \in Ino \ {i} : H0(j)' = H0(j) /\ H1(j)' = H1(j)
      /\ \A j \in Ino : (j \in list' \/ \E m \in Name : dent'[m] = j) <=> InCore(j)'
  BY <1>4, <1>5, InstCore
<1>7. /\ up' \in [Name -> UpIno \cup {None}] /\ wh' \subseteq Name
      /\ up'[n] = h /\ h # None /\ \A m \in Name \ {n} : up'[m] = up[m]
      /\ \A m \in Name : OnLow(m)' <=> m # n /\ OnLow(m)
      /\ \A m \in Name : Visible(m)' <=> m = n \/ Visible(m)
  BY <1>1, <1>2, <1>3, UpSet
<1>8. TypeOK'
  <2>1. list' = list /\ fails' \in 0 .. MaxFail
        /\ inode' \in [Ino -> [hi : [0 .. 1 -> Inode \cup {None}], gen : Gens \cup {None}]]
    BY <1>5 DEF InstRel
  <2>2. data' \in [UpIno -> [f : File \cup {None}, v : Nat]]
    BY <1>1, <1>2, <1>4 DEF TypeOK
  <2>3. fid' \in [Name -> File \cup {None}] /\ ver' \in [File -> Nat \cup {-1}]
    BY <1>1, <1>3, <1>4 DEF TypeOK
  <2>4. gen' \in [Inode -> Gens]
    BY <1>1, <1>2, <1>4 DEF TypeOK
  <2>. QED BY <1>1, <1>3, <1>6, <1>7, <2>1, <2>2, <2>3, <2>4 DEF TypeOK
<1>9. DentInv'
  <2>2. dent'[n] = i /\ \A m \in Name \ {n} : dent'[m] = dent[m]
    BY <1>1, <1>5 DEF TypeOK, InstRel
  <2>3. H0(i) = None \/ H0(i) = h
    BY <1>5 DEF InstRel, H0
  <2>4. ASSUME NEW m \in Name, NEW j \in Ino \cup {0}, dent'[m] = j, j # 0
        PROVE  Visible(m)' /\ IF up'[m] = None THEN H1(j)' = low'[m] ELSE H0(j)' = up'[m]
    <3>1. CASE m = n
      BY <1>6, <1>7, <2>2, <2>4, <3>1
    <3>2. CASE m # n
      <4>1. dent[m] = j /\ Visible(m)
            /\ IF up[m] = None THEN H1(j) = low[m] ELSE H0(j) = up[m]
        BY <1>1, <2>2, <2>4, <3>2 DEF DentInv
      <4>2. up'[m] = up[m] /\ Visible(m)' /\ low'[m] = low[m]
        BY <1>3, <1>7, <3>2, <4>1
      <4>3. CASE j = i
        BY <1>6, <2>3, <4>1, <4>2, <4>3
      <4>4. CASE j # i
        BY <1>6, <2>4, <4>1, <4>2, <4>4
      <4>. QED BY <4>3, <4>4
    <3>. QED BY <3>1, <3>2
  <2>5. \A m \in Name : dent'[m] \in Ino \cup {0}
    BY <1>6
  <2>. QED BY <2>4, <2>5 DEF DentInv
<1>10. BornInv'
  <2>1. \A u \in UpIno : (Linked(u)' <=> u = h \/ Linked(u))
                         /\ FileOf(u)' = (IF u = h THEN f ELSE FileOf(u))
    <3>1. \A u \in UpIno : FileOf(u)' = (IF u = h THEN f ELSE FileOf(u))
      BY <1>1, <1>2 DEF FileOf, TypeOK
    <3>2. ASSUME NEW u \in UpIno PROVE Linked(u)' <=> u = h \/ Linked(u)
      <4>1. u # None
        BY PlinkAssumption
      <4>2. (\E m \in Name : up'[m] = u) <=> u = h \/ (\E m \in Name : up[m] = u)
        BY <1>4, <1>7, <4>1
      <4>. QED BY <1>3, <4>2 DEF Linked
    <3>. QED BY <3>1, <3>2
  <2>2. /\ ver'[f] = 0 /\ \A k \in File \ {f} : ver'[k] = ver[k]
        /\ fid'[n] = f /\ \A m \in Name \ {n} : fid'[m] = fid[m]
    BY <1>1, <1>3, <1>4 DEF TypeOK
  <2>3. \A l \in LowIno : ver'[l] # -1
    BY <1>1, <2>2 DEF BornInv, File
  <2>4. \A u \in UpIno : Linked(u)' => FileOf(u)' \in File /\ ver'[FileOf(u)'] # -1
    BY <1>1, <1>4, <2>1, <2>2 DEF BornInv
  <2>5. \A m \in Name : Visible(m)' => fid'[m] \in File /\ ver'[fid'[m]] # -1
    BY <1>1, <1>4, <1>7, <2>2 DEF BornInv
  <2>6. \A m \in Name : OnLow(m)' => fid'[m] = low'[m]
    BY <1>1, <1>3, <1>7, <2>2 DEF BornInv
  <2>. QED BY <2>3, <2>4, <2>5, <2>6 DEF BornInv
<1>. QED BY <1>6, <1>8, <1>9, <1>10 DEF BaseInv

-----------------------------------------------------------------------------
(* Copy-up and links.  Both give name n the inode of name s, which n may    *)
(* itself be, on branch 0.                                                  *)

JobType == [pc : {"idle", "find", "touch", "rm"}, links : SUBSET (Ino \X UpIno),
            names : SUBSET Name]

(* A step of the user, or the touch of auplink. *)
JobStep(n) ==
    /\ job' \in JobType
    /\ \/ User /\ job' = job
       \/ job.pc = "touch" /\ n \in job.names /\ job' = [job EXCEPT !.names = @ \ {n}]

(* The rest of the state; the file is written w times. *)
Frame(s, n, w) ==
    /\ dent[s] # 0 /\ (n = s \/ ~Visible(n))
    /\ low' = low /\ (wh' = wh \/ wh' = wh \ {n})
    /\ dent' = [dent EXCEPT ![n] = dent[s]]
    /\ fid' = [fid EXCEPT ![n] = fid[s]]
    /\ ver' \in [File -> Nat \cup {-1}]
    /\ \A f \in File : ver'[f] = IF f = fid[s] THEN ver[f] + w ELSE ver[f]
    /\ JobStep(n)

(* The inode has hidden inode u on branch 0: n becomes a link to it, which  *)
(* is changed by x.                                                         *)
JoinRel(s, n, u, x) ==
    /\ H0(dent[s]) = u /\ Linked(u)
    /\ up' = [up EXCEPT ![n] = u]
    /\ data' \in [UpIno -> [f : File \cup {None}, v : Nat]]
    /\ data'[u].f = data[u].f /\ data'[u].v = data[u].v + x
    /\ \A t \in UpIno \ {u} : data'[t] = data[t]
    /\ gen' = gen /\ inode' = inode /\ xino' = xino /\ xon' = xon /\ last' = last
    /\ \/ list' = list /\ pldir' = pldir /\ fails' = fails
       \/ /\ OnLow(s)
          /\ list' = list \/ list' = list \cup {dent[s]}
          /\ pldir' = pldir \/ pldir' = pldir \cup {<<dent[s], u>>}
          /\ fails' \in 0 .. MaxFail
          /\ fails' # fails => fails' # 0 /\ ~(Fault \subseteq {"xino"})

(* The file is copied to the free hidden inode h and changed by w; r is the *)
(* step that failed.                                                        *)
CopyRel(s, n, h, r, w) ==
    /\ OnLow(s) /\ Free(h)
    /\ H0(dent[s]) = None \/ ~Linked(H0(dent[s]))
    /\ up' = [up EXCEPT ![n] = h]
    /\ data' = [data EXCEPT ![h] = [f |-> low[s], v |-> w]]
    /\ gen' \in [Inode -> Gens]
    /\ inode' = [inode EXCEPT ![dent[s]].hi[0] = h]
    /\ xon' = (xon /\ r # "xino")
    /\ xino' = IF xon /\ r # "xino" THEN [xino EXCEPT ![h] = dent[s]] ELSE xino
    /\ last' = last
    /\ r = "ok" \/ r \in Fault
    /\ fails' \in 0 .. MaxFail
    /\ IF r = "ok" THEN fails' = fails ELSE fails' # 0
    /\ \/ list' = list /\ pldir' = pldir /\ (r = "ok" => n = s /\ ~IsPlink(n))
       \/ list' = list \cup {dent[s]} /\ pldir' = pldir
          /\ r # "ok"
       \/ list' = list \cup {dent[s]} /\ pldir' = pldir \cup {<<dent[s], h>>}

(* A link to a hidden inode that has links makes no other one lose its last. *)
LEMMA JoinLinked ==
    ASSUME BaseInv, NEW s \in Name, NEW n \in Name, NEW w \in 0 .. 1, NEW x \in 0 .. 1,
           NEW u \in UpIno, Frame(s, n, w), JoinRel(s, n, u, x)
    PROVE  \A t \in UpIno : (Linked(t)' <=> Linked(t)) /\ FileOf(t)' = FileOf(t)
<1>1. TypeOK /\ DentInv
  BY DEF BaseInv
<1>2. \A t \in UpIno : FileOf(t)' = FileOf(t)
  BY DEF FileOf, JoinRel
<1>3. up[n] = None \/ up[n] = u
  <2>1. CASE n = s
    BY <1>1, <2>1 DEF Frame, JoinRel, DentInv
  <2>2. CASE n # s
    BY <2>2 DEF Frame, Visible
  <2>. QED BY <2>1, <2>2
<1>4. up'[n] = u /\ \A m \in Name \ {n} : up'[m] = up[m]
  BY <1>1 DEF JoinRel, TypeOK
<1>5. Linked(u) /\ (pldir' = pldir \/ pldir' = pldir \cup {<<dent[s], u>>})
  BY DEF JoinRel
<1>6. ASSUME NEW t \in UpIno PROVE Linked(t)' <=> Linked(t)
  <2>1. t # None
    BY PlinkAssumption
  <2>2. CASE t = u
    BY <1>4, <1>5, <2>2 DEF Linked
  <2>3. CASE t # u
    <3>1. (\E m \in Name : up'[m] = t) <=> (\E m \in Name : up[m] = t)
      BY <1>3, <1>4, <2>1, <2>3
    <3>2. (\E l \in pldir' : l[2] = t) <=> (\E l \in pldir : l[2] = t)
      <4>1. <<dent[s], u>>[2] # t
        BY <2>3
      <4>. QED BY <1>5, <4>1
    <3>. QED BY <3>1, <3>2 DEF Linked
  <2>. QED BY <2>2, <2>3
<1>. QED BY <1>2, <1>6

LEMMA JoinBase ==
    ASSUME BaseInv, NEW s \in Name, NEW n \in Name, NEW w \in 0 .. 1, NEW x \in 0 .. 1,
           NEW u \in UpIno, Frame(s, n, w), JoinRel(s, n, u, x)
    PROVE  BaseInv'
<1>. DEFINE i == dent[s]
<1>1. TypeOK /\ CoreInv /\ LastInv /\ DentInv /\ BornInv /\ FaultInv
  BY DEF BaseInv
<1>2. i \in Ino /\ InCore(i) /\ Visible(s) /\ fid[s] \in File /\ ver[fid[s]] # -1
  BY <1>1 DEF TypeOK, Frame, DentInv, BornInv
<1>3. /\ up' \in [Name -> UpIno \cup {None}] /\ wh' \subseteq Name
      /\ up'[n] = u /\ u # None /\ \A m \in Name \ {n} : up'[m] = up[m]
      /\ \A m \in Name : OnLow(m)' <=> m # n /\ OnLow(m)
      /\ \A m \in Name : Visible(m)' <=> m = n \/ Visible(m)
  BY <1>1, UpSet DEF Frame, JoinRel
<1>4. /\ dent' \in [Name -> Ino \cup {0}]
      /\ dent'[n] = i /\ \A m \in Name \ {n} : dent'[m] = dent[m]
      /\ fid' \in [Name -> File \cup {None}]
      /\ fid'[n] = fid[s] /\ \A m \in Name \ {n} : fid'[m] = fid[m]
  BY <1>1, <1>2 DEF Frame, TypeOK
<1>. HIDE DEF i
<1>5. \A j \in Ino : H0(j)' = H0(j) /\ H1(j)' = H1(j) /\ (InCore(j)' <=> InCore(j))
  BY DEF JoinRel, H0, H1, InCore
<1>6. list' \subseteq Ino /\ pldir' \subseteq Ino \X UpIno /\ fails' \in 0 .. MaxFail
      /\ (list' = list \/ list' = list \cup {i})
  BY <1>1, <1>2 DEF JoinRel, TypeOK, i
<1>7. \A j \in Ino : (j \in list' \/ \E m \in Name : dent'[m] = j) <=> InCore(j)'
  <2>1. ASSUME NEW j \in Ino, j # i
        PROVE  (j \in list' \/ \E m \in Name : dent'[m] = j) <=> InCore(j)'
    <3>1. (j \in list \/ \E m \in Name : dent[m] = j) <=> InCore(j)
      BY <1>1 DEF TypeOK
    <3>2. dent[n] = j => FALSE
      <4>1. n # s => dent[n] = 0
        BY <1>1 DEF Frame, DentInv
      <4>. QED BY <2>1, <4>1 DEF i, Ino
    <3>3. (\E m \in Name : dent'[m] = j) <=> (\E m \in Name : dent[m] = j)
      BY <1>4, <2>1, <3>2
    <3>. QED BY <1>5, <1>6, <2>1, <3>1, <3>3
  <2>. QED BY <1>2, <1>4, <1>5, <2>1
<1>8. TypeOK'
  BY <1>1, <1>3, <1>4, <1>6, <1>7 DEF TypeOK, JoinRel, Frame, JobStep, JobType
<1>9. CoreInv' /\ LastInv'
  BY <1>1, <1>5 DEF CoreInv, LastInv, JoinRel
<1>10. FaultInv'
  BY <1>1 DEF FaultInv, JoinRel
<1>11. DentInv'
  <2>1. ASSUME NEW m \in Name, NEW j \in Ino \cup {0}, dent'[m] = j, j # 0
        PROVE  Visible(m)' /\ IF up'[m] = None THEN H1(j)' = low'[m] ELSE H0(j)' = up'[m]
    <3>1. H0(i) = u /\ low' = low
      BY DEF JoinRel, Frame, i
    <3>2. CASE m = n
      BY <1>2, <1>3, <1>4, <1>5, <2>1, <3>1, <3>2
    <3>3. CASE m # n
      <4>1. dent[m] = j /\ Visible(m)
            /\ IF up[m] = None THEN H1(j) = low[m] ELSE H0(j) = up[m]
        BY <1>1, <1>4, <2>1, <3>3 DEF DentInv
      <4>. QED BY <1>3, <1>5, <2>1, <3>1, <3>3, <4>1
    <3>. QED BY <3>2, <3>3
  <2>2. \A m \in Name : dent'[m] \in Ino \cup {0}
    BY <1>4
  <2>. QED BY <2>1, <2>2 DEF DentInv
<1>12. BornInv'
  <2>1. \A t \in UpIno : (Linked(t)' <=> Linked(t)) /\ FileOf(t)' = FileOf(t)
    BY JoinLinked
  <2>2. \A f \in File : ver[f] # -1 => ver'[f] # -1
    BY <1>1 DEF Frame, TypeOK
  <2>3. \A l \in LowIno : ver'[l] # -1
    BY <1>1, <2>2 DEF BornInv, File
  <2>4. \A t \in UpIno : Linked(t)' => FileOf(t)' \in File /\ ver'[FileOf(t)'] # -1
    BY <1>1, <2>1, <2>2 DEF BornInv
  <2>5. \A m \in Name : Visible(m)' => fid'[m] \in File /\ ver'[fid'[m]] # -1
    BY <1>1, <1>2, <1>3, <1>4, <2>2 DEF BornInv
  <2>6. \A m \in Name : OnLow(m)' => fid'[m] = low'[m]
    BY <1>1, <1>3, <1>4 DEF BornInv, Frame
  <2>. QED BY <2>3, <2>4, <2>5, <2>6 DEF BornInv
<1>. QED BY <1>8, <1>9, <1>10, <1>11, <1>12 DEF BaseInv

LEMMA CopyFacts ==
    ASSUME BaseInv, NEW s \in Name, NEW n \in Name, NEW w \in 0 .. 1,
           NEW r \in {"ok", "xino", "nomem", "link"}, NEW h \in UpIno,
           NEW i \in Ino, i = dent[s],
           Frame(s, n, w), CopyRel(s, n, h, r, w)
    PROVE  /\ InCore(i) /\ low[s] \in LowIno /\ fid[s] = low[s]
           /\ H1(i) = low[s] /\ up[n] = None
           /\ inode' \in [Ino -> [hi : [0 .. 1 -> Inode \cup {None}], gen : Gens \cup {None}]]
           /\ H0(i)' = h /\ H1(i)' = H1(i)
           /\ \A j \in Ino : inode'[j].gen = inode[j].gen /\ (InCore(j)' <=> InCore(j))
           /\ \A j \in Ino \ {i} : H0(j)' = H0(j) /\ H1(j)' = H1(j)
           /\ ~Linked(h) /\ \A j \in Ino : H0(j) # h
           /\ \A t \in UpIno : /\ Linked(t)' <=> t = h \/ Linked(t)
                               /\ FileOf(t)' = (IF t = h THEN low[s] ELSE FileOf(t))
<1>1. TypeOK /\ CoreInv /\ DentInv /\ BornInv
  BY DEF BaseInv
<1>2. InCore(i) /\ low[s] \in LowIno /\ fid[s] = low[s] /\ H1(i) = low[s]
  BY <1>1, Levels DEF TypeOK, Frame, CopyRel, DentInv, BornInv
<1>3. up[n] = None
  BY <1>1, Levels DEF Frame, CopyRel, Visible
<1>4. h \in Inode /\ h # None
  BY PlinkAssumption DEF Inode
<1>5. inode[i] \in [hi : [0 .. 1 -> Inode \cup {None}], gen : Gens \cup {None}]
  BY <1>1, <1>2 DEF TypeOK
<1>6. inode' = [inode EXCEPT ![i].hi[0] = h]
  BY DEF CopyRel
<1>7. inode' \in [Ino -> [hi : [0 .. 1 -> Inode \cup {None}], gen : Gens \cup {None}]]
  BY <1>1, <1>2, <1>4, <1>5, <1>6 DEF TypeOK
<1>8. /\ inode'[i].hi[0] = h /\ inode'[i].hi[1] = inode[i].hi[1] /\ inode'[i].gen = inode[i].gen
      /\ \A j \in Ino \ {i} : inode'[j] = inode[j]
  BY <1>1, <1>2, <1>5, <1>6 DEF TypeOK
<1>9. InCore(i)'
  <2>1. inode'[i].hi[0] # NoInode.hi[0]
    BY <1>4, <1>8 DEF NoInode
  <2>. QED BY <2>1 DEF InCore
<1>10. /\ H0(i)' = h /\ H1(i)' = H1(i)
       /\ \A j \in Ino : inode'[j].gen = inode[j].gen /\ (InCore(j)' <=> InCore(j))
       /\ \A j \in Ino \ {i} : H0(j)' = H0(j) /\ H1(j)' = H1(j)
  BY <1>2, <1>8, <1>9 DEF H0, H1, InCore
<1>11. ~Linked(h) /\ \A j \in Ino : H0(j) # h
  BY DEF CopyRel, Free, H0
<1>12. up'[n] = h /\ \A m \in Name \ {n} : up'[m] = up[m]
  BY <1>1 DEF CopyRel, TypeOK
<1>13. \A t \in UpIno : FileOf(t)' = (IF t = h THEN low[s] ELSE FileOf(t))
  BY <1>1 DEF FileOf, CopyRel, TypeOK
<1>14. ASSUME NEW t \in UpIno PROVE Linked(t)' <=> t = h \/ Linked(t)
  <2>1. t # None
    BY PlinkAssumption
  <2>2. (\E m \in Name : up'[m] = t) <=> t = h \/ (\E m \in Name : up[m] = t)
    BY <1>3, <1>12, <2>1
  <2>3. t # h => ((\E l \in pldir' : l[2] = t) <=> (\E l \in pldir : l[2] = t))
    <3>1. pldir' = pldir \/ pldir' = pldir \cup {<<i, h>>}
      BY DEF CopyRel
    <3>2. <<i, h>>[2] = h
      OBVIOUS
    <3>. QED BY <3>1, <3>2
  <2>. QED BY <2>2, <2>3 DEF Linked
<1>. QED BY <1>2, <1>3, <1>7, <1>10, <1>11, <1>13, <1>14

LEMMA CopyBase ==
    ASSUME BaseInv, NEW s \in Name, NEW n \in Name, NEW w \in 0 .. 1,
           NEW r \in {"ok", "xino", "nomem", "link"}, NEW h \in UpIno,
           NEW i \in Ino, i = dent[s],
           Frame(s, n, w), CopyRel(s, n, h, r, w)
    PROVE  BaseInv'
<1>1. TypeOK /\ CoreInv /\ LastInv /\ DentInv /\ BornInv /\ FaultInv
  BY DEF BaseInv
<1>2. /\ InCore(i) /\ low[s] \in LowIno /\ fid[s] = low[s]
      /\ H1(i) = low[s] /\ up[n] = None
      /\ inode' \in [Ino -> [hi : [0 .. 1 -> Inode \cup {None}], gen : Gens \cup {None}]]
      /\ H0(i)' = h /\ H1(i)' = H1(i)
      /\ \A j \in Ino : inode'[j].gen = inode[j].gen /\ (InCore(j)' <=> InCore(j))
      /\ \A j \in Ino \ {i} : H0(j)' = H0(j) /\ H1(j)' = H1(j)
      /\ ~Linked(h) /\ \A j \in Ino : H0(j) # h
      /\ \A t \in UpIno : /\ Linked(t)' <=> t = h \/ Linked(t)
                          /\ FileOf(t)' = (IF t = h THEN low[s] ELSE FileOf(t))
  BY CopyFacts
<1>3. /\ up' \in [Name -> UpIno \cup {None}] /\ wh' \subseteq Name
      /\ up'[n] = h /\ h # None /\ \A m \in Name \ {n} : up'[m] = up[m]
      /\ \A m \in Name : OnLow(m)' <=> m # n /\ OnLow(m)
      /\ \A m \in Name : Visible(m)' <=> m = n \/ Visible(m)
  BY <1>1, UpSet DEF Frame, CopyRel
<1>4. /\ dent' \in [Name -> Ino \cup {0}]
      /\ dent'[n] = i /\ \A m \in Name \ {n} : dent'[m] = dent[m]
      /\ fid' \in [Name -> File \cup {None}]
      /\ fid'[n] = fid[s] /\ \A m \in Name \ {n} : fid'[m] = fid[m]
  BY <1>1, <1>2 DEF Frame, TypeOK, File
<1>6. list' \subseteq Ino /\ pldir' \subseteq Ino \X UpIno
      /\ (list' = list \/ list' = list \cup {i})
  BY <1>1, <1>2 DEF CopyRel, TypeOK
<1>7. \A j \in Ino : (j \in list' \/ \E m \in Name : dent'[m] = j) <=> InCore(j)'
  <2>1. ASSUME NEW j \in Ino, j # i
        PROVE  (j \in list' \/ \E m \in Name : dent'[m] = j) <=> InCore(j)'
    <3>1. (j \in list \/ \E m \in Name : dent[m] = j) <=> InCore(j)
      BY <1>1 DEF TypeOK
    <3>2. dent[n] = j => FALSE
      <4>1. n # s => dent[n] = 0
        BY <1>1 DEF Frame, DentInv
      <4>. QED BY <2>1, <4>1 DEF Ino
    <3>3. (\E m \in Name : dent'[m] = j) <=> (\E m \in Name : dent[m] = j)
      BY <1>4, <2>1, <3>2
    <3>. QED BY <1>2, <1>6, <2>1, <3>1, <3>3
  <2>. QED BY <1>2, <1>4, <2>1
<1>8. TypeOK'
  <2>1. data' \in [UpIno -> [f : File \cup {None}, v : Nat]]
    BY <1>1, <1>2 DEF TypeOK, CopyRel, File
  <2>2. xon' \in BOOLEAN /\ xino' \in [Inode -> Ino \cup {0}] /\ last' = last
        /\ gen' \in [Inode -> Gens] /\ fails' \in 0 .. MaxFail
    BY <1>1, <1>2 DEF TypeOK, CopyRel
  <2>3. low' = low /\ ver' \in [File -> Nat \cup {-1}] /\ job' \in JobType
    BY DEF Frame, JobStep
  <2>. QED BY <1>1, <1>2, <1>3, <1>4, <1>6, <1>7, <2>1, <2>2, <2>3 DEF TypeOK, JobType
<1>9. CoreInv' /\ LastInv'
  <2>1. last' = last
    BY DEF CopyRel
  <2>2. CoreInv'
    BY <1>1, <1>2, <1>3, <2>1 DEF CoreInv
  <2>3. i <= last
    BY <1>1, <1>2 DEF CoreInv
  <2>. QED BY <1>1, <2>1, <2>2, <2>3 DEF LastInv, CopyRel, TypeOK
<1>10. FaultInv'
  BY <1>1 DEF FaultInv, CopyRel
<1>11. DentInv'
  <2>1. ASSUME NEW m \in Name, NEW j \in Ino \cup {0}, dent'[m] = j, j # 0
        PROVE  Visible(m)' /\ IF up'[m] = None THEN H1(j)' = low'[m] ELSE H0(j)' = up'[m]
    <3>1. low' = low
      BY DEF Frame
    <3>2. CASE m = n
      BY <1>2, <1>3, <1>4, <2>1, <3>1, <3>2
    <3>3. CASE m # n
      <4>1. dent[m] = j /\ Visible(m)
            /\ IF up[m] = None THEN H1(j) = low[m] ELSE H0(j) = up[m]
        BY <1>1, <1>4, <2>1, <3>3 DEF DentInv
      <4>2. j = i => up[m] = None
        <5>1. H0(i) = None \/ ~Linked(H0(i))
          BY DEF CopyRel
        <5>2. up[m] # None => Linked(up[m])
          BY DEF Linked
        <5>. QED BY <4>1, <5>1, <5>2
      <4>. QED BY <1>2, <1>3, <2>1, <3>1, <3>3, <4>1, <4>2
    <3>. QED BY <3>2, <3>3
  <2>2. \A m \in Name : dent'[m] \in Ino \cup {0}
    BY <1>4
  <2>. QED BY <2>1, <2>2 DEF DentInv
<1>12. BornInv'
  <2>2. \A f \in File : ver[f] # -1 => ver'[f] # -1
    BY <1>1 DEF Frame, TypeOK
  <2>3. \A l \in LowIno : l \in File /\ ver'[l] # -1
    BY <1>1, <2>2 DEF BornInv, File
  <2>4. \A t \in UpIno : Linked(t)' => FileOf(t)' \in File /\ ver'[FileOf(t)'] # -1
    BY <1>1, <1>2, <2>2, <2>3 DEF BornInv
  <2>5. \A m \in Name : Visible(m)' => fid'[m] \in File /\ ver'[fid'[m]] # -1
    BY <1>1, <1>2, <1>3, <1>4, <2>2, <2>3 DEF BornInv
  <2>6. \A m \in Name : OnLow(m)' => fid'[m] = low'[m]
    BY <1>1, <1>3, <1>4 DEF BornInv, Frame
  <2>. QED BY <2>3, <2>4, <2>5, <2>6 DEF BornInv
<1>. QED BY <1>8, <1>9, <1>10, <1>11, <1>12 DEF BaseInv

-----------------------------------------------------------------------------
(* Every operation that changes a file is one of the two. *)

LEMMA CopyIsRel ==
    ASSUME BaseInv, NEW s \in Name, NEW n \in Name, NEW h \in UpIno, NEW w \in 0 .. 1,
           NEW isplink \in BOOLEAN, NEW c, Copy(s, n, h, isplink, c),
           OnLow(s), dent[s] # 0, H0(dent[s]) = None \/ ~Linked(H0(dent[s])),
           c = [f |-> low[s], v |-> w], isplink \/ (n = s /\ ~IsPlink(n))
    PROVE  \E r \in {"ok", "xino", "nomem", "link"} : CopyRel(s, n, h, r, w)
<1>. DEFINE i == dent[s]
            S == {"xino"} \cup (IF isplink THEN {"nomem", "link"} ELSE {})
<1>1. PICK r \in Outcome(S) :
        /\ Free(h)
        /\ \E g \in Gens : gen' = [gen EXCEPT ![h] = g]
        /\ data' = [data EXCEPT ![h] = c]
        /\ up' = [up EXCEPT ![n] = h]
        /\ inode' = [inode EXCEPT ![i].hi[0] = h]
        /\ XinoWrite(h, i, r) /\ Count(r)
        /\ IF isplink THEN AppendPlink(i, h, r) ELSE list' = list /\ pldir' = pldir
        /\ last' = last
  BY DEF Copy
<1>2. TypeOK
  BY DEF BaseInv
<1>3. /\ fails' \in 0 .. MaxFail /\ (r = "ok" \/ (r \in S /\ r \in Fault))
      /\ (IF r = "ok" THEN fails' = fails ELSE fails' # 0)
  BY <1>1, <1>2, OutcomeCount
<1>4. r \in {"ok", "xino", "nomem", "link"}
  BY <1>3
<1>5. gen' \in [Inode -> Gens]
  BY <1>1, <1>2 DEF TypeOK, Inode
<1>6. \/ list' = list /\ pldir' = pldir /\ (r = "ok" => n = s /\ ~IsPlink(n))
      \/ list' = list \cup {i} /\ pldir' = pldir /\ r # "ok"
      \/ list' = list \cup {i} /\ pldir' = pldir \cup {<<i, h>>}
  BY <1>1, <1>4 DEF AppendPlink
<1>7. /\ xon' = (xon /\ r # "xino")
      /\ xino' = IF xon /\ r # "xino" THEN [xino EXCEPT ![h] = i] ELSE xino
  BY <1>1 DEF XinoWrite
<1>. HIDE DEF S
<1>8. CopyRel(s, n, h, r, w)
  BY <1>1, <1>3, <1>5, <1>6, <1>7 DEF CopyRel
<1>. QED BY <1>4, <1>8

(* cpup_simple *)
LEMMA CpupIsRel ==
    ASSUME BaseInv, NEW n \in Name, NEW w \in 0 .. 1, NEW x \in 0 .. 1, Cpup(n, w, x),
           OnLow(n), dent[n] # 0
    PROVE  \/ \E u \in UpIno : JoinRel(n, n, u, x)
           \/ \E h \in UpIno, r \in {"ok", "xino", "nomem", "link"} : CopyRel(n, n, h, r, w)
<1>. DEFINE i == dent[n]
            u == H0(i)
<1>1. TypeOK /\ CoreInv
  BY DEF BaseInv
<1>2. i \in Ino /\ u \in UpIno \cup {None}
  BY <1>1 DEF TypeOK, CoreInv
<1>3. CASE u # None /\ Follow(n, Changed(data[u], x))
  <2>1. /\ Linked(u) /\ up' = [up EXCEPT ![n] = u]
        /\ data' = [data EXCEPT ![u] = Changed(data[u], x)]
        /\ gen' = gen /\ inode' = inode /\ xino' = xino /\ xon' = xon /\ last' = last
        /\ list' = list /\ pldir' = pldir /\ fails' = fails
    BY <1>3 DEF Follow, H0
  <2>2. u \in UpIno
    BY <1>2, <1>3
  <2>. HIDE DEF u
  <2>3. data[u] \in [f : File \cup {None}, v : Nat]
    BY <1>1, <2>2 DEF TypeOK
  <2>4. /\ data' \in [UpIno -> [f : File \cup {None}, v : Nat]]
        /\ data'[u].f = data[u].f /\ data'[u].v = data[u].v + x
        /\ \A t \in UpIno \ {u} : data'[t] = data[t]
    <3>1. /\ Changed(data[u], x) \in [f : File \cup {None}, v : Nat]
          /\ Changed(data[u], x).f = data[u].f /\ Changed(data[u], x).v = data[u].v + x
      BY <2>3 DEF Changed
    <3>. QED BY <1>1, <2>1, <2>2, <3>1 DEF TypeOK
  <2>5. JoinRel(n, n, u, x)
    BY <2>1, <2>4 DEF JoinRel, u
  <2>. QED BY <2>2, <2>5
<1>4. CASE /\ u = None \/ ~Linked(u)
           /\ \E h \in UpIno : Copy(n, n, h, IsPlink(n), Changed(Content(n), w))
  <2>1. PICK h \in UpIno : Copy(n, n, h, IsPlink(n), Changed(Content(n), w))
    BY <1>4
  <2>2. Changed(Content(n), w) = [f |-> low[n], v |-> w]
    BY DEF OnLow, Content, Changed
  <2>3. IsPlink(n) \in BOOLEAN
    BY DEF IsPlink
  <2>. QED BY <1>4, <2>1, <2>2, <2>3, CopyIsRel
<1>. QED BY <1>3, <1>4 DEF Cpup, H0

(* The operations that give no other name the inode. *)
LEMMA ChangeIsRel ==
    ASSUME BaseInv, NEW n \in Name,
           Read(n) \/ Write(n) \/ Truncate(n) \/ (User /\ Setattr(n) /\ UNCHANGED job)
             \/ (job.pc = "touch" /\ n \in job.names /\ Setattr(n)
                 /\ job' = [job EXCEPT !.names = @ \ {n}])
    PROVE  \E w \in 0 .. 1, x \in 0 .. 1 :
              /\ Frame(n, n, w)
              /\ \/ \E u \in UpIno : JoinRel(n, n, u, x) /\ (x = w \/ Unfollowed)
                 \/ \E h \in UpIno, r \in {"ok", "xino", "nomem", "link"} : CopyRel(n, n, h, r, w)
<1>1. TypeOK /\ CoreInv /\ DentInv /\ BornInv
  BY DEF BaseInv
<1>2. /\ Visible(n) /\ dent[n] # 0 /\ (Top(n) = 1 => OnLow(n))
      /\ fid[n] \in File /\ ver[fid[n]] \in Nat
  <2>1. Visible(n) /\ dent[n] # 0
    BY DEF Read, Write, Truncate, Setattr, Cached
  <2>. QED BY <1>1, <2>1, Levels DEF BornInv, TypeOK
<1>3. [dent EXCEPT ![n] = dent[n]] = dent /\ [fid EXCEPT ![n] = fid[n]] = fid
  BY <1>1 DEF TypeOK
<1>4. job \in JobType
  BY <1>1 DEF TypeOK, JobType
<1>5. ASSUME low' = low, wh' = wh, dent' = dent, fid' = fid, ver' = ver, JobStep(n)
      PROVE  Frame(n, n, 0)
  BY <1>1, <1>2, <1>3, <1>5 DEF Frame, TypeOK
<1>6. ASSUME low' = low, wh' = wh, dent' = dent, fid' = fid, JobStep(n),
             ver' = [ver EXCEPT ![fid[n]] = @ + 1]
      PROVE  Frame(n, n, 1)
  <2>1. /\ ver' \in [File -> Nat \cup {-1}]
        /\ \A f \in File : ver'[f] = IF f = fid[n] THEN ver[f] + 1 ELSE ver[f]
    BY <1>1, <1>2, <1>6 DEF TypeOK
  <2>. QED BY <1>2, <1>3, <1>6, <2>1 DEF Frame
<1>7. CASE Read(n)
  <2>1. Cpup(n, 0, 0) /\ OnLow(n)
    BY <1>2, <1>7 DEF Read
  <2>2. Frame(n, n, 0)
    BY <1>4, <1>5, <1>7 DEF Read, JobStep, ghost
  <2>. QED BY <1>2, <2>1, <2>2, CpupIsRel
<1>8. CASE Setattr(n) /\ JobStep(n)
  <2>1. Cpup(n, 0, 0) /\ OnLow(n)
    BY <1>2, <1>8 DEF Setattr
  <2>2. Frame(n, n, 0)
    BY <1>5, <1>8 DEF Setattr, ghost
  <2>. QED BY <1>2, <2>1, <2>2, CpupIsRel
<1>9. CASE Truncate(n)
  <2>1. Cpup(n, 1, 0) /\ OnLow(n) /\ (Unfollowed \/ H0(dent[n]) = None)
    BY <1>2, <1>9 DEF Truncate, H0
  <2>2. Frame(n, n, 1)
    BY <1>4, <1>6, <1>9 DEF Truncate, JobStep
  <2>3. \A u \in UpIno : JoinRel(n, n, u, 0) => Unfollowed
    BY <2>1, PlinkAssumption DEF JoinRel
  <2>. QED BY <1>2, <2>1, <2>2, <2>3, CpupIsRel
<1>10. CASE Write(n)
  <2>1. Frame(n, n, 1)
    BY <1>4, <1>6, <1>10 DEF Write, JobStep
  <2>2. CASE Top(n) = 1 /\ Cpup(n, 1, 1)
    BY <1>2, <2>1, <2>2, CpupIsRel
  <2>3. CASE Top(n) = 0 /\ data' = [data EXCEPT ![up[n]] = Changed(@, 1)]
             /\ UNCHANGED <<up, pldir, gen, xon, xino, last, inode, list, fails>>
    <3>. DEFINE u == up[n]
    <3>1. u \in UpIno /\ u # None /\ Linked(u) /\ H0(dent[n]) = u
      BY <1>1, <1>2, <2>3, Levels, PlinkAssumption DEF Linked, DentInv
    <3>2. [up EXCEPT ![n] = u] = up
      BY <1>1 DEF TypeOK
    <3>3. data' = [data EXCEPT ![u] = Changed(data[u], 1)]
      BY <2>3
    <3>. HIDE DEF u
    <3>4. data[u] \in [f : File \cup {None}, v : Nat]
      BY <1>1, <3>1 DEF TypeOK
    <3>5. /\ data' \in [UpIno -> [f : File \cup {None}, v : Nat]]
          /\ data'[u].f = data[u].f /\ data'[u].v = data[u].v + 1
          /\ \A t \in UpIno \ {u} : data'[t] = data[t]
      BY <1>1, <3>1, <3>3, <3>4 DEF TypeOK, Changed
    <3>6. JoinRel(n, n, u, 1)
      BY <2>3, <3>1, <3>2, <3>5 DEF JoinRel
    <3>. QED BY <2>1, <3>1, <3>6
  <2>. QED BY <1>10, <2>2, <2>3 DEF Write
<1>11. CASE (User /\ Setattr(n) /\ UNCHANGED job)
             \/ (job.pc = "touch" /\ n \in job.names /\ Setattr(n)
                 /\ job' = [job EXCEPT !.names = @ \ {n}])
  <2>1. job' \in JobType
    BY <1>4, <1>11 DEF JobType
  <2>2. JobStep(n)
    BY <1>11, <2>1 DEF JobStep
  <2>. QED BY <1>8, <1>11, <2>2
<1>. QED BY <1>7, <1>9, <1>10, <1>11

(* aufs_link *)
LEMMA LinkIsRel ==
    ASSUME BaseInv, NEW n \in Name, NEW s \in Name \ {n}, Link(s, n)
    PROVE  /\ Frame(s, n, 0)
           /\ \/ \E u \in UpIno : JoinRel(s, n, u, 0)
              \/ \E h \in UpIno, r \in {"ok", "xino", "nomem", "link"} : CopyRel(s, n, h, r, 0)
<1>. DEFINE i == dent[s]
            u == H0(i)
<1>1. TypeOK /\ CoreInv /\ DentInv /\ BornInv
  BY DEF BaseInv
<1>2. User /\ Visible(s) /\ i # 0 /\ ~Visible(n) /\ (Top(s) = 1 => OnLow(s))
      /\ i \in Ino /\ u \in UpIno \cup {None}
  <2>1. User /\ Visible(s) /\ i # 0 /\ ~Visible(n)
    BY DEF Link, Cached
  <2>. QED BY <1>1, <2>1, Levels DEF TypeOK, CoreInv
<1>3. Frame(s, n, 0)
  <2>1. job \in JobType
    BY <1>1 DEF TypeOK, JobType
  <2>2. /\ wh' = wh \ {n} /\ dent' = [dent EXCEPT ![n] = i] /\ fid' = [fid EXCEPT ![n] = fid[s]]
        /\ low' = low /\ job' = job /\ ver' = ver
    BY DEF Link
  <2>3. ver' \in [File -> Nat \cup {-1}] /\ \A f \in File : ver'[f] = ver[f] + 0
    BY <1>1, <2>2 DEF TypeOK
  <2>. QED BY <1>2, <2>1, <2>2, <2>3 DEF Frame, JobStep
<1>4. CASE /\ Top(s) = 0
           /\ up' = [up EXCEPT ![n] = up[s]]
           /\ UNCHANGED <<pldir, data, gen, xon, xino, last, inode, list, fails>>
  <2>1. up[s] \in UpIno /\ Linked(up[s]) /\ u = up[s]
    BY <1>1, <1>2, <1>4, Levels DEF Linked, DentInv
  <2>2. data[up[s]].v + 0 = data[up[s]].v
    BY <1>1, <2>1 DEF TypeOK
  <2>3. JoinRel(s, n, up[s], 0)
    BY <1>1, <1>4, <2>1, <2>2 DEF JoinRel, TypeOK
  <2>. QED BY <1>3, <2>1, <2>3
<1>5. CASE /\ Top(s) = 1 /\ u # None /\ Linked(u)
           /\ up' = [up EXCEPT ![n] = u]
           /\ \E r \in Outcome({"nomem", "link"}) :
                 ~(r = "nomem" /\ i \in list) /\ AppendPlink(i, u, r) /\ Count(r)
           /\ UNCHANGED <<data, gen, xon, xino, last, inode>>
  <2>1. PICK r \in Outcome({"nomem", "link"}) : AppendPlink(i, u, r) /\ Count(r)
    BY <1>5
  <2>2. /\ fails' \in 0 .. MaxFail /\ (r = "ok" \/ (r \in {"nomem", "link"} /\ r \in Fault))
        /\ (IF r = "ok" THEN fails' = fails ELSE fails' # 0)
    BY <1>1, <2>1, OutcomeCount
  <2>3. fails' # fails => fails' # 0 /\ ~(Fault \subseteq {"xino"})
    BY <2>2
  <2>4. (list' = list \/ list' = list \cup {i}) /\ (pldir' = pldir \/ pldir' = pldir \cup {<<i, u>>})
    BY <2>1 DEF AppendPlink
  <2>5. u \in UpIno
    BY <1>2, <1>5
  <2>6. data[u].v + 0 = data[u].v
    BY <1>1, <2>5 DEF TypeOK
  <2>7. JoinRel(s, n, u, 0)
    BY <1>1, <1>2, <1>5, <2>2, <2>3, <2>4, <2>6 DEF JoinRel, TypeOK
  <2>. QED BY <1>3, <2>5, <2>7
<1>6. CASE /\ Top(s) = 1 /\ u = None
           /\ \E h \in UpIno : Copy(s, n, h, TRUE, Content(s))
  <2>1. PICK h \in UpIno : Copy(s, n, h, TRUE, Content(s))
    BY <1>6
  <2>2. Content(s) = [f |-> low[s], v |-> 0]
    BY <1>2, <1>6 DEF OnLow, Content
  <2>3. \E isplink \in BOOLEAN : isplink = TRUE /\ Copy(s, n, h, isplink, Content(s))
    BY <2>1, Zenon
  <2>4. PICK isplink \in BOOLEAN : isplink = TRUE /\ Copy(s, n, h, isplink, Content(s))
    BY <2>3
  <2>5. \E r \in {"ok", "xino", "nomem", "link"} : CopyRel(s, n, h, r, 0)
    <3>1. OnLow(s) /\ dent[s] # 0 /\ H0(dent[s]) = None
      BY <1>2, <1>6
    <3>2. isplink \/ (n = s /\ ~IsPlink(n))
      BY <2>4
    <3>3. 0 \in 0 .. 1
      OBVIOUS
    <3>. QED BY <2>2, <2>4, <3>1, <3>2, <3>3, CopyIsRel
  <2>. QED BY <1>3, <2>5
<1>. QED BY <1>4, <1>5, <1>6 DEF Link, H0

(* The inodes that are left when some references are dropped. *)
LEMMA IputFacts ==
    ASSUME BaseInv, NEW D \in [Name -> Ino \cup {0}], NEW L \in SUBSET list,
           \A m \in Name : D[m] = 0 \/ D[m] = dent[m], inode' = Iput(D, L), last' = last
    PROVE  /\ CoreInv'
           /\ inode' \in [Ino -> [hi : [0 .. 1 -> Inode \cup {None}], gen : Gens \cup {None}]]
           /\ \A j \in Ino : /\ InCore(j)' <=> (j \in L \/ \E m \in Name : D[m] = j)
                             /\ InCore(j)' => H0(j)' = H0(j) /\ H1(j)' = H1(j)
                             /\ ~InCore(j)' => H0(j)' = None /\ H1(j)' = None
<1>. DEFINE Kept(j) == j \in L \/ \E m \in Name : D[m] = j
<1>1. TypeOK /\ CoreInv
  BY DEF BaseInv
<1>2. \A j \in Ino : inode'[j] = IF Kept(j) THEN inode[j] ELSE NoInode
  BY DEF Iput
<1>3. NoInode \in [hi : [0 .. 1 -> Inode \cup {None}], gen : Gens \cup {None}]
      /\ NoInode.hi[0] = None /\ NoInode.hi[1] = None
  BY DEF NoInode
<1>4. inode' \in [Ino -> [hi : [0 .. 1 -> Inode \cup {None}], gen : Gens \cup {None}]]
  BY <1>1, <1>3 DEF TypeOK, Iput
<1>5. ASSUME NEW j \in Ino, Kept(j) PROVE InCore(j)
  <2>1. j # 0
    BY DEF Ino
  <2>2. j \in list \/ \E m \in Name : dent[m] = j
    BY <1>5, <2>1
  <2>. QED BY <1>1, <2>2 DEF TypeOK
<1>. HIDE DEF Kept
<1>6. \A j \in Ino : /\ InCore(j)' <=> Kept(j)
                     /\ InCore(j)' => H0(j)' = H0(j) /\ H1(j)' = H1(j)
                     /\ ~InCore(j)' => H0(j)' = None /\ H1(j)' = None
  BY <1>2, <1>3, <1>5 DEF InCore, H0, H1
<1>7. CoreInv'
  <2>1. ASSUME NEW j \in Ino, InCore(j)' PROVE InCore(j) /\ inode'[j] = inode[j]
    BY <1>2, <1>5, <1>6, <2>1
  <2>. QED BY <1>1, <1>6, <2>1 DEF CoreInv
<1>. QED BY <1>4, <1>6, <1>7 DEF Kept

-----------------------------------------------------------------------------
(* The other steps. *)

LEMMA ReaddirBase ==
    ASSUME BaseInv, NEW n \in Name, Readdir(n)
    PROVE  BaseInv'
<1>1. TypeOK /\ CoreInv /\ LastInv /\ DentInv /\ BornInv /\ FaultInv
  BY DEF BaseInv
<1>2. /\ NewIno <= MaxIno /\ last' = NewIno /\ Visible(n)
      /\ xino' = IF xon THEN [xino EXCEPT ![Hidden(n)] = NewIno] ELSE xino
      /\ low' = low /\ up' = up /\ wh' = wh /\ pldir' = pldir /\ data' = data /\ gen' = gen
      /\ xon' = xon /\ dent' = dent /\ inode' = inode /\ list' = list /\ job' = job
      /\ fails' = fails /\ fid' = fid /\ ver' = ver
  BY DEF Readdir, ghost
<1>3. Hidden(n) \in Inode /\ last' = last + 1 /\ last' \in Ino /\ last \in Int
  BY <1>1, <1>2, Levels, PlinkAssumption DEF TypeOK, NewIno, Ino, Inode
<1>4. xino' \in [Inode -> Ino \cup {0}]
  BY <1>1, <1>2, <1>3 DEF TypeOK
<1>5. LastInv'
  <2>1. \A h \in Inode : xino[h] \in Int /\ xino[h] <= last
    BY <1>1 DEF LastInv, TypeOK, Ino
  <2>2. \A h \in Inode : xino'[h] = xino[h] \/ xino'[h] = last'
    BY <1>1, <1>2 DEF TypeOK
  <2>. QED BY <1>3, <2>1, <2>2 DEF LastInv
<1>6. TypeOK'
  BY <1>1, <1>2, <1>3, <1>4 DEF TypeOK, InCore
<1>7. CoreInv'
  <2>1. \A i \in Ino : i <= last => i <= last'
    BY <1>3 DEF Ino
  <2>. QED BY <1>1, <1>2, <2>1 DEF CoreInv, H0, H1, InCore
<1>8. DentInv' /\ BornInv' /\ FaultInv'
  BY <1>1, <1>2 DEF DentInv, BornInv, FaultInv, H0, H1, Visible, OnLow, Linked, FileOf
<1>. QED BY <1>5, <1>6, <1>7, <1>8 DEF BaseInv

(* A dentry goes; n is still there (Shrink) or not (Unlink). *)
LEMMA DropBase ==
    ASSUME BaseInv, NEW n \in Name, Shrink(n) \/ Unlink(n)
    PROVE  BaseInv'
<1>1. TypeOK /\ CoreInv /\ LastInv /\ DentInv /\ BornInv /\ FaultInv
  BY DEF BaseInv
<1>2. /\ dent' = [dent EXCEPT ![n] = 0] /\ inode' = Iput(dent', list)
      /\ low' = low /\ pldir' = pldir /\ data' = data /\ gen' = gen
      /\ xon' = xon /\ xino' = xino /\ last' = last /\ list' = list /\ job' = job
      /\ fails' = fails /\ ver' = ver
  BY DEF Shrink, Unlink, ghost
<1>3. /\ up' \in [Name -> UpIno \cup {None}] /\ wh' \subseteq Name /\ fid' \in [Name -> File \cup {None}]
      /\ \A m \in Name \ {n} : up'[m] = up[m] /\ (m \in wh' <=> m \in wh) /\ fid'[m] = fid[m]
      /\ up'[n] = up[n] \/ up'[n] = None
  BY <1>1 DEF Shrink, Unlink, TypeOK, ghost
<1>4. \A m \in Name : Visible(m)' => Visible(m) /\ fid'[m] = fid[m]
  <2>1. CASE Shrink(n)
    BY <2>1 DEF Shrink, Visible, ghost
  <2>2. CASE Unlink(n)
    <3>1. up'[n] = None /\ (low[n] # None => n \in wh')
      BY <1>1, <2>2 DEF Unlink, TypeOK
    <3>2. ~Visible(n)'
      BY <1>2, <3>1 DEF Visible
    <3>. QED BY <1>2, <1>3, <3>2 DEF Visible
  <2>. QED BY <2>1, <2>2
<1>5. \A m \in Name : OnLow(m)' => OnLow(m)
  <2>1. CASE Shrink(n)
    BY <2>1 DEF Shrink, OnLow, ghost
  <2>2. CASE Unlink(n)
    <3>1. up'[n] = None /\ (low[n] # None => n \in wh')
      BY <1>1, <2>2 DEF Unlink, TypeOK
    <3>. QED BY <1>2, <1>3, <3>1 DEF OnLow
  <2>. QED BY <2>1, <2>2
<1>6. /\ dent' \in [Name -> Ino \cup {0}]
      /\ \A m \in Name : dent'[m] = 0 \/ (m # n /\ dent'[m] = dent[m])
  BY <1>1, <1>2 DEF TypeOK
<1>7. /\ CoreInv'
      /\ inode' \in [Ino -> [hi : [0 .. 1 -> Inode \cup {None}], gen : Gens \cup {None}]]
      /\ \A j \in Ino : /\ InCore(j)' <=> (j \in list \/ \E m \in Name : dent'[m] = j)
                        /\ InCore(j)' => H0(j)' = H0(j) /\ H1(j)' = H1(j)
  <2>. DEFINE D == dent'
  <2>1. D \in [Name -> Ino \cup {0}] /\ \A m \in Name : D[m] = 0 \/ D[m] = dent[m]
    BY <1>6
  <2>2. inode' = Iput(D, list) /\ list \in SUBSET list
    BY <1>2
  <2>3. last' = last
    BY <1>2
  <2>. HIDE DEF D
  <2>4. /\ CoreInv'
        /\ inode' \in [Ino -> [hi : [0 .. 1 -> Inode \cup {None}], gen : Gens \cup {None}]]
        /\ \A j \in Ino : /\ InCore(j)' <=> (j \in list \/ \E m \in Name : D[m] = j)
                          /\ InCore(j)' => H0(j)' = H0(j) /\ H1(j)' = H1(j)
    BY <2>1, <2>2, <2>3, IputFacts
  <2>. QED BY <2>4 DEF D
<1>8. TypeOK'
  BY <1>1, <1>2, <1>3, <1>6, <1>7 DEF TypeOK
<1>9. LastInv' /\ FaultInv'
  BY <1>1, <1>2 DEF LastInv, FaultInv
<1>10. DentInv'
  <2>1. ASSUME NEW m \in Name, NEW j \in Ino \cup {0}, dent'[m] = j, j # 0
        PROVE  Visible(m)' /\ IF up'[m] = None THEN H1(j)' = low'[m] ELSE H0(j)' = up'[m]
    <3>1. m # n /\ dent[m] = j /\ up'[m] = up[m] /\ (m \in wh' <=> m \in wh) /\ low' = low
      BY <1>2, <1>3, <1>6, <2>1
    <3>2. Visible(m) /\ IF up[m] = None THEN H1(j) = low[m] ELSE H0(j) = up[m]
      BY <1>1, <2>1, <3>1 DEF DentInv
    <3>3. Visible(m)'
      BY <3>1, <3>2 DEF Visible
    <3>4. H0(j)' = H0(j) /\ H1(j)' = H1(j)
      BY <1>7, <2>1
    <3>. QED BY <3>1, <3>2, <3>3, <3>4
  <2>2. \A m \in Name : dent'[m] \in Ino \cup {0}
    BY <1>6
  <2>. QED BY <2>1, <2>2 DEF DentInv
<1>11. BornInv'
  <2>1. \A u \in UpIno : (Linked(u)' => Linked(u)) /\ FileOf(u)' = FileOf(u)
    <3>1. ASSUME NEW u \in UpIno PROVE (\E m \in Name : up'[m] = u) => (\E m \in Name : up[m] = u)
      <4>1. u # None
        BY PlinkAssumption
      <4>. QED BY <1>3, <4>1
    <3>. QED BY <1>2, <3>1 DEF Linked, FileOf
  <2>2. \A m \in Name : OnLow(m)' => fid'[m] = low'[m]
    <3>1. \A m \in Name : OnLow(m)' => Visible(m)'
      BY DEF OnLow, Visible
    <3>. QED BY <1>1, <1>2, <1>4, <1>5, <3>1 DEF BornInv
  <2>3. \A m \in Name : Visible(m)' => fid'[m] \in File /\ ver'[fid'[m]] # -1
    BY <1>1, <1>2, <1>4 DEF BornInv
  <2>. QED BY <1>1, <1>2, <2>1, <2>2, <2>3 DEF BornInv
<1>. QED BY <1>7, <1>8, <1>9, <1>10, <1>11 DEF BaseInv

(* auplink looks at the names, and gives up or goes on. *)
LEMMA JobBase ==
    ASSUME BaseInv,
           UNCHANGED <<low, up, wh, pldir, data, gen, xon, xino, last, dent, inode, list,
                       fails, ghost>>, job' \in JobType
    PROVE  BaseInv'
BY DEF BaseInv, TypeOK, CoreInv, LastInv, DentInv, BornInv, FaultInv, H0, H1, InCore, Visible,
       OnLow, Linked, FileOf, ghost, JobType

LEMMA CleanBase ==
    ASSUME BaseInv, AuplinkClean
    PROVE  BaseInv'
<1>1. TypeOK /\ CoreInv /\ LastInv /\ DentInv /\ BornInv /\ FaultInv
  BY DEF BaseInv
<1>2. /\ list' = {} /\ inode' = Iput(dent, {}) /\ job' = [job EXCEPT !.pc = "rm"]
      /\ low' = low /\ up' = up /\ wh' = wh /\ pldir' = pldir /\ data' = data /\ gen' = gen
      /\ xon' = xon /\ xino' = xino /\ last' = last /\ dent' = dent
      /\ fails' = fails /\ fid' = fid /\ ver' = ver
  BY DEF AuplinkClean, ghost
<1>3. /\ CoreInv'
      /\ inode' \in [Ino -> [hi : [0 .. 1 -> Inode \cup {None}], gen : Gens \cup {None}]]
      /\ \A j \in Ino : /\ InCore(j)' <=> (j \in {} \/ \E m \in Name : dent[m] = j)
                        /\ InCore(j)' => H0(j)' = H0(j) /\ H1(j)' = H1(j)
  <2>1. dent \in [Name -> Ino \cup {0}] /\ {} \in SUBSET list
    BY <1>1 DEF TypeOK
  <2>. QED BY <1>2, <2>1, IputFacts
<1>4. TypeOK'
  BY <1>1, <1>2, <1>3 DEF TypeOK
<1>5. DentInv'
  <2>1. ASSUME NEW m \in Name, NEW j \in Ino \cup {0}, dent'[m] = j, j # 0
        PROVE  Visible(m)' /\ IF up'[m] = None THEN H1(j)' = low'[m] ELSE H0(j)' = up'[m]
    <3>1. Visible(m) /\ IF up[m] = None THEN H1(j) = low[m] ELSE H0(j) = up[m]
      BY <1>1, <1>2, <2>1 DEF DentInv
    <3>2. Visible(m)'
      BY <1>2, <3>1 DEF Visible
    <3>. QED BY <1>2, <1>3, <2>1, <3>1, <3>2
  <2>2. \A m \in Name : dent'[m] \in Ino \cup {0}
    BY <1>1, <1>2 DEF TypeOK
  <2>. QED BY <2>1, <2>2 DEF DentInv
<1>6. LastInv' /\ BornInv' /\ FaultInv'
  BY <1>1, <1>2 DEF LastInv, BornInv, FaultInv, Visible, OnLow, Linked, FileOf
<1>. QED BY <1>3, <1>4, <1>5, <1>6 DEF BaseInv

LEMMA RmBase ==
    ASSUME BaseInv, AuplinkRm
    PROVE  BaseInv'
<1>1. TypeOK /\ CoreInv /\ LastInv /\ DentInv /\ BornInv /\ FaultInv
  BY DEF BaseInv
<1>2. /\ pldir' = pldir \ job.links /\ job' = Idle
      /\ low' = low /\ up' = up /\ wh' = wh /\ data' = data /\ gen' = gen
      /\ xon' = xon /\ xino' = xino /\ last' = last /\ dent' = dent /\ inode' = inode
      /\ list' = list /\ fails' = fails /\ fid' = fid /\ ver' = ver
  BY DEF AuplinkRm, ghost
<1>3. TypeOK'
  BY <1>1, <1>2 DEF TypeOK, InCore, Idle
<1>4. \A u \in UpIno : Linked(u)' => Linked(u)
  BY <1>2 DEF Linked
<1>5. CoreInv' /\ LastInv' /\ DentInv' /\ FaultInv'
  BY <1>1, <1>2 DEF CoreInv, LastInv, DentInv, FaultInv, H0, H1, InCore, Visible
<1>6. BornInv'
  BY <1>1, <1>2, <1>4 DEF BornInv, Visible, OnLow, FileOf
<1>. QED BY <1>3, <1>5, <1>6 DEF BaseInv

LEMMA InitBase == Init => BaseInv
<1>. SUFFICES ASSUME Init PROVE BaseInv
  OBVIOUS
<1>1. NoInode \in [hi : [0 .. 1 -> Inode \cup {None}], gen : Gens \cup {None}]
      /\ NoInode.hi[0] = None /\ NoInode.hi[1] = None
  BY DEF NoInode
<1>2. inode \in [Ino -> [hi : [0 .. 1 -> Inode \cup {None}], gen : Gens \cup {None}]]
      /\ \A i \in Ino : ~InCore(i) /\ H0(i) = None /\ H1(i) = None
  BY <1>1 DEF Init, InCore, H0, H1
<1>3. \A n \in Name : dent[n] = 0 /\ up[n] = None
  BY DEF Init
<1>4. gen \in [Inode -> Gens]
  BY DEF Init, Inode
<1>5. fid \in [Name -> File \cup {None}] /\ ver \in [File -> Nat \cup {-1}]
  BY DEF Init, File
<1>6. TypeOK
  <2>1. 0 \notin Ino
    BY DEF Ino
  <2>2. \A i \in Ino : (i \in list \/ \E n \in Name : dent[n] = i) <=> InCore(i)
    BY <1>2, <1>3, <2>1 DEF Init
  <2>. QED BY <1>2, <1>4, <1>5, <2>2, PlinkAssumption DEF Init, TypeOK, Idle
<1>7. CoreInv /\ LastInv /\ DentInv /\ FaultInv
  BY <1>2, <1>3 DEF Init, CoreInv, LastInv, DentInv, FaultInv
<1>8. BornInv
  <2>1. \A u \in UpIno : ~Linked(u)
    BY <1>3, PlinkAssumption DEF Init, Linked
  <2>2. \A l \in LowIno : l \in File /\ ver[l] = 0
    BY DEF Init, File
  <2>3. \A n \in Name : fid[n] = low[n] /\ (Visible(n) => low[n] \in LowIno)
    BY <1>3 DEF Init, Visible
  <2>. QED BY <2>1, <2>2, <2>3 DEF BornInv
<1>. QED BY <1>6, <1>7, <1>8 DEF BaseInv

(* The steps of auplink that only read. *)
JobOnly == /\ UNCHANGED <<low, up, wh, pldir, data, gen, xon, xino, last, dent, inode, list,
                          fails, ghost>>
           /\ \/ /\ job.pc = "idle"
                 /\ job' = [pc |-> "find", links |-> pldir, names |-> {}]
              \/ AuplinkFind
              \/ \E n \in Name : job.pc = "touch" /\ n \in job.names
                     /\ job' = IF Visible(n) /\ Top(n) = 1 THEN Idle
                               ELSE [job EXCEPT !.names = @ \ {n}]

(* The steps of the system, by what they do to inodes and links. *)
LEMMA Steps ==
    ASSUME BaseInv, Next
    PROVE  \/ \E n \in Name : Lookup(n) \/ Readdir(n) \/ Shrink(n) \/ Unlink(n)
           \/ \E n \in Name, f \in NewFile : Create(n, f)
           \/ \E s, n \in Name, w \in 0 .. 1, x \in 0 .. 1, u \in UpIno :
                 Frame(s, n, w) /\ JoinRel(s, n, u, x) /\ (x = w \/ Unfollowed)
           \/ \E s, n \in Name, w \in 0 .. 1, h \in UpIno, r \in {"ok", "xino", "nomem", "link"} :
                 Frame(s, n, w) /\ CopyRel(s, n, h, r, w)
           \/ JobOnly \/ AuplinkClean \/ AuplinkRm
<1>1. CASE \E n \in Name : Lookup(n) \/ Readdir(n) \/ Shrink(n) \/ Unlink(n)
  BY <1>1
<1>2. CASE \E n \in Name, f \in NewFile : Create(n, f)
  BY <1>2
<1>3. ASSUME NEW n \in Name, 
             Read(n) \/ Write(n) \/ Truncate(n) \/ (User /\ Setattr(n) /\ UNCHANGED job)
               \/ (job.pc = "touch" /\ n \in job.names /\ Setattr(n)
                   /\ job' = [job EXCEPT !.names = @ \ {n}])
      PROVE  \/ \E s, m \in Name, w \in 0 .. 1, x \in 0 .. 1, u \in UpIno :
                   Frame(s, m, w) /\ JoinRel(s, m, u, x) /\ (x = w \/ Unfollowed)
             \/ \E s, m \in Name, w \in 0 .. 1, h \in UpIno, r \in {"ok", "xino", "nomem", "link"} :
                   Frame(s, m, w) /\ CopyRel(s, m, h, r, w)
  BY <1>3, ChangeIsRel
<1>4. ASSUME NEW n \in Name, NEW s \in Name \ {n}, Link(s, n)
      PROVE  \/ \E w \in 0 .. 1, x \in 0 .. 1, u \in UpIno :
                   Frame(s, n, w) /\ JoinRel(s, n, u, x) /\ (x = w \/ Unfollowed)
             \/ \E w \in 0 .. 1, h \in UpIno, r \in {"ok", "xino", "nomem", "link"} :
                   Frame(s, n, w) /\ CopyRel(s, n, h, r, w)
  <2>1. 0 \in 0 .. 1
    OBVIOUS
  <2>. QED BY <1>4, <2>1, LinkIsRel
<1>5. ASSUME NEW n \in Name, AuplinkTouch(n)
      PROVE  \/ job.pc = "touch" /\ n \in job.names /\ Setattr(n)
                /\ job' = [job EXCEPT !.names = @ \ {n}]
             \/ JobOnly
  BY <1>5 DEF AuplinkTouch, JobOnly
<1>6. AuplinkList \/ AuplinkFind => JobOnly
  BY DEF AuplinkList, AuplinkFind, JobOnly
<1>. QED BY <1>1, <1>2, <1>3, <1>4, <1>5, <1>6 DEF Next

LEMMA NextBase ==
    ASSUME BaseInv, [Next]_vars
    PROVE  BaseInv'
<1>1. CASE UNCHANGED vars
  <2>1. job' \in JobType
    BY <1>1 DEF vars, BaseInv, TypeOK, JobType
  <2>. QED BY <1>1, <2>1, JobBase DEF vars
<1>2. CASE Next
  <2>1. CASE \E n \in Name : Lookup(n) \/ Readdir(n) \/ Shrink(n) \/ Unlink(n)
    BY <2>1, LookupBase, ReaddirBase, DropBase
  <2>2. CASE \E n \in Name, f \in NewFile : Create(n, f)
    BY <2>2, CreateBase
  <2>3. CASE \E s, n \in Name, w \in 0 .. 1, x \in 0 .. 1, u \in UpIno :
                 Frame(s, n, w) /\ JoinRel(s, n, u, x)
    BY <2>3, JoinBase
  <2>4. CASE \E s, n \in Name, w \in 0 .. 1, h \in UpIno, r \in {"ok", "xino", "nomem", "link"} :
                 Frame(s, n, w) /\ CopyRel(s, n, h, r, w)
    <3>1. PICK s \in Name, n \in Name, w \in 0 .. 1, h \in UpIno,
               r \in {"ok", "xino", "nomem", "link"} : Frame(s, n, w) /\ CopyRel(s, n, h, r, w)
      BY <2>4
    <3>2. dent[s] \in Ino
      BY <3>1 DEF BaseInv, TypeOK, Frame
    <3>3. PICK i \in Ino : i = dent[s]
      BY <3>2
    <3>. QED BY <3>1, <3>3, CopyBase
  <2>5. CASE JobOnly
    <3>1. job \in JobType /\ pldir \in SUBSET (Ino \X UpIno)
      BY DEF BaseInv, TypeOK, JobType
    <3>2. job' \in JobType
      <4>1. CASE job' = [pc |-> "find", links |-> pldir, names |-> {}]
        BY <3>1, <4>1 DEF JobType
      <4>2. CASE AuplinkFind
        <5>. DEFINE S == {n \in Name : \E l \in job.links : Cached(n) /\ dent[n] = l[1]}
        <5>1. S \in SUBSET Name /\ job' = [job EXCEPT !.pc = "touch", !.names = S]
          BY <4>2 DEF AuplinkFind
        <5>. HIDE DEF S
        <5>. QED BY <3>1, <5>1 DEF JobType
      <4>3. ASSUME NEW n \in Name, job' = Idle \/ job' = [job EXCEPT !.names = @ \ {n}]
            PROVE  job' \in JobType
        BY <3>1, <4>3 DEF JobType, Idle
      <4>. QED BY <2>5, <4>1, <4>2, <4>3 DEF JobOnly
    <3>. QED BY <2>5, <3>2, JobBase DEF JobOnly
  <2>6. CASE AuplinkClean \/ AuplinkRm
    BY <2>6, CleanBase, RmBase
  <2>. QED BY <1>2, <2>1, <2>2, <2>3, <2>4, <2>5, <2>6, Steps
<1>. QED BY <1>1, <1>2

(* Whatever fails and whenever auplink runs, dentries, inodes, numbers and  *)
(* links fit together: an inode is in memory exactly if a dentry or the     *)
(* list si_plink refers to it, and a dentry has the hidden inode of its     *)
(* name.                                                                    *)
THEOREM BaseHolds == Spec => []BaseInv
<1>1. Init => BaseInv
  BY InitBase
<1>2. BaseInv /\ [Next]_vars => BaseInv'
  BY NextBase
<1>. QED BY <1>1, <1>2, PTL DEF Spec

(* Every variable keeps its type, and drop_inode forgets no inode that is   *)
(* referred to and keeps none that is not.                                  *)
THEOREM TypeCorrect == Spec => []TypeOK
<1>1. BaseInv => TypeOK
  BY DEF BaseInv
<1>. QED BY <1>1, BaseHolds, PTL

-----------------------------------------------------------------------------
(* The part that holds as long as pseudo links do not fail, auplink has the *)
(* union for itself and i_generation tells no two hidden inodes apart.      *)

Steady == Quiet /\ \A g, k \in Gens : g = k

(* A hidden inode on branch 0 holds the file of the names and of the inode  *)
(* that have it.                                                            *)
FileInv ==
    \A u \in UpIno : /\ \A n \in Name : up[n] = u => FileOf(u) = fid[n]
                     /\ \A i \in Ino, l \in LowIno : H0(i) = u /\ H1(i) = l => FileOf(u) = l

(* The tables have the numbers of the inodes in memory, whose hidden inodes *)
(* have links; two hidden inodes of branch 1 have no number in common.      *)
NumInv ==
    /\ \A i \in Ino, u \in UpIno : H0(i) = u => xino[u] = i /\ Linked(u)
    /\ \A i \in Ino, l \in LowIno : H1(i) = l => xino[l] = i
    /\ \A l, m \in LowIno : xino[l] # 0 /\ xino[l] = xino[m] => l = m

(* A file has one copy.  As long as a name of it is left on branch 1 a      *)
(* number in the tables is shared with the copy only, and the copy has a    *)
(* pseudo link.                                                             *)
CopyInv ==
    /\ \A u, t \in UpIno : Linked(u) /\ Linked(t) /\ FileOf(u) = FileOf(t) => u = t
    /\ \A l \in LowIno, u \in UpIno :
          Alive(l) /\ xino[l] # 0 /\ xino[u] = xino[l] => Linked(u) /\ FileOf(u) = l
    /\ \A l \in LowIno, u \in UpIno :
          Alive(l) /\ Linked(u) /\ FileOf(u) = l =>
              \E i \in list : xino[l] = i /\ <<i, u>> \in pldir /\ H0(i) = u

(* The list and the links on the branch agree, except while auplink is      *)
(* between clearing the one and removing the others.                        *)
ListInv ==
    /\ \A i \in list : \E u \in UpIno : H0(i) = u /\ <<i, u>> \in pldir
    /\ \A i \in Ino, u \in UpIno :
          <<i, u>> \in pldir /\ job.pc # "rm" => i \in list /\ H0(i) = u

(* auplink knows all links and touches every name that needs it. *)
JobInv ==
    /\ job.pc # "idle" => job.links = pldir
    /\ job.pc \in {"touch", "rm"} => \A n \in Name : Visible(n) => dent[n] # 0
    /\ job.pc = "touch" => \A n \in job.names : \E u \in UpIno : <<dent[n], u>> \in pldir
    /\ job.pc = "touch" => \A n \in Name, u \in UpIno :
          OnLow(n) /\ <<dent[n], u>> \in pldir => n \in job.names
    /\ job.pc = "rm" => list = {}

DeepInv == xon /\ NumInv /\ CopyInv /\ ListInv /\ JobInv

(* A name of branch 1 whose inode has a copy is on the list. *)
LEMMA HoldLinked ==
    ASSUME BaseInv, DeepInv, NEW m \in Name, OnLow(m), NEW j \in Ino, dent[m] = j,
           NEW u \in UpIno, H0(j) = u
    PROVE  j \in list /\ <<j, u>> \in pldir /\ FileOf(u) = low[m]
<1>1. TypeOK /\ DentInv /\ NumInv /\ CopyInv
  BY DEF BaseInv, DeepInv
<1>2. j # 0 /\ u # None /\ low[m] \in LowIno /\ Alive(low[m]) /\ up[m] = None
  BY <1>1, Levels, PlinkAssumption DEF Ino
<1>3. H1(j) = low[m] /\ low[m] # None
  BY <1>1, <1>2, PlinkAssumption DEF DentInv
<1>4. xino[u] = j /\ xino[low[m]] = j
  BY <1>1, <1>2, <1>3 DEF NumInv
<1>5. Linked(u) /\ FileOf(u) = low[m]
  BY <1>1, <1>2, <1>4 DEF CopyInv
<1>6. xino[low[m]] \in list /\ <<xino[low[m]], u>> \in pldir
  BY <1>1, <1>2, <1>5 DEF CopyInv
<1>. QED BY <1>4, <1>5, <1>6

(* An inode that is only on branch 1 still has a name there. *)
LEMMA HalfAlive ==
    ASSUME BaseInv, DeepInv, NEW i \in Ino, InCore(i), H0(i) = None
    PROVE  H1(i) \in LowIno /\ Alive(H1(i)) /\ xino[H1(i)] = i
<1>1. TypeOK /\ DentInv /\ NumInv /\ ListInv
  BY DEF BaseInv, DeepInv
<1>2. i \notin list
  BY <1>1, PlinkAssumption DEF ListInv
<1>3. PICK m \in Name : dent[m] = i
  BY <1>1, <1>2 DEF TypeOK
<1>4. Visible(m) /\ up[m] = None /\ H1(i) = low[m]
  <2>1. i # 0
    BY DEF Ino
  <2>. QED BY <1>1, <1>3, <2>1 DEF DentInv
<1>5. OnLow(m)
  BY <1>4 DEF Visible, OnLow
<1>6. low[m] \in LowIno /\ Alive(low[m]) /\ low[m] # None
  BY <1>1, <1>5, Levels, PlinkAssumption
<1>. QED BY <1>1, <1>4, <1>6 DEF NumInv

(* With one value of i_generation the number in the table is taken. *)
LEMMA SameNumber ==
    ASSUME Steady, BaseInv, DeepInv, NEW n \in Name, NEW b \in 0 .. 1, NEW h \in Inode,
           NEW g \in Gens, NEW i \in Ino, NEW r \in {"ok", "xino"}, InstRel(n, b, h, g, i, r)
    PROVE  xino[h] = i \/ (xino[h] = 0 /\ i = last + 1 /\ \A k \in Inode : xino[k] # i)
<1>1. TypeOK /\ CoreInv /\ LastInv /\ xon
  BY DEF BaseInv, DeepInv
<1>2. xino[h] \in Ino \cup {0} /\ last \in Int
  BY <1>1, PlinkAssumption DEF TypeOK, Ino
<1>3. xino[h] # 0 => (InCore(xino[h]) => inode[xino[h]].gen = g)
  BY <1>1, <1>2 DEF CoreInv, Steady
<1>4. xino[h] # 0 => i = xino[h]
  BY <1>1, <1>3 DEF InstRel
<1>5. \A k \in Inode : xino[k] \in Int /\ xino[k] <= last
  BY <1>1 DEF TypeOK, LastInv, Ino
<1>6. xino[h] = 0 => i = last + 1
  <2>1. i # 0
    BY DEF Ino
  <2>. QED BY <2>1 DEF InstRel
<1>. QED BY <1>2, <1>4, <1>5, <1>6

(* What the two parts are claimed for. *)
Mild == fails = 0 \/ Fault \subseteq {"xino"}
Conditional == (Mild => FileInv) /\ (fails = 0 => DeepInv)

LEMMA LookupDeep ==
    ASSUME Steady, BaseInv, Conditional, NEW n \in Name, Lookup(n)
    PROVE  Conditional'
<1>1. TypeOK /\ CoreInv /\ LastInv /\ DentInv /\ BornInv /\ FaultInv
  BY DEF BaseInv
<1>2. /\ Visible(n) /\ dent[n] = 0 /\ (User \/ job.pc = "find")
      /\ Instantiate(n, Top(n), Hidden(n), gen[Hidden(n)])
      /\ low' = low /\ up' = up /\ wh' = wh /\ pldir' = pldir /\ data' = data /\ gen' = gen
      /\ job' = job /\ fid' = fid /\ ver' = ver
  BY DEF Lookup, ghost
<1>. DEFINE b == Top(n)  h == Hidden(n)  g == gen[Hidden(n)]
<1>3. /\ b \in 0 .. 1 /\ h \in Inode /\ g \in Gens /\ (b = 0 => h \in UpIno)
      /\ (b = 1 => h \in LowIno) /\ b = (IF up[n] = None THEN 1 ELSE 0)
      /\ h = (IF up[n] = None THEN low[n] ELSE up[n])
      /\ (b = 1 => OnLow(n) /\ Alive(h))
  BY <1>1, <1>2, Levels DEF Inode, TypeOK
<1>. HIDE DEF b, h, g
<1>4. Instantiate(n, b, h, g)
  BY <1>2 DEF b, h, g
<1>5. PICK i \in Ino, r \in {"ok", "xino"} : InstRel(n, b, h, g, i, r)
  BY <1>3, <1>4, InstFacts
<1>6. /\ H0(i)' = (IF b = 0 THEN h ELSE H0(i)) /\ H1(i)' = (IF b = 1 THEN h ELSE H1(i))
      /\ \A j \in Ino \ {i} : H0(j)' = H0(j) /\ H1(j)' = H1(j)
  BY <1>2, <1>3, <1>5, InstCore
<1>7. (b = 0 => H0(i) = None \/ H0(i) = h) /\ (b = 1 => H1(i) = None \/ H1(i) = h)
  BY <1>5 DEF InstRel, H0, H1
<1>8. \A u \in UpIno : (Linked(u)' <=> Linked(u)) /\ FileOf(u)' = FileOf(u) /\ u # None
  BY <1>2, PlinkAssumption DEF Linked, FileOf
<1>9. /\ \A m \in Name : (OnLow(m)' <=> OnLow(m)) /\ (Visible(m)' <=> Visible(m))
      /\ \A l \in LowIno : (Alive(l)' <=> Alive(l)) /\ l # None /\ l \notin UpIno
  BY <1>2, PlinkAssumption DEF OnLow, Visible, Alive
<1>10. b = 0 => Linked(h)
  BY <1>3 DEF Linked
<1>11. Mild' => Mild /\ FileInv /\ (fails = 0 => DeepInv)
  BY <1>5 DEF Mild, InstRel, Conditional
<1>12. ASSUME Mild' PROVE FileInv'
  <2>1. ASSUME NEW u \in UpIno, NEW l \in LowIno, H0(i)' = u, H1(i)' = l PROVE FileOf(u) = l
    <3>1. CASE InCore(i)
      <4>1. i # last + 1
        BY <1>1, <3>1, PlinkAssumption DEF CoreInv, TypeOK, Ino
      <4>2. xon /\ i = xino[h]
        BY <1>5, <4>1 DEF InstRel
      <4>3. DeepInv /\ FileInv /\ i # 0
        BY <1>1, <1>11, <1>12, <4>2 DEF FaultInv, Mild, Ino
      <4>4. CASE H0(i) = u /\ H1(i) = l
        BY <4>3, <4>4 DEF FileInv
      <4>5. CASE b = 0 /\ H0(i) = None
        <5>1. u = h /\ l = H1(i)
          BY <1>6, <2>1, <4>5
        <5>2. Alive(l) /\ xino[l] = i
          BY <3>1, <4>3, <4>5, <5>1, HalfAlive
        <5>. QED BY <4>2, <4>3, <5>1, <5>2 DEF DeepInv, CopyInv
      <4>6. CASE b = 1
        <5>1. H0(i) = u /\ h = l
          BY <1>6, <2>1, <4>6
        <5>2. xino[u] = i
          BY <4>3, <5>1 DEF DeepInv, NumInv
        <5>. QED BY <1>3, <4>2, <4>3, <4>6, <5>1, <5>2 DEF DeepInv, CopyInv
      <4>. QED BY <1>3, <1>6, <1>7, <2>1, <4>4, <4>5, <4>6
    <3>2. CASE ~InCore(i)
      BY <1>1, <1>3, <1>6, <1>8, <1>9, <2>1, <3>2 DEF CoreInv
    <3>. QED BY <3>1, <3>2
  <2>2. \A j \in Ino, u \in UpIno, l \in LowIno : H0(j)' = u /\ H1(j)' = l => FileOf(u)' = l
    BY <1>6, <1>8, <1>11, <1>12, <2>1 DEF FileInv
  <2>3. \A m \in Name, u \in UpIno : up'[m] = u => FileOf(u)' = fid'[m]
    BY <1>2, <1>8, <1>11, <1>12 DEF FileInv
  <2>. QED BY <2>2, <2>3 DEF FileInv
<1>13. ASSUME fails' = 0 PROVE DeepInv'
  <2>1. r = "ok" /\ fails = 0 /\ DeepInv /\ xon /\ xon'
    BY <1>5, <1>13 DEF InstRel, Conditional, DeepInv
  <2>2. xino' = [xino EXCEPT ![h] = i] /\ list' = list /\ dent' = [dent EXCEPT ![n] = i]
    BY <1>5, <2>1 DEF InstRel
  <2>3. xino[h] = i \/ (xino[h] = 0 /\ \A k \in Inode : xino[k] # i)
    BY <1>3, <1>5, <2>1, SameNumber
  <2>4. xino'[h] = i /\ \A k \in Inode \ {h} : xino'[k] = xino[k]
    BY <1>1, <1>3, <2>2 DEF TypeOK
  <2>5. \A k \in Inode : xino[k] # 0 => xino'[k] = xino[k]
    BY <2>3, <2>4
  <2>6. i # 0 /\ NumInv /\ CopyInv /\ ListInv /\ JobInv
    BY <2>1 DEF DeepInv, Ino
  <2>7. \A j \in Ino : H0(j) # None => H0(j)' = H0(j)
    BY <1>6, <1>7
  <2>8. NumInv'
    <3>1. \A l, m \in LowIno : xino'[l] # 0 /\ xino'[l] = xino'[m] => l = m
      BY <2>3, <2>4, <2>6 DEF NumInv, Inode
    <3>2. ASSUME NEW j \in Ino, NEW u \in UpIno, H0(j)' = u PROVE xino'[u] = j /\ Linked(u)'
      <4>1. CASE j = i /\ b = 0
        BY <1>6, <1>8, <1>10, <2>4, <3>2, <4>1
      <4>2. CASE ~(j = i /\ b = 0)
        <5>1. H0(j) = u /\ u # None
          BY <1>6, <1>8, <3>2, <4>2
        <5>2. xino[u] = j /\ Linked(u) /\ j # 0 /\ u \in Inode
          BY <2>6, <5>1 DEF NumInv, Ino, Inode
        <5>. QED BY <1>8, <2>5, <5>2
      <4>. QED BY <4>1, <4>2
    <3>3. ASSUME NEW j \in Ino, NEW l \in LowIno, H1(j)' = l PROVE xino'[l] = j
      <4>1. CASE j = i /\ b = 1
        BY <1>6, <2>4, <3>3, <4>1
      <4>2. CASE ~(j = i /\ b = 1)
        <5>1. H1(j) = l /\ l # None
          BY <1>3, <1>6, <1>9, <3>3, <4>2
        <5>2. xino[l] = j /\ j # 0 /\ l \in Inode
          BY <2>6, <5>1 DEF NumInv, Ino, Inode
        <5>. QED BY <2>5, <5>2
      <4>. QED BY <4>1, <4>2
    <3>. QED BY <3>1, <3>2, <3>3 DEF NumInv
  <2>9. CopyInv'
    <3>1. \A u, t \in UpIno : Linked(u)' /\ Linked(t)' /\ FileOf(u)' = FileOf(t)' => u = t
      BY <1>8, <2>6 DEF CopyInv
    <3>2. ASSUME NEW l \in LowIno, NEW u \in UpIno, Alive(l)', xino'[l] # 0, xino'[u] = xino'[l]
          PROVE  Linked(u)' /\ FileOf(u)' = l
      <4>1. l \in Inode /\ u \in Inode /\ l # u
        BY <1>9 DEF Inode
      <4>2. xino[l] = xino[u] /\ xino[l] # 0
        BY <2>3, <2>4, <3>2, <4>1
      <4>. QED BY <1>8, <1>9, <2>6, <3>2, <4>2 DEF CopyInv
    <3>3. ASSUME NEW l \in LowIno, NEW u \in UpIno, Alive(l)', Linked(u)', FileOf(u)' = l
          PROVE  \E j \in list' : xino'[l] = j /\ <<j, u>> \in pldir' /\ H0(j)' = u
      <4>1. PICK j \in list : xino[l] = j /\ <<j, u>> \in pldir /\ H0(j) = u
        BY <1>8, <1>9, <2>6, <3>3 DEF CopyInv
      <4>2. j \in Ino /\ l \in Inode /\ j # 0
        BY <1>1, <4>1 DEF TypeOK, Inode, Ino
      <4>3. xino'[l] = j /\ H0(j)' = u
        BY <1>8, <2>5, <2>7, <4>1, <4>2
      <4>. QED BY <1>2, <2>2, <4>1, <4>3
    <3>. QED BY <3>1, <3>2, <3>3 DEF CopyInv
  <2>10. ListInv'
    <3>1. \A j \in Ino, u \in UpIno : H0(j) = u => H0(j)' = u
      BY <1>8, <2>7
    <3>2. list \subseteq Ino
      BY <1>1 DEF TypeOK
    <3>. QED BY <1>2, <2>2, <2>6, <3>1, <3>2 DEF ListInv
  <2>11. JobInv'
    <3>1. job.pc = "idle" \/ job.pc = "find"
      BY <1>2 DEF User, Steady
    <3>. QED BY <1>2, <2>6, <3>1 DEF JobInv
  <2>. QED BY <2>1, <2>8, <2>9, <2>10, <2>11 DEF DeepInv
<1>. QED BY <1>12, <1>13 DEF Conditional

(* A new file: the number that the table had for its hidden inode belongs   *)
(* to no file any more.                                                     *)
LEMMA CreateDeep ==
    ASSUME Steady, BaseInv, Conditional, NEW n \in Name, NEW f \in NewFile, Create(n, f)
    PROVE  Conditional'
<1>1. TypeOK /\ CoreInv /\ LastInv /\ DentInv /\ BornInv /\ FaultInv
  BY DEF BaseInv
<1>2. PICK h \in UpIno, g \in Gens :
        /\ Free(h)
        /\ up' = [up EXCEPT ![n] = h]
        /\ data' = [data EXCEPT ![h] = [f |-> f, v |-> 0]]
        /\ gen' = [gen EXCEPT ![h] = g]
        /\ Instantiate(n, 0, h, g)
  BY DEF Create
<1>3. /\ User /\ ~Visible(n) /\ wh' = wh \ {n} /\ low' = low /\ pldir' = pldir /\ job' = job
      /\ fid' = [fid EXCEPT ![n] = f] /\ ver' = [ver EXCEPT ![f] = 0] /\ ver[f] = -1
  BY DEF Create
<1>4. dent[n] = 0 /\ up[n] = None /\ h \in Inode /\ f \in File /\ h # None /\ ~OnLow(n)
      /\ ~Linked(h) /\ \A j \in Ino : H0(j) # h
  BY <1>1, <1>2, <1>3, PlinkAssumption DEF DentInv, Visible, OnLow, Inode, File, Free, H0
<1>5. PICK i \in Ino, r \in {"ok", "xino"} : InstRel(n, 0, h, g, i, r)
  BY <1>2, <1>4, InstFacts
<1>6. /\ H0(i)' = h /\ H1(i)' = H1(i)
      /\ \A j \in Ino \ {i} : H0(j)' = H0(j) /\ H1(j)' = H1(j)
  BY <1>4, <1>5, InstCore
<1>7. /\ up'[n] = h /\ \A m \in Name \ {n} : up'[m] = up[m]
      /\ \A m \in Name : OnLow(m)' <=> m # n /\ OnLow(m)
  BY <1>1, <1>2, <1>3, UpSet
<1>8. \A l \in LowIno : (Alive(l)' <=> Alive(l)) /\ l # None /\ l # f /\ l \notin UpIno /\ l \in Inode
  BY <1>3, <1>4, <1>7, PlinkAssumption DEF Alive, Inode
<1>9. /\ \A u \in UpIno : u # None /\ u \in Inode
      /\ \A u \in UpIno : FileOf(u)' = (IF u = h THEN f ELSE FileOf(u))
      /\ \A u \in UpIno : Linked(u)' <=> u = h \/ Linked(u)
  <2>1. \A u \in UpIno : FileOf(u)' = (IF u = h THEN f ELSE FileOf(u))
    BY <1>1, <1>2 DEF TypeOK, FileOf
  <2>2. \A u \in UpIno : u # None /\ u \in Inode
    BY PlinkAssumption DEF Inode
  <2>3. \A u \in UpIno : Linked(u)' <=> u = h \/ Linked(u)
    BY <1>3, <1>4, <1>7, <2>2 DEF Linked
  <2>. QED BY <2>1, <2>2, <2>3
<1>10. Mild' => Mild /\ FileInv /\ (fails = 0 => DeepInv)
  BY <1>5 DEF Mild, InstRel, Conditional
<1>11. H0(i) = None
  BY <1>4, <1>5 DEF InstRel, H0
<1>12. ASSUME Mild' PROVE ~InCore(i) /\ H1(i) = None
  <2>1. ASSUME InCore(i) PROVE FALSE
    <3>1. i # last + 1 /\ i # 0
      BY <1>1, <2>1, PlinkAssumption DEF CoreInv, TypeOK, Ino
    <3>2. xon /\ i = xino[h]
      BY <1>5, <3>1 DEF InstRel
    <3>3. DeepInv
      BY <1>1, <1>10, <1>12, <3>2 DEF FaultInv, Mild
    <3>4. H1(i) \in LowIno /\ Alive(H1(i)) /\ xino[H1(i)] = i
      BY <1>11, <2>1, <3>3, HalfAlive
    <3>. QED BY <1>4, <3>1, <3>2, <3>3, <3>4 DEF DeepInv, CopyInv
  <2>. QED BY <1>1, <2>1 DEF CoreInv
<1>13. ASSUME Mild' PROVE FileInv'
  <2>1. \A j \in Ino, u \in UpIno, l \in LowIno : H0(j)' = u /\ H1(j)' = l => FileOf(u)' = l
    BY <1>4, <1>6, <1>8, <1>9, <1>10, <1>12, <1>13 DEF FileInv
  <2>2. ASSUME NEW m \in Name, NEW u \in UpIno, up'[m] = u PROVE FileOf(u)' = fid'[m]
    <3>1. fid'[n] = f /\ \A k \in Name \ {n} : fid'[k] = fid[k]
      BY <1>1, <1>3 DEF TypeOK
    <3>2. CASE m = n
      BY <1>7, <1>9, <2>2, <3>1, <3>2
    <3>3. CASE m # n
      <4>1. up[m] = u /\ Linked(u)
        BY <1>7, <2>2, <3>3 DEF Linked
      <4>. QED BY <1>4, <1>9, <1>10, <1>13, <3>1, <3>3, <4>1 DEF FileInv
    <3>. QED BY <3>2, <3>3
  <2>. QED BY <2>1, <2>2 DEF FileInv
<1>14. ASSUME fails' = 0 PROVE DeepInv'
  <2>1. Mild' /\ r = "ok" /\ fails = 0 /\ DeepInv /\ xon /\ xon'
    BY <1>5, <1>14 DEF InstRel, Conditional, DeepInv, Mild
  <2>2. xino' = [xino EXCEPT ![h] = i] /\ list' = list
    BY <1>5, <2>1 DEF InstRel
  <2>3. xino[h] = i \/ (xino[h] = 0 /\ \A k \in Inode : xino[k] # i)
    BY <1>4, <1>5, <2>1, SameNumber
  <2>4. xino'[h] = i /\ \A k \in Inode \ {h} : xino'[k] = xino[k]
    BY <1>1, <1>4, <2>2 DEF TypeOK
  <2>5. i # 0 /\ NumInv /\ CopyInv /\ ListInv /\ JobInv
    BY <2>1 DEF DeepInv, Ino
  <2>6. \A j \in Ino, u \in UpIno : H0(j) = u => H0(j)' = u /\ u # h
    BY <1>4, <1>6, <1>9, <1>11
  <2>7. NumInv'
    <3>1. \A l, m \in LowIno : xino'[l] # 0 /\ xino'[l] = xino'[m] => l = m
      BY <1>8, <2>4, <2>5 DEF NumInv
    <3>2. \A j \in Ino, u \in UpIno : H0(j)' = u => xino'[u] = j /\ Linked(u)'
      BY <1>4, <1>6, <1>9, <2>4, <2>5 DEF NumInv
    <3>3. \A j \in Ino, l \in LowIno : H1(j)' = l => xino'[l] = j
      BY <1>6, <1>8, <2>4, <2>5 DEF NumInv
    <3>. QED BY <3>1, <3>2, <3>3 DEF NumInv
  <2>8. CopyInv'
    <3>1. \A u \in UpIno : Linked(u) => FileOf(u) # f
      BY <1>1, <1>3 DEF BornInv
    <3>2. \A u, t \in UpIno : Linked(u)' /\ Linked(t)' /\ FileOf(u)' = FileOf(t)' => u = t
      BY <1>9, <2>5, <3>1 DEF CopyInv
    <3>3. ASSUME NEW l \in LowIno, NEW u \in UpIno, Alive(l)', xino'[l] # 0, xino'[u] = xino'[l]
          PROVE  Linked(u)' /\ FileOf(u)' = l
      <4>1. xino'[l] = xino[l] /\ Alive(l)
        BY <1>8, <2>4, <3>3
      <4>2. CASE u = h
        <5>1. xino[l] = i
          BY <2>4, <3>3, <4>1, <4>2
        <5>2. xino[h] = xino[l]
          BY <1>8, <2>3, <5>1
        <5>. QED BY <1>4, <2>5, <3>3, <4>1, <5>2 DEF CopyInv
      <4>3. CASE u # h
        BY <1>9, <2>4, <2>5, <3>3, <4>1, <4>3 DEF CopyInv
      <4>. QED BY <4>2, <4>3
    <3>4. ASSUME NEW l \in LowIno, NEW u \in UpIno, Alive(l)', Linked(u)', FileOf(u)' = l
          PROVE  \E j \in list' : xino'[l] = j /\ <<j, u>> \in pldir' /\ H0(j)' = u
      <4>1. u # h /\ Linked(u) /\ FileOf(u) = l /\ Alive(l)
        BY <1>8, <1>9, <3>4
      <4>2. PICK j \in list : xino[l] = j /\ <<j, u>> \in pldir /\ H0(j) = u
        BY <2>5, <4>1 DEF CopyInv
      <4>3. j \in Ino /\ xino'[l] = j
        BY <1>1, <1>8, <2>4, <4>2 DEF TypeOK
      <4>. QED BY <1>3, <2>2, <2>6, <4>2, <4>3
    <3>. QED BY <3>2, <3>3, <3>4 DEF CopyInv
  <2>9. ListInv'
    <3>1. list \subseteq Ino
      BY <1>1 DEF TypeOK
    <3>. QED BY <1>3, <2>2, <2>5, <2>6, <3>1 DEF ListInv
  <2>10. JobInv'
    <3>1. job.pc = "idle"
      BY <1>3 DEF User, Steady
    <3>. QED BY <1>3, <3>1 DEF JobInv
  <2>. QED BY <2>1, <2>7, <2>8, <2>9, <2>10 DEF DeepInv
<1>. QED BY <1>13, <1>14 DEF Conditional

(* fillvdir gives out a number that no inode has. *)
LEMMA ReaddirDeep ==
    ASSUME Steady, BaseInv, Conditional, NEW n \in Name, Readdir(n)
    PROVE  Conditional'
<1>1. TypeOK /\ CoreInv /\ LastInv
  BY DEF BaseInv
<1>. DEFINE h == Hidden(n)
            i == last + 1
<1>2. /\ User /\ Visible(n) /\ (xon => xino[h] = 0)
      /\ xino' = IF xon THEN [xino EXCEPT ![h] = i] ELSE xino
      /\ low' = low /\ up' = up /\ wh' = wh /\ pldir' = pldir /\ data' = data /\ gen' = gen
      /\ xon' = xon /\ dent' = dent /\ inode' = inode /\ list' = list /\ job' = job
      /\ fails' = fails /\ fid' = fid /\ ver' = ver
  BY DEF Readdir, ghost, NewIno, XinoRead
<1>3. h \in Inode /\ i # 0 /\ \A k \in Inode : xino[k] # i
  <2>1. last \in Nat /\ \A k \in Inode : xino[k] \in Nat /\ xino[k] <= last
    BY <1>1, PlinkAssumption DEF TypeOK, LastInv, Ino
  <2>. QED BY <1>1, <1>2, <2>1, Levels DEF Inode
<1>. HIDE DEF h, i
<1>4. /\ \A j \in Ino : H0(j)' = H0(j) /\ H1(j)' = H1(j)
      /\ \A u \in UpIno : (Linked(u)' <=> Linked(u)) /\ FileOf(u)' = FileOf(u) /\ u \in Inode
      /\ \A l \in LowIno : (Alive(l)' <=> Alive(l)) /\ l \in Inode
  BY <1>2 DEF H0, H1, Linked, FileOf, Alive, OnLow, Inode
<1>5. FileInv => FileInv'
  BY <1>2, <1>4 DEF FileInv
<1>6. ASSUME DeepInv PROVE DeepInv'
  <2>1. xon /\ NumInv /\ CopyInv /\ ListInv /\ JobInv
    BY <1>6 DEF DeepInv
  <2>2. xino[h] = 0 /\ xino'[h] = i /\ \A k \in Inode \ {h} : xino'[k] = xino[k]
    BY <1>1, <1>2, <1>3, <2>1 DEF TypeOK
  <2>3. \A k \in Inode : xino[k] # 0 => xino'[k] = xino[k]
    BY <2>2
  <2>4. NumInv'
    <3>1. 0 \notin Ino
      BY DEF Ino
    <3>2. \A l, m \in LowIno : xino'[l] # 0 /\ xino'[l] = xino'[m] => l = m
      BY <1>3, <1>4, <2>1, <2>2 DEF NumInv
    <3>3. \A j \in Ino, u \in UpIno : H0(j)' = u => xino'[u] = j /\ Linked(u)'
      BY <1>4, <2>1, <2>3, <3>1 DEF NumInv
    <3>4. \A j \in Ino, l \in LowIno : H1(j)' = l => xino'[l] = j
      BY <1>4, <2>1, <2>3, <3>1 DEF NumInv
    <3>. QED BY <3>2, <3>3, <3>4 DEF NumInv
  <2>5. CopyInv'
    <3>1. \A u, t \in UpIno : Linked(u)' /\ Linked(t)' /\ FileOf(u)' = FileOf(t)' => u = t
      BY <1>4, <2>1 DEF CopyInv
    <3>2. ASSUME NEW l \in LowIno, NEW u \in UpIno, Alive(l)', xino'[l] # 0, xino'[u] = xino'[l]
          PROVE  Linked(u)' /\ FileOf(u)' = l
      <4>1. l # u
        BY PlinkAssumption
      <4>2. xino[l] # 0 /\ xino[u] = xino[l]
        BY <1>3, <1>4, <2>2, <3>2, <4>1
      <4>. QED BY <1>4, <2>1, <3>2, <4>2 DEF CopyInv
    <3>3. ASSUME NEW l \in LowIno, NEW u \in UpIno, Alive(l)', Linked(u)', FileOf(u)' = l
          PROVE  \E j \in list' : xino'[l] = j /\ <<j, u>> \in pldir' /\ H0(j)' = u
      <4>1. PICK j \in list : xino[l] = j /\ <<j, u>> \in pldir /\ H0(j) = u
        BY <1>4, <2>1, <3>3 DEF CopyInv
      <4>2. j \in Ino /\ j # 0
        BY <1>1 DEF TypeOK, Ino
      <4>. QED BY <1>2, <1>4, <2>3, <4>1, <4>2
    <3>. QED BY <3>1, <3>2, <3>3 DEF CopyInv
  <2>6. ListInv'
    <3>1. list \subseteq Ino
      BY <1>1 DEF TypeOK
    <3>. QED BY <1>2, <1>4, <2>1, <3>1 DEF ListInv
  <2>7. JobInv'
    BY <1>2, <2>1 DEF JobInv, Visible, OnLow
  <2>. QED BY <1>2, <2>1, <2>4, <2>5, <2>6, <2>7 DEF DeepInv
<1>. QED BY <1>2, <1>5, <1>6 DEF Conditional, Mild

(* A dentry goes, and with it perhaps a name: what the inodes in memory and *)
(* the table refer to keeps its links.                                      *)
LEMMA DropDeep ==
    ASSUME Steady, BaseInv, Conditional, NEW n \in Name, Shrink(n) \/ Unlink(n)
    PROVE  Conditional'
<1>1. TypeOK /\ CoreInv /\ DentInv
  BY DEF BaseInv
<1>2. /\ User /\ dent' = [dent EXCEPT ![n] = 0] /\ inode' = Iput(dent', list)
      /\ low' = low /\ pldir' = pldir /\ data' = data
      /\ xon' = xon /\ xino' = xino /\ last' = last /\ list' = list /\ job' = job
      /\ fails' = fails
  BY DEF Shrink, Unlink, ghost
<1>3. /\ \A m \in Name \ {n} : up'[m] = up[m] /\ (m \in wh' <=> m \in wh) /\ fid'[m] = fid[m]
      /\ up'[n] = None \/ (up'[n] = up[n] /\ fid'[n] = fid[n])
  BY <1>1 DEF Shrink, Unlink, TypeOK, ghost
<1>4. \A m \in Name : OnLow(m)' => OnLow(m)
  <2>1. CASE Shrink(n)
    BY <2>1 DEF Shrink, OnLow, ghost
  <2>2. CASE Unlink(n)
    <3>1. up'[n] = None /\ (low[n] # None => n \in wh')
      BY <1>1, <2>2 DEF Unlink, TypeOK
    <3>. QED BY <1>2, <1>3, <3>1 DEF OnLow
  <2>. QED BY <2>1, <2>2
<1>5. \A l \in LowIno : Alive(l)' => Alive(l)
  BY <1>2, <1>4 DEF Alive
<1>6. \A m \in Name : dent'[m] # 0 => m # n /\ dent'[m] = dent[m]
  BY <1>1, <1>2 DEF TypeOK
<1>7. \A j \in Ino : /\ InCore(j)' <=> (j \in list \/ \E m \in Name : dent'[m] = j)
                     /\ InCore(j)' => H0(j)' = H0(j) /\ H1(j)' = H1(j)
                     /\ ~InCore(j)' => H0(j)' = None /\ H1(j)' = None
  <2>. DEFINE D == dent'
  <2>1. D \in [Name -> Ino \cup {0}] /\ \A m \in Name : D[m] = 0 \/ D[m] = dent[m]
    BY <1>1, <1>2 DEF TypeOK
  <2>2. inode' = Iput(D, list) /\ list \in SUBSET list
    BY <1>2
  <2>3. last' = last
    BY <1>2
  <2>. HIDE DEF D
  <2>4. \A j \in Ino : /\ InCore(j)' <=> (j \in list \/ \E m \in Name : D[m] = j)
                       /\ InCore(j)' => H0(j)' = H0(j) /\ H1(j)' = H1(j)
                       /\ ~InCore(j)' => H0(j)' = None /\ H1(j)' = None
    BY <2>1, <2>2, <2>3, IputFacts
  <2>. QED BY <2>4 DEF D
<1>8. /\ \A j \in Ino, u \in UpIno : H0(j)' = u => InCore(j)' /\ H0(j) = u
      /\ \A j \in Ino, l \in LowIno : H1(j)' = l => H1(j) = l
      /\ \A j \in Ino, u \in UpIno : j \in list /\ H0(j) = u => H0(j)' = u
  BY <1>7, PlinkAssumption
<1>9. /\ \A u \in UpIno : FileOf(u)' = FileOf(u)
      /\ \A u \in UpIno : Linked(u)' => Linked(u)
      /\ \A j \in Ino, u \in UpIno : <<j, u>> \in pldir => Linked(u)'
  <2>1. \A u \in UpIno : u # None
    BY PlinkAssumption
  <2>2. \A u \in UpIno : Linked(u)' => Linked(u)
    BY <1>2, <1>3, <2>1 DEF Linked
  <2>3. ASSUME NEW j \in Ino, NEW u \in UpIno, <<j, u>> \in pldir PROVE Linked(u)'
    <3>1. <<j, u>>[2] = u
      OBVIOUS
    <3>. QED BY <1>2, <2>3, <3>1 DEF Linked
  <2>. QED BY <1>2, <2>2, <2>3 DEF FileOf
<1>10. ASSUME FileInv PROVE FileInv'
  <2>1. \A u \in UpIno : u # None
    BY PlinkAssumption
  <2>2. \A m \in Name, u \in UpIno : up'[m] = u => FileOf(u)' = fid'[m]
    BY <1>3, <1>9, <1>10, <2>1 DEF FileInv
  <2>. QED BY <1>8, <1>9, <1>10, <2>2 DEF FileInv
<1>11. ASSUME DeepInv PROVE DeepInv'
  <2>1. xon /\ NumInv /\ CopyInv /\ ListInv /\ JobInv
    BY <1>11 DEF DeepInv
  <2>2. list \subseteq Ino
    BY <1>1 DEF TypeOK
  <2>3. NumInv'
    <3>1. ASSUME NEW j \in Ino, NEW u \in UpIno, H0(j)' = u PROVE Linked(u)'
      <4>1. InCore(j)' /\ H0(j) = u
        BY <1>8, <3>1
      <4>2. CASE j \in list
        BY <1>9, <2>1, <4>1, <4>2 DEF ListInv
      <4>3. ASSUME NEW m \in Name, dent'[m] = j PROVE Linked(u)'
        <5>1. m # n /\ dent[m] = j /\ j # 0 /\ Visible(m)
          BY <1>1, <1>6, <4>3 DEF Ino, DentInv
        <5>2. CASE up[m] = None
          <6>1. OnLow(m)
            BY <5>1, <5>2 DEF OnLow, Visible
          <6>2. <<j, u>> \in pldir
            BY <1>11, <4>1, <5>1, <6>1, HoldLinked
          <6>. QED BY <1>9, <6>2
        <5>3. CASE up[m] # None
          <6>1. up'[m] = u
            BY <1>1, <1>3, <4>1, <5>1, <5>3 DEF DentInv
          <6>. QED BY <6>1 DEF Linked
        <5>. QED BY <5>2, <5>3
      <4>. QED BY <1>7, <4>1, <4>2, <4>3
    <3>. QED BY <1>2, <1>8, <2>1, <3>1 DEF NumInv
  <2>4. CopyInv'
    <3>1. ASSUME NEW l \in LowIno, NEW u \in UpIno, Alive(l), Linked(u), FileOf(u) = l
          PROVE  Linked(u)' /\ \E j \in list' : xino'[l] = j /\ <<j, u>> \in pldir' /\ H0(j)' = u
      <4>1. PICK j \in list : xino[l] = j /\ <<j, u>> \in pldir /\ H0(j) = u
        BY <2>1, <3>1 DEF CopyInv
      <4>. QED BY <1>2, <1>8, <1>9, <2>2, <4>1
    <3>2. \A u, t \in UpIno : Linked(u)' /\ Linked(t)' /\ FileOf(u)' = FileOf(t)' => u = t
      BY <1>9, <2>1 DEF CopyInv
    <3>3. \A l \in LowIno, u \in UpIno :
            Alive(l)' /\ xino'[l] # 0 /\ xino'[u] = xino'[l] => Linked(u)' /\ FileOf(u)' = l
      BY <1>2, <1>5, <1>9, <2>1, <3>1 DEF CopyInv
    <3>4. \A l \in LowIno, u \in UpIno : Alive(l)' /\ Linked(u)' /\ FileOf(u)' = l =>
            \E j \in list' : xino'[l] = j /\ <<j, u>> \in pldir' /\ H0(j)' = u
      BY <1>5, <1>9, <3>1
    <3>. QED BY <3>2, <3>3, <3>4 DEF CopyInv
  <2>5. ListInv'
    BY <1>2, <1>8, <2>1, <2>2 DEF ListInv
  <2>6. JobInv'
    <3>1. job.pc = "idle"
      BY <1>2 DEF User, Steady
    <3>. QED BY <1>2, <3>1 DEF JobInv
  <2>. QED BY <1>2, <2>1, <2>3, <2>4, <2>5, <2>6 DEF DeepInv
<1>. QED BY <1>2, <1>10, <1>11 DEF Conditional, Mild

(* A name joins the copy of its file: append_plink finds the inode on the   *)
(* list.                                                                    *)
LEMMA JoinDeep ==
    ASSUME Steady, BaseInv, Conditional, NEW s \in Name, NEW n \in Name, NEW w \in 0 .. 1,
           NEW x \in 0 .. 1, NEW u \in UpIno, NEW i \in Ino, i = dent[s],
           Frame(s, n, w), JoinRel(s, n, u, x)
    PROVE  Conditional' /\ (Mild' => FileOf(u) = fid[s])
<1>1. TypeOK /\ CoreInv /\ DentInv /\ BornInv
  BY DEF BaseInv
<1>2. H0(i) = u /\ i # 0 /\ u # None /\ Visible(s) /\ low' = low
  BY <1>1, PlinkAssumption DEF JoinRel, Frame, DentInv
<1>3. /\ up'[n] = u /\ \A m \in Name \ {n} : up'[m] = up[m]
      /\ \A m \in Name : OnLow(m)' <=> m # n /\ OnLow(m)
      /\ \A m \in Name : Visible(m)' <=> m = n \/ Visible(m)
      /\ \A l \in LowIno : Alive(l)' => Alive(l)
  BY <1>1, UpSet DEF Frame, JoinRel
<1>4. /\ dent'[n] = i /\ \A m \in Name \ {n} : dent'[m] = dent[m]
      /\ fid'[n] = fid[s] /\ \A m \in Name \ {n} : fid'[m] = fid[m]
  BY <1>1 DEF Frame, TypeOK
<1>5. \A t \in UpIno : (Linked(t)' <=> Linked(t)) /\ FileOf(t)' = FileOf(t)
  BY JoinLinked DEF BaseInv
<1>6. /\ \A j \in Ino : H0(j)' = H0(j) /\ H1(j)' = H1(j)
      /\ xino' = xino /\ xon' = xon
  BY DEF JoinRel, H0, H1
<1>7. Mild' => Mild /\ FileInv /\ (fails' = 0 => fails = 0 /\ DeepInv)
  BY DEF Mild, JoinRel, Conditional
<1>8. ASSUME Mild' PROVE FileOf(u) = fid[s]
  <2>1. CASE up[s] = None
    <3>1. OnLow(s) /\ low[s] \in LowIno
      BY <1>1, <1>2, <2>1, Levels DEF Visible, OnLow
    <3>2. H1(i) = low[s] /\ fid[s] = low[s]
      BY <1>1, <1>2, <2>1, <3>1 DEF DentInv, BornInv
    <3>. QED BY <1>2, <1>7, <1>8, <3>1, <3>2 DEF FileInv
  <2>2. CASE up[s] # None
    <3>1. up[s] = u
      BY <1>1, <1>2, <2>2 DEF DentInv
    <3>. QED BY <1>7, <1>8, <3>1 DEF FileInv
  <2>. QED BY <2>1, <2>2
<1>9. ASSUME Mild' PROVE FileInv'
  <2>1. \A m \in Name, t \in UpIno : up'[m] = t => FileOf(t)' = fid'[m]
    BY <1>3, <1>4, <1>5, <1>7, <1>8, <1>9 DEF FileInv
  <2>. QED BY <1>5, <1>6, <1>7, <1>9, <2>1 DEF FileInv
<1>10. ASSUME fails' = 0 PROVE DeepInv'
  <2>1. DeepInv /\ xon /\ NumInv /\ CopyInv /\ ListInv /\ JobInv /\ list \subseteq Ino
    BY <1>1, <1>7, <1>10 DEF DeepInv, Mild, TypeOK
  <2>2. list' = list /\ pldir' = pldir
    <3>1. OnLow(s) => i \in list /\ <<i, u>> \in pldir
      BY <1>2, <2>1, HoldLinked
    <3>2. OnLow(s) => list \cup {i} = list /\ pldir \cup {<<i, u>>} = pldir
      BY <3>1
    <3>. QED BY <3>2 DEF JoinRel
  <2>3. NumInv'
    BY <1>5, <1>6, <2>1 DEF NumInv
  <2>4. CopyInv'
    BY <1>3, <1>5, <1>6, <2>1, <2>2 DEF CopyInv
  <2>5. job'.pc = job.pc /\ job'.links = job.links
    BY <1>1 DEF Frame, JobStep, TypeOK
  <2>6. ListInv'
    BY <1>6, <2>1, <2>2, <2>5 DEF ListInv
  <2>7. JobInv'
    <3>1. CASE job.pc = "idle"
      BY <2>5, <3>1 DEF JobInv
    <3>2. CASE job.pc = "touch" /\ job' = [job EXCEPT !.names = @ \ {n}]
      <4>1. job'.names = job.names \ {n}
        BY <1>1, <3>2 DEF TypeOK
      <4>2. \A m \in Name : Visible(m)' => dent'[m] # 0
        BY <1>2, <1>3, <1>4, <2>1, <3>2 DEF JobInv
      <4>3. job.names \subseteq Name
        BY <1>1 DEF TypeOK
      <4>. QED BY <1>3, <1>4, <2>1, <2>2, <2>5, <3>2, <4>1, <4>2, <4>3 DEF JobInv
    <3>. QED BY <3>1, <3>2 DEF Frame, JobStep, User, Steady
  <2>. QED BY <1>6, <2>1, <2>3, <2>4, <2>6, <2>7 DEF DeepInv
<1>. QED BY <1>8, <1>9, <1>10 DEF Conditional

(* A file that is copied up has no copy yet, and no other hidden inode has  *)
(* its number.                                                              *)
LEMMA NoCopyYet ==
    ASSUME BaseInv, DeepInv, NEW s \in Name, OnLow(s), NEW i \in Ino, i = dent[s],
           H0(i) = None \/ ~Linked(H0(i))
    PROVE  /\ H0(i) = None /\ low[s] \in LowIno /\ Alive(low[s]) /\ xino[low[s]] = i
           /\ \A t \in UpIno : (Linked(t) => FileOf(t) # low[s]) /\ xino[t] # i
<1>1. TypeOK /\ CoreInv /\ DentInv /\ NumInv /\ CopyInv
  BY DEF BaseInv, DeepInv
<1>2. i # 0 /\ low[s] \in LowIno /\ Alive(low[s]) /\ up[s] = None
  BY <1>1, Levels DEF Ino
<1>3. H1(i) = low[s]
  BY <1>1, <1>2 DEF DentInv
<1>4. H0(i) = None /\ xino[low[s]] = i
  BY <1>1, <1>2, <1>3 DEF CoreInv, NumInv
<1>5. \A t \in UpIno : Linked(t) => FileOf(t) # low[s]
  <2>1. ASSUME NEW t \in UpIno, Linked(t), FileOf(t) = low[s] PROVE FALSE
    <3>1. \E j \in list : xino[low[s]] = j /\ H0(j) = t
      BY <1>1, <1>2, <2>1 DEF CopyInv
    <3>2. t # None
      BY PlinkAssumption
    <3>. QED BY <1>4, <3>1, <3>2
  <2>. QED BY <2>1
<1>6. \A t \in UpIno : xino[t] # i
  BY <1>1, <1>2, <1>4, <1>5 DEF CopyInv
<1>. QED BY <1>2, <1>4, <1>5, <1>6

LEMMA CopyDeep ==
    ASSUME Steady, BaseInv, Conditional, NEW s \in Name, NEW n \in Name, NEW w \in 0 .. 1,
           NEW r \in {"ok", "xino", "nomem", "link"}, NEW h \in UpIno,
           NEW i \in Ino, i = dent[s],
           Frame(s, n, w), CopyRel(s, n, h, r, w)
    PROVE  Conditional'
<1>1. TypeOK /\ CoreInv /\ DentInv
  BY DEF BaseInv
<1>2. /\ low[s] \in LowIno /\ fid[s] = low[s] /\ H1(i) = low[s]
      /\ H0(i)' = h /\ H1(i)' = H1(i)
      /\ \A j \in Ino \ {i} : H0(j)' = H0(j) /\ H1(j)' = H1(j)
      /\ ~Linked(h) /\ \A j \in Ino : H0(j) # h
      /\ \A t \in UpIno : /\ Linked(t)' <=> t = h \/ Linked(t)
                          /\ FileOf(t)' = (IF t = h THEN low[s] ELSE FileOf(t))
  BY CopyFacts
<1>3. /\ up'[n] = h /\ \A m \in Name \ {n} : up'[m] = up[m]
      /\ \A m \in Name : OnLow(m)' <=> m # n /\ OnLow(m)
      /\ \A l \in LowIno : Alive(l)' => Alive(l)
  BY <1>1, UpSet DEF Frame, CopyRel
<1>4. fid'[n] = fid[s] /\ \A m \in Name \ {n} : fid'[m] = fid[m]
  BY <1>1 DEF Frame, TypeOK
<1>5. Mild' => Mild /\ FileInv
  BY DEF Mild, CopyRel, Conditional
<1>6. ASSUME Mild' PROVE FileInv'
  <2>1. \A m \in Name, t \in UpIno : up[m] = t => t # h
    BY <1>2 DEF Linked
  <2>2. \A m \in Name, t \in UpIno : up'[m] = t => FileOf(t)' = fid'[m]
    BY <1>2, <1>3, <1>4, <1>5, <1>6, <2>1 DEF FileInv
  <2>3. \A j \in Ino, t \in UpIno, l \in LowIno : H0(j)' = t /\ H1(j)' = l => FileOf(t)' = l
    BY <1>2, <1>5, <1>6 DEF FileInv
  <2>. QED BY <2>2, <2>3 DEF FileInv
<1>7. ASSUME fails' = 0 PROVE DeepInv'
  <2>1. r = "ok" /\ fails = 0 /\ DeepInv
    BY <1>7 DEF CopyRel, Conditional
  <2>2. xon /\ NumInv /\ CopyInv /\ ListInv /\ JobInv /\ list \subseteq Ino /\ i # 0
    BY <1>1, <2>1 DEF DeepInv, TypeOK, Ino
  <2>3. OnLow(s) /\ (H0(i) = None \/ ~Linked(H0(i)))
    BY DEF CopyRel
  <2>4. /\ H0(i) = None /\ Alive(low[s]) /\ xino[low[s]] = i
        /\ \A t \in UpIno : (Linked(t) => FileOf(t) # low[s]) /\ xino[t] # i
    BY <2>1, <2>3, NoCopyYet
  <2>5. xon' /\ xino' = [xino EXCEPT ![h] = i]
    BY <2>1, <2>2 DEF CopyRel
  <2>6. /\ xino'[h] = i /\ \A k \in Inode \ {h} : xino'[k] = xino[k]
        /\ \A u \in UpIno : u \in Inode /\ u # None
        /\ \A l \in LowIno : l \in Inode /\ l # h
    BY <1>1, <2>5, PlinkAssumption DEF TypeOK, Inode
  <2>7. \/ list' = list /\ pldir' = pldir /\ n = s /\ ~IsPlink(n)
        \/ list' = list \cup {i} /\ pldir' = pldir \cup {<<i, h>>}
    BY <2>1 DEF CopyRel
  <2>8. \A j \in Ino, u \in UpIno : H0(j) = u => j # i /\ H0(j)' = u /\ u # h
    BY <1>2, <2>4, <2>6
  <2>9. NumInv'
    <3>1. \A j \in Ino, u \in UpIno : H0(j)' = u => xino'[u] = j /\ Linked(u)'
      BY <1>2, <2>2, <2>6 DEF NumInv
    <3>2. \A j \in Ino, l \in LowIno : H1(j)' = l => xino'[l] = j
      BY <1>2, <2>2, <2>6 DEF NumInv
    <3>3. \A l, m \in LowIno : xino'[l] # 0 /\ xino'[l] = xino'[m] => l = m
      BY <2>2, <2>6 DEF NumInv
    <3>. QED BY <3>1, <3>2, <3>3 DEF NumInv
  <2>10. CopyInv'
    <3>1. \A u, t \in UpIno : Linked(u)' /\ Linked(t)' /\ FileOf(u)' = FileOf(t)' => u = t
      BY <1>2, <2>2, <2>4 DEF CopyInv
    <3>2. ASSUME NEW l \in LowIno, NEW u \in UpIno, Alive(l)', xino'[l] # 0, xino'[u] = xino'[l]
          PROVE  Linked(u)' /\ FileOf(u)' = l
      <4>1. xino'[l] = xino[l] /\ Alive(l)
        BY <1>3, <2>6, <3>2
      <4>2. CASE u = h
        <5>1. l = low[s]
          BY <1>2, <2>2, <2>4, <2>6, <3>2, <4>1, <4>2 DEF NumInv
        <5>. QED BY <1>2, <4>2, <5>1
      <4>3. CASE u # h
        BY <1>2, <2>2, <2>6, <3>2, <4>1, <4>3 DEF CopyInv
      <4>. QED BY <4>2, <4>3
    <3>3. ASSUME NEW l \in LowIno, NEW u \in UpIno, Alive(l)', Linked(u)', FileOf(u)' = l
          PROVE  \E j \in list' : xino'[l] = j /\ <<j, u>> \in pldir' /\ H0(j)' = u
      <4>1. CASE u = h
        <5>1. l = low[s]
          BY <1>2, <3>3, <4>1
        <5>2. PICK m \in Name : m # n /\ low'[m] = l
          BY <1>3, <3>3 DEF Alive
        <5>3. n = s => IsPlink(n)
          BY <5>1, <5>2 DEF IsPlink, Frame
        <5>. QED BY <1>2, <2>4, <2>6, <2>7, <4>1, <5>1, <5>3
      <4>2. CASE u # h
        <5>1. PICK j \in list : xino[l] = j /\ <<j, u>> \in pldir /\ H0(j) = u
          BY <1>2, <1>3, <2>2, <3>3, <4>2 DEF CopyInv
        <5>. QED BY <2>2, <2>6, <2>7, <2>8, <5>1
      <4>. QED BY <4>1, <4>2
    <3>. QED BY <3>1, <3>2, <3>3 DEF CopyInv
  <2>11. job'.pc = job.pc /\ job'.links = job.links
    BY <1>1 DEF Frame, JobStep, TypeOK
  <2>12. ListInv'
    <3>1. ASSUME NEW j \in list' PROVE \E u \in UpIno : H0(j)' = u /\ <<j, u>> \in pldir'
      <4>1. CASE j \in list
        BY <2>2, <2>7, <2>8, <4>1 DEF ListInv
      <4>2. CASE j \notin list
        BY <1>2, <2>7, <3>1, <4>2
      <4>. QED BY <4>1, <4>2
    <3>2. ASSUME NEW j \in Ino, NEW u \in UpIno, <<j, u>> \in pldir', job'.pc # "rm"
          PROVE  j \in list' /\ H0(j)' = u
      <4>1. CASE <<j, u>> \in pldir
        BY <2>2, <2>7, <2>8, <2>11, <3>2, <4>1 DEF ListInv
      <4>2. CASE <<j, u>> \notin pldir
        BY <1>2, <2>7, <3>2, <4>2
      <4>. QED BY <4>1, <4>2
    <3>. QED BY <3>1, <3>2 DEF ListInv
  <2>13. JobInv'
    <3>1. CASE job.pc = "idle"
      BY <2>11, <3>1 DEF JobInv
    <3>2. CASE job.pc = "touch" /\ n \in job.names
      <4>1. PICK u \in UpIno : <<dent[n], u>> \in pldir
        BY <2>2, <3>2 DEF JobInv
      <4>2. dent[n] \in Ino
        BY <1>1, <4>1 DEF TypeOK
      <4>3. n = s
        BY <1>1, <4>2 DEF DentInv, Frame, Ino
      <4>4. H0(i) = u
        BY <2>2, <3>2, <4>1, <4>3 DEF ListInv
      <4>. QED BY <2>4, <2>6, <4>4
    <3>. QED BY <3>1, <3>2 DEF Frame, JobStep, User, Steady
  <2>. QED BY <2>5, <2>9, <2>10, <2>12, <2>13 DEF DeepInv
<1>. QED BY <1>6, <1>7 DEF Conditional

(* auplink lists the links, finds the names, and has a name touched that is *)
(* already on branch 0.                                                     *)
LEMMA JobDeep ==
    ASSUME Steady, BaseInv, Conditional, JobOnly
    PROVE  Conditional'
<1>1. TypeOK
  BY DEF BaseInv
<1>2. /\ low' = low /\ up' = up /\ wh' = wh /\ pldir' = pldir /\ data' = data
      /\ xon' = xon /\ xino' = xino /\ dent' = dent /\ inode' = inode /\ list' = list
      /\ fails' = fails /\ fid' = fid
  BY DEF JobOnly, ghost
<1>3. /\ \A m \in Name : (OnLow(m)' <=> OnLow(m)) /\ (Visible(m)' <=> Visible(m))
      /\ \A l \in LowIno : Alive(l)' <=> Alive(l)
      /\ \A u \in UpIno : (Linked(u)' <=> Linked(u)) /\ FileOf(u)' = FileOf(u)
      /\ \A j \in Ino : H0(j)' = H0(j) /\ H1(j)' = H1(j)
  BY <1>2 DEF OnLow, Visible, Alive, Linked, FileOf, H0, H1
<1>4. FileInv => FileInv'
  BY <1>2, <1>3 DEF FileInv
<1>5. ASSUME DeepInv PROVE DeepInv'
  <2>1. xon /\ NumInv /\ CopyInv /\ ListInv /\ JobInv /\ list \subseteq Ino
    BY <1>1, <1>5 DEF DeepInv, TypeOK
  <2>2. xon' /\ NumInv' /\ CopyInv'
    BY <1>2, <1>3, <2>1 DEF NumInv, CopyInv
  <2>3. job.pc # "rm"
    BY DEF JobOnly, AuplinkFind
  <2>4. ListInv'
    BY <1>2, <1>3, <2>1, <2>3 DEF ListInv
  <2>5. JobInv'
    <3>1. CASE job' = [pc |-> "find", links |-> pldir, names |-> {}]
      BY <1>2, <3>1 DEF JobInv
    <3>2. CASE AuplinkFind
      <4>. DEFINE S == {n \in Name : \E l \in job.links : Cached(n) /\ dent[n] = l[1]}
      <4>1. job.pc = "find" /\ job' = [job EXCEPT !.pc = "touch", !.names = S]
            /\ \A n \in Name : Visible(n) => dent[n] # 0
        BY <3>2 DEF AuplinkFind
      <4>2. job.links = pldir
        BY <2>1, <4>1 DEF JobInv
      <4>3. \A n \in S : \E u \in UpIno : <<dent[n], u>> \in pldir
        <5>1. \A p \in pldir : p = <<p[1], p[2]>> /\ p[2] \in UpIno
          BY <1>1 DEF TypeOK
        <5>. QED BY <4>2, <5>1
      <4>4. ASSUME NEW n \in Name, NEW u \in UpIno, OnLow(n), <<dent[n], u>> \in pldir
            PROVE  n \in S
        <5>1. Visible(n)
          BY <4>4 DEF OnLow, Visible
        <5>2. Cached(n)
          BY <4>1, <5>1 DEF Cached
        <5>3. <<dent[n], u>>[1] = dent[n]
          OBVIOUS
        <5>. QED BY <4>2, <4>4, <5>2, <5>3
      <4>. HIDE DEF S
      <4>5. job'.pc = "touch" /\ job'.names = S /\ job'.links = pldir
        BY <1>1, <4>1, <4>2 DEF TypeOK
      <4>. QED BY <1>2, <1>3, <4>1, <4>3, <4>4, <4>5 DEF JobInv
    <3>3. CASE job' = Idle
      BY <1>2, <3>3 DEF JobInv, Idle
    <3>4. ASSUME NEW n \in Name, job.pc = "touch", ~(Visible(n) /\ Top(n) = 1),
                 job' = [job EXCEPT !.names = @ \ {n}]
          PROVE  JobInv'
      <4>1. job'.pc = "touch" /\ job'.names = job.names \ {n} /\ job'.links = job.links
        BY <1>1, <3>4 DEF TypeOK
      <4>2. ~OnLow(n)
        BY <3>4 DEF OnLow, Visible, Top
      <4>. QED BY <1>2, <1>3, <2>1, <3>4, <4>1, <4>2 DEF JobInv
    <3>. QED BY <3>1, <3>2, <3>3, <3>4 DEF JobOnly
  <2>. QED BY <2>2, <2>4, <2>5 DEF DeepInv
<1>. QED BY <1>2, <1>4, <1>5 DEF Conditional, Mild

(* clean_plink: every name of branch 1 that needed the list was touched. *)
LEMMA CleanDeep ==
    ASSUME Steady, BaseInv, Conditional, AuplinkClean
    PROVE  Conditional'
<1>1. TypeOK /\ CoreInv /\ DentInv
  BY DEF BaseInv
<1>2. /\ job.pc = "touch" /\ job.names = {}
      /\ list' = {} /\ inode' = Iput(dent, {}) /\ job' = [job EXCEPT !.pc = "rm"]
      /\ low' = low /\ up' = up /\ wh' = wh /\ pldir' = pldir /\ data' = data
      /\ xon' = xon /\ xino' = xino /\ last' = last /\ dent' = dent
      /\ fails' = fails /\ fid' = fid
  BY DEF AuplinkClean, ghost
<1>3. \A j \in Ino : /\ InCore(j)' => H0(j)' = H0(j) /\ H1(j)' = H1(j)
                     /\ ~InCore(j)' => H0(j)' = None /\ H1(j)' = None
  <2>1. dent \in [Name -> Ino \cup {0}] /\ {} \in SUBSET list
    BY <1>1 DEF TypeOK
  <2>. QED BY <1>2, <2>1, IputFacts
<1>4. /\ \A j \in Ino, u \in UpIno : H0(j)' = u => H0(j) = u
      /\ \A j \in Ino, l \in LowIno : H1(j)' = l => H1(j) = l
  BY <1>3, PlinkAssumption
<1>5. /\ \A m \in Name : (OnLow(m)' <=> OnLow(m)) /\ (Visible(m)' <=> Visible(m))
      /\ \A l \in LowIno : Alive(l)' <=> Alive(l)
      /\ \A u \in UpIno : (Linked(u)' <=> Linked(u)) /\ FileOf(u)' = FileOf(u)
  BY <1>2 DEF OnLow, Visible, Alive, Linked, FileOf
<1>6. FileInv => FileInv'
  BY <1>2, <1>4, <1>5 DEF FileInv
<1>7. ASSUME DeepInv PROVE DeepInv'
  <2>1. xon /\ NumInv /\ CopyInv /\ ListInv /\ JobInv
    BY <1>7 DEF DeepInv
  <2>2. NumInv'
    BY <1>2, <1>4, <1>5, <2>1 DEF NumInv
  <2>3. ASSUME NEW l \in LowIno, NEW u \in UpIno, Alive(l), Linked(u), FileOf(u) = l
        PROVE  FALSE
    <3>1. PICK j \in list : xino[l] = j /\ <<j, u>> \in pldir
      BY <2>1, <2>3 DEF CopyInv
    <3>2. PICK m \in Name : OnLow(m) /\ low[m] = l
      BY <2>3 DEF Alive
    <3>3. Visible(m) /\ up[m] = None
      BY <3>2 DEF OnLow, Visible
    <3>4. dent[m] # 0
      BY <1>2, <2>1, <3>3 DEF JobInv
    <3>5. dent[m] \in Ino /\ H1(dent[m]) = l
      BY <1>1, <3>2, <3>3, <3>4 DEF DentInv, TypeOK
    <3>6. dent[m] = j
      BY <2>1, <3>1, <3>5 DEF NumInv
    <3>. QED BY <1>2, <2>1, <3>1, <3>2, <3>6 DEF JobInv
  <2>4. CopyInv'
    BY <1>2, <1>5, <2>1, <2>3 DEF CopyInv
  <2>5. job'.pc = "rm" /\ job'.links = job.links
    BY <1>1, <1>2 DEF TypeOK
  <2>6. ListInv'
    BY <1>2, <2>5 DEF ListInv
  <2>7. JobInv'
    BY <1>2, <1>5, <2>1, <2>5 DEF JobInv
  <2>. QED BY <1>2, <2>1, <2>2, <2>4, <2>6, <2>7 DEF DeepInv
<1>. QED BY <1>2, <1>6, <1>7 DEF Conditional, Mild

(* The links are removed when nothing needs them any more. *)
LEMMA RmDeep ==
    ASSUME Steady, BaseInv, Conditional, AuplinkRm
    PROVE  Conditional'
<1>1. TypeOK /\ CoreInv /\ DentInv
  BY DEF BaseInv
<1>2. /\ job.pc = "rm" /\ pldir' = pldir \ job.links /\ job' = Idle
      /\ low' = low /\ up' = up /\ wh' = wh /\ data' = data
      /\ xon' = xon /\ xino' = xino /\ dent' = dent /\ inode' = inode
      /\ list' = list /\ fails' = fails /\ fid' = fid
  BY DEF AuplinkRm, ghost
<1>3. /\ \A l \in LowIno : Alive(l)' <=> Alive(l)
      /\ \A u \in UpIno : (Linked(u)' => Linked(u)) /\ FileOf(u)' = FileOf(u)
      /\ \A u \in UpIno : (\E m \in Name : up[m] = u) => Linked(u)'
      /\ \A j \in Ino : H0(j)' = H0(j) /\ H1(j)' = H1(j)
  BY <1>2 DEF OnLow, Alive, Linked, FileOf, H0, H1
<1>4. FileInv => FileInv'
  BY <1>2, <1>3 DEF FileInv
<1>5. ASSUME DeepInv PROVE DeepInv'
  <2>1. xon /\ NumInv /\ CopyInv /\ ListInv /\ JobInv
    BY <1>5 DEF DeepInv
  <2>2. list = {} /\ pldir' = {}
    BY <1>2, <2>1 DEF JobInv
  <2>3. NumInv'
    <3>1. ASSUME NEW j \in Ino, NEW u \in UpIno, H0(j) = u PROVE Linked(u)'
      <4>1. u # None /\ j # 0
        BY PlinkAssumption DEF Ino
      <4>2. PICK m \in Name : dent[m] = j
        BY <1>1, <2>2, <3>1, <4>1 DEF CoreInv, TypeOK
      <4>3. up[m] = None => OnLow(m)
        BY <1>1, <4>1, <4>2 DEF DentInv, OnLow, Visible
      <4>4. up[m] # None
        BY <1>5, <2>2, <3>1, <4>2, <4>3, HoldLinked
      <4>5. up[m] = u
        BY <1>1, <3>1, <4>1, <4>2, <4>4 DEF DentInv
      <4>. QED BY <1>3, <4>5
    <3>. QED BY <1>2, <1>3, <2>1, <3>1 DEF NumInv
  <2>4. \A l \in LowIno, u \in UpIno : ~(Alive(l) /\ Linked(u) /\ FileOf(u) = l)
    BY <2>1, <2>2 DEF CopyInv
  <2>5. CopyInv'
    BY <1>2, <1>3, <2>1, <2>4 DEF CopyInv
  <2>6. ListInv'
    BY <1>2, <2>2 DEF ListInv
  <2>7. JobInv'
    BY <1>2, <2>2 DEF JobInv, Idle
  <2>. QED BY <1>2, <2>1, <2>3, <2>5, <2>6, <2>7 DEF DeepInv
<1>. QED BY <1>2, <1>4, <1>5 DEF Conditional, Mild

LEMMA InitDeep == Init => Conditional
<1>. SUFFICES ASSUME Init PROVE FileInv /\ DeepInv
  BY DEF Conditional
<1>1. \A i \in Ino : H0(i) = None /\ H1(i) = None
  BY DEF Init, H0, H1, NoInode
<1>2. /\ \A u \in UpIno : u # None /\ u \in Inode /\ ~Linked(u)
      /\ \A l \in LowIno : l # None /\ l \in Inode
  BY PlinkAssumption DEF Init, Linked, Inode
<1>3. FileInv
  BY <1>1, <1>2 DEF FileInv, Init
<1>4. NumInv /\ CopyInv
  BY <1>1, <1>2 DEF NumInv, CopyInv, Init
<1>5. ListInv /\ JobInv
  BY DEF ListInv, JobInv, Init, Idle
<1>. QED BY <1>3, <1>4, <1>5 DEF DeepInv, Init

LEMMA NextDeep ==
    ASSUME Steady, BaseInv, Conditional, [Next]_vars
    PROVE  Conditional'
<1>1. CASE UNCHANGED vars
  <2>1. /\ \A m \in Name : (OnLow(m)' <=> OnLow(m)) /\ (Visible(m)' <=> Visible(m))
        /\ \A l \in LowIno : Alive(l)' <=> Alive(l)
        /\ \A u \in UpIno : (Linked(u)' <=> Linked(u)) /\ FileOf(u)' = FileOf(u)
        /\ \A j \in Ino : H0(j)' = H0(j) /\ H1(j)' = H1(j)
    BY <1>1 DEF vars, OnLow, Visible, Alive, Linked, FileOf, H0, H1
  <2>2. list \subseteq Ino
    BY DEF BaseInv, TypeOK
  <2>3. FileInv => FileInv'
    BY <1>1, <2>1 DEF FileInv, vars, ghost
  <2>4. DeepInv => DeepInv'
    BY <1>1, <2>1, <2>2 DEF DeepInv, NumInv, CopyInv, ListInv, JobInv, vars
  <2>. QED BY <1>1, <2>3, <2>4 DEF Conditional, Mild, vars
<1>2. CASE Next
  <2>1. CASE \E n \in Name : Lookup(n) \/ Readdir(n) \/ Shrink(n) \/ Unlink(n)
    BY <2>1, LookupDeep, ReaddirDeep, DropDeep
  <2>2. CASE \E n \in Name, f \in NewFile : Create(n, f)
    BY <2>2, CreateDeep
  <2>3. CASE \E s, n \in Name, w \in 0 .. 1, x \in 0 .. 1, u \in UpIno :
                 Frame(s, n, w) /\ JoinRel(s, n, u, x)
    <3>1. PICK s \in Name, n \in Name, w \in 0 .. 1, x \in 0 .. 1, u \in UpIno :
                 Frame(s, n, w) /\ JoinRel(s, n, u, x)
      BY <2>3
    <3>2. PICK i \in Ino : i = dent[s]
      BY <3>1 DEF BaseInv, TypeOK, Frame
    <3>. QED BY <3>1, <3>2, JoinDeep
  <2>4. CASE \E s, n \in Name, w \in 0 .. 1, h \in UpIno, r \in {"ok", "xino", "nomem", "link"} :
                 Frame(s, n, w) /\ CopyRel(s, n, h, r, w)
    <3>1. PICK s \in Name, n \in Name, w \in 0 .. 1, h \in UpIno,
               r \in {"ok", "xino", "nomem", "link"} : Frame(s, n, w) /\ CopyRel(s, n, h, r, w)
      BY <2>4
    <3>2. PICK i \in Ino : i = dent[s]
      BY <3>1 DEF BaseInv, TypeOK, Frame
    <3>. QED BY <3>1, <3>2, CopyDeep
  <2>5. CASE JobOnly \/ AuplinkClean \/ AuplinkRm
    BY <2>5, JobDeep, CleanDeep, RmDeep
  <2>. QED BY <1>2, <2>1, <2>2, <2>3, <2>4, <2>5, Steps
<1>. QED BY <1>1, <1>2

(* The invariant of the union with one value of i_generation in which       *)
(* nothing runs beside auplink.                                             *)
THEOREM DeepHolds ==
    ASSUME Steady
    PROVE  Spec => [](BaseInv /\ Conditional)
<1>1. Init => BaseInv /\ Conditional
  BY InitBase, InitDeep
<1>2. BaseInv /\ Conditional /\ [Next]_vars => BaseInv' /\ Conditional'
  BY NextBase, NextDeep
<1>. QED BY <1>1, <1>2, PTL DEF Spec

-----------------------------------------------------------------------------
(* The properties. *)

(* The number of a cached name is the one the tables have for its file. *)
LEMMA NameNumber ==
    ASSUME BaseInv, DeepInv, NEW n \in Name, Cached(n)
    PROVE  /\ dent[n] \in Ino /\ xino[Hidden(n)] = dent[n]
           /\ \/ OnLow(n) /\ low[n] \in LowIno /\ Hidden(n) = low[n] /\ fid[n] = low[n]
                 /\ H1(dent[n]) = low[n]
              \/ up[n] \in UpIno /\ Hidden(n) = up[n] /\ H0(dent[n]) = up[n] /\ Linked(up[n])
<1>1. TypeOK /\ DentInv /\ BornInv /\ NumInv
  BY DEF BaseInv, DeepInv
<1>2. dent[n] # 0 /\ Visible(n) /\ dent[n] \in Ino
  BY <1>1 DEF Cached, TypeOK
<1>3. CASE OnLow(n)
  <2>1. low[n] \in LowIno /\ Hidden(n) = low[n] /\ fid[n] = low[n] /\ H1(dent[n]) = low[n]
    BY <1>1, <1>2, <1>3, Levels DEF BornInv, DentInv
  <2>. QED BY <1>1, <1>2, <1>3, <2>1 DEF NumInv
<1>4. CASE up[n] \in UpIno
  <2>1. Hidden(n) = up[n] /\ H0(dent[n]) = up[n] /\ Linked(up[n])
    BY <1>1, <1>2, <1>4, Levels DEF DentInv, Linked
  <2>. QED BY <1>1, <1>2, <1>4, <2>1 DEF NumInv
<1>. QED BY <1>1, <1>2, <1>3, <1>4, Levels

LEMMA IdentityHere ==
    ASSUME BaseInv, Conditional
    PROVE  Identity
<1>. SUFFICES ASSUME fails = 0
              PROVE  /\ \A n, m \in Name : Cached(n) /\ Cached(m) => (dent[n] = dent[m] <=> fid[n] = fid[m])
                     /\ \A n \in Name : Cached(n) => xino[Hidden(n)] = dent[n]
  BY DEF Identity
<1>1. DeepInv /\ FileInv /\ NumInv /\ CopyInv /\ TypeOK
  BY DEF Conditional, Mild, DeepInv, BaseInv
<1>2. \A n \in Name : Cached(n) => xino[Hidden(n)] = dent[n]
  BY <1>1, NameNumber
<1>3. ASSUME NEW n \in Name, NEW m \in Name, Cached(n), Cached(m), OnLow(n), up[m] \in UpIno
      PROVE  dent[n] = dent[m] <=> fid[n] = fid[m]
  <2>1. /\ low[n] \in LowIno /\ xino[low[n]] = dent[n] /\ fid[n] = low[n] /\ Alive(low[n])
        /\ xino[up[m]] = dent[m] /\ FileOf(up[m]) = fid[m] /\ Linked(up[m])
        /\ dent[n] # 0 /\ dent[m] \in Ino /\ H0(dent[m]) = up[m]
    BY <1>1, <1>3, NameNumber, Levels, PlinkAssumption DEF FileInv, OnLow, Cached
  <2>2. dent[n] = dent[m] => FileOf(up[m]) = low[n]
    BY <1>1, <1>3, <2>1 DEF CopyInv
  <2>3. FileOf(up[m]) = low[n] => \E j \in list : xino[low[n]] = j /\ H0(j) = up[m]
    BY <1>1, <1>3, <2>1 DEF CopyInv
  <2>4. FileOf(up[m]) = low[n] => H0(dent[n]) = up[m] /\ dent[n] \in Ino
    BY <1>1, <2>1, <2>3 DEF TypeOK
  <2>5. FileOf(up[m]) = low[n] => dent[n] = dent[m]
    BY <1>1, <1>3, <2>1, <2>4 DEF NumInv
  <2>. QED BY <2>1, <2>2, <2>5
<1>4. ASSUME NEW n \in Name, NEW m \in Name, Cached(n), Cached(m), OnLow(n), OnLow(m)
      PROVE  dent[n] = dent[m] <=> fid[n] = fid[m]
  <2>1. /\ low[n] \in LowIno /\ xino[low[n]] = dent[n] /\ fid[n] = low[n]
        /\ low[m] \in LowIno /\ xino[low[m]] = dent[m] /\ fid[m] = low[m] /\ dent[n] # 0
    BY <1>1, <1>4, NameNumber, Levels, PlinkAssumption DEF OnLow, Cached
  <2>. QED BY <1>1, <2>1 DEF NumInv
<1>5. ASSUME NEW n \in Name, NEW m \in Name, Cached(n), Cached(m), up[n] \in UpIno, up[m] \in UpIno
      PROVE  dent[n] = dent[m] <=> fid[n] = fid[m]
  <2>1. /\ xino[up[n]] = dent[n] /\ FileOf(up[n]) = fid[n] /\ Linked(up[n]) /\ H0(dent[n]) = up[n]
        /\ xino[up[m]] = dent[m] /\ FileOf(up[m]) = fid[m] /\ Linked(up[m]) /\ H0(dent[m]) = up[m]
    BY <1>1, <1>5, NameNumber, Levels, PlinkAssumption DEF FileInv, OnLow
  <2>. QED BY <1>1, <1>5, <2>1 DEF CopyInv
<1>6. \A n \in Name : Cached(n) => OnLow(n) \/ up[n] \in UpIno
  BY <1>1, Levels DEF Cached
<1>7. \A n, m \in Name : Cached(n) /\ Cached(m) => (dent[n] = dent[m] <=> fid[n] = fid[m])
  BY <1>3, <1>4, <1>5, <1>6
<1>. QED BY <1>2, <1>7

(* As long as nothing failed, two cached names have the same inode number   *)
(* exactly if they are links to one file, and it is the number in the       *)
(* tables: the Identity of xino and plink, for any number of names, inodes  *)
(* and files.                                                               *)
THEOREM IdentitySafe ==
    ASSUME Steady
    PROVE  Spec => []Identity
<1>1. BaseInv /\ Conditional => Identity
  BY IdentityHere
<1>. QED BY <1>1, DeepHolds, PTL

LEMMA NoForeignHere ==
    ASSUME BaseInv, FileInv
    PROVE  NoForeign
<1>1. TypeOK /\ CoreInv /\ DentInv /\ BornInv
  BY DEF BaseInv
<1>2. ASSUME NEW n \in Name, Cached(n)
      PROVE  ReadOf(n) = None \/ ReadOf(n).f = fid[n]
  <2>1. dent[n] \in Ino /\ Visible(n) /\ dent[n] # 0
    BY <1>1, <1>2 DEF Cached, TypeOK
  <2>2. CASE up[n] # None
    <3>1. up[n] \in UpIno /\ ReadOf(n) = data[up[n]]
      BY <1>1, <2>2, Levels DEF ReadOf, Top, Content
    <3>. QED BY <3>1 DEF FileInv, FileOf
  <2>3. CASE up[n] = None
    <3>1. OnLow(n) /\ low[n] \in LowIno /\ fid[n] = low[n] /\ H1(dent[n]) = low[n]
      BY <1>1, <2>1, <2>3, Levels DEF OnLow, Visible, BornInv, DentInv
    <3>2. Content(n).f = low[n]
      BY <2>3 DEF Content
    <3>3. H0(dent[n]) \in UpIno => data[H0(dent[n])].f = low[n]
      BY <2>1, <3>1 DEF FileInv, FileOf
    <3>4. H0(dent[n]) \in UpIno \cup {None}
      BY <1>1, <2>1 DEF CoreInv
    <3>5. \/ ReadOf(n) = Content(n) \/ ReadOf(n) = None
          \/ H0(dent[n]) # None /\ ReadOf(n) = data[H0(dent[n])]
      BY DEF ReadOf, H0
    <3>. QED BY <3>1, <3>2, <3>3, <3>4, <3>5
  <2>. QED BY <2>2, <2>3
<1>. QED BY <1>2 DEF NoForeign

(* As long as pseudo links do not fail, a name never shows the contents of  *)
(* another file, also when the tables are lost at any moment.               *)
THEOREM NoForeignSafe ==
    ASSUME Steady, Fault \subseteq {"xino"}
    PROVE  Spec => []NoForeign
<1>1. BaseInv /\ Conditional => NoForeign
  BY NoForeignHere DEF Conditional, Mild
<1>. QED BY <1>1, DeepHolds, PTL

-----------------------------------------------------------------------------
(* Every name shows the last write. *)

(* The copy of a file has all its writes; a file without a copy that has a  *)
(* name on branch 1 was never written.                                      *)
VerInv ==
    /\ \A u \in UpIno, f \in File : Linked(u) /\ FileOf(u) = f => data[u].v = ver[f]
    /\ \A l \in LowIno :
          Alive(l) /\ (\A u \in UpIno : Linked(u) => FileOf(u) # l) => ver[l] = 0

(* Links and names only go, and the copy of a file with names on branch 1   *)
(* keeps its link.                                                          *)
LEMMA LessVer ==
    ASSUME VerInv, data' = data, ver' = ver,
           \A u \in UpIno : Linked(u)' => Linked(u),
           \A l \in LowIno : Alive(l)' => Alive(l),
           \A l \in LowIno, u \in UpIno : Alive(l)' /\ Linked(u) /\ FileOf(u) = l => Linked(u)'
    PROVE  VerInv'
<1>1. \A u \in UpIno : FileOf(u)' = FileOf(u)
  BY DEF FileOf
<1>. QED BY <1>1 DEF VerInv

LEMMA CreateVer ==
    ASSUME BaseInv, VerInv, NEW n \in Name, NEW f \in NewFile, Create(n, f)
    PROVE  VerInv'
<1>1. TypeOK /\ BornInv
  BY DEF BaseInv
<1>2. PICK h \in UpIno :
        /\ Free(h)
        /\ up' = [up EXCEPT ![n] = h]
        /\ data' = [data EXCEPT ![h] = [f |-> f, v |-> 0]]
  BY DEF Create
<1>3. /\ ~Visible(n) /\ wh' = wh \ {n} /\ low' = low /\ pldir' = pldir
      /\ ver' = [ver EXCEPT ![f] = 0] /\ ver[f] = -1 /\ f \in File
  BY DEF Create, File
<1>4. up[n] = None /\ ~Linked(h) /\ h # None
  BY <1>2, <1>3, PlinkAssumption DEF Visible, Free
<1>5. /\ up'[n] = h /\ \A m \in Name \ {n} : up'[m] = up[m]
      /\ \A l \in LowIno : Alive(l)' => Alive(l)
  BY <1>1, <1>2, <1>3, UpSet
<1>6. /\ \A u \in UpIno : Linked(u)' <=> u = h \/ Linked(u)
      /\ data'[h].v = 0 /\ FileOf(h)' = f
      /\ \A u \in UpIno \ {h} : data'[u] = data[u] /\ FileOf(u)' = FileOf(u)
  <2>1. \A u \in UpIno : u # None
    BY PlinkAssumption
  <2>2. \A u \in UpIno : Linked(u)' <=> u = h \/ Linked(u)
    BY <1>3, <1>4, <1>5, <2>1 DEF Linked
  <2>. QED BY <1>1, <1>2, <2>2 DEF TypeOK, FileOf
<1>7. ver'[f] = 0 /\ \A k \in File \ {f} : ver'[k] = ver[k]
  BY <1>1, <1>3 DEF TypeOK
<1>8. /\ \A u \in UpIno : Linked(u) => FileOf(u) # f
      /\ \A l \in LowIno : l # f /\ l \in File
  BY <1>1, <1>3, PlinkAssumption DEF BornInv, File
<1>9. \A u \in UpIno, k \in File : Linked(u)' /\ FileOf(u)' = k => data'[u].v = ver'[k]
  BY <1>4, <1>6, <1>7, <1>8 DEF VerInv
<1>10. \A l \in LowIno :
          Alive(l)' /\ (\A u \in UpIno : Linked(u)' => FileOf(u)' # l) => ver'[l] = 0
  BY <1>4, <1>5, <1>6, <1>7, <1>8 DEF VerInv
<1>. QED BY <1>9, <1>10 DEF VerInv

LEMMA JoinVer ==
    ASSUME BaseInv, DeepInv, VerInv, NEW s \in Name, NEW n \in Name, NEW w \in 0 .. 1,
           NEW u \in UpIno, FileOf(u) = fid[s], Frame(s, n, w), JoinRel(s, n, u, w)
    PROVE  VerInv'
<1>1. TypeOK /\ BornInv /\ CopyInv
  BY DEF BaseInv, DeepInv
<1>2. \A t \in UpIno : (Linked(t)' <=> Linked(t)) /\ FileOf(t)' = FileOf(t)
  BY JoinLinked DEF BaseInv
<1>3. \A l \in LowIno : (Alive(l)' => Alive(l)) /\ l \in File
  BY <1>1, UpSet DEF Frame, JoinRel, File
<1>4. /\ Linked(u) /\ data'[u].v = data[u].v + w
      /\ \A t \in UpIno \ {u} : data'[t] = data[t]
      /\ \A f \in File : ver'[f] = IF f = fid[s] THEN ver[f] + w ELSE ver[f]
  BY DEF JoinRel, Frame
<1>5. \A t \in UpIno, f \in File : Linked(t)' /\ FileOf(t)' = f => data'[t].v = ver'[f]
  <2>1. \A t \in UpIno \ {u} : Linked(t) => FileOf(t) # fid[s]
    BY <1>1, <1>4 DEF CopyInv
  <2>. QED BY <1>2, <1>4, <2>1 DEF VerInv
<1>6. \A l \in LowIno :
          Alive(l)' /\ (\A t \in UpIno : Linked(t)' => FileOf(t)' # l) => ver'[l] = 0
  BY <1>2, <1>3, <1>4 DEF VerInv
<1>. QED BY <1>5, <1>6 DEF VerInv

LEMMA CopyVer ==
    ASSUME BaseInv, DeepInv, VerInv, NEW s \in Name, NEW n \in Name, NEW w \in 0 .. 1,
           NEW r \in {"ok", "xino", "nomem", "link"}, NEW h \in UpIno,
           NEW i \in Ino, i = dent[s], Frame(s, n, w), CopyRel(s, n, h, r, w)
    PROVE  VerInv'
<1>1. TypeOK /\ BornInv
  BY DEF BaseInv
<1>2. /\ low[s] \in LowIno /\ fid[s] = low[s] /\ ~Linked(h)
      /\ \A t \in UpIno : /\ Linked(t)' <=> t = h \/ Linked(t)
                          /\ FileOf(t)' = (IF t = h THEN low[s] ELSE FileOf(t))
  BY CopyFacts
<1>3. \A l \in LowIno : (Alive(l)' => Alive(l)) /\ l \in File
  BY <1>1, UpSet DEF Frame, CopyRel, File
<1>4. OnLow(s) /\ (H0(i) = None \/ ~Linked(H0(i)))
  BY DEF CopyRel
<1>5. Alive(low[s]) /\ \A t \in UpIno : Linked(t) => FileOf(t) # low[s]
  BY <1>4, NoCopyYet
<1>6. ver[low[s]] = 0
  BY <1>2, <1>5 DEF VerInv
<1>7. /\ data'[h].v = w /\ \A t \in UpIno \ {h} : data'[t] = data[t]
      /\ \A f \in File : ver'[f] = IF f = low[s] THEN ver[f] + w ELSE ver[f]
  BY <1>1, <1>2 DEF CopyRel, Frame, TypeOK
<1>8. \A t \in UpIno, f \in File : Linked(t)' /\ FileOf(t)' = f => data'[t].v = ver'[f]
  BY <1>2, <1>5, <1>6, <1>7 DEF VerInv
<1>9. \A l \in LowIno :
          Alive(l)' /\ (\A t \in UpIno : Linked(t)' => FileOf(t)' # l) => ver'[l] = 0
  BY <1>2, <1>3, <1>7 DEF VerInv
<1>. QED BY <1>8, <1>9 DEF VerInv

(* The steps that write nothing. *)
LEMMA StillVer ==
    ASSUME VerInv, UNCHANGED <<low, up, wh, pldir, data, ver>>
    PROVE  VerInv'
<1>1. /\ \A u \in UpIno : Linked(u)' <=> Linked(u)
      /\ \A l \in LowIno : Alive(l)' <=> Alive(l)
  BY DEF Linked, Alive, OnLow
<1>. QED BY <1>1, LessVer

LEMMA LessLinkedVer ==
    ASSUME BaseInv, DeepInv, VerInv, AuplinkRm \/ \E n \in Name : Unlink(n)
    PROVE  VerInv'
<1>1. TypeOK /\ CopyInv /\ JobInv
  BY DEF BaseInv, DeepInv
<1>2. CASE AuplinkRm
  <2>1. job.pc = "rm" /\ pldir' = pldir \ job.links /\ data' = data /\ ver' = ver
        /\ up' = up /\ low' = low /\ wh' = wh
    BY <1>2 DEF AuplinkRm, ghost
  <2>2. /\ \A u \in UpIno : Linked(u)' => Linked(u)
        /\ \A l \in LowIno : Alive(l)' <=> Alive(l)
    BY <2>1 DEF Linked, Alive, OnLow
  <2>3. \A l \in LowIno, u \in UpIno : ~(Alive(l) /\ Linked(u) /\ FileOf(u) = l)
    BY <1>1, <2>1 DEF CopyInv, JobInv
  <2>. QED BY <2>1, <2>2, <2>3, LessVer
<1>3. ASSUME NEW n \in Name, Unlink(n) PROVE VerInv'
  <2>1. /\ up' = [up EXCEPT ![n] = None] /\ low' = low /\ pldir' = pldir
        /\ data' = data /\ ver' = ver
        /\ wh' = IF low[n] = None THEN wh ELSE wh \cup {n}
    BY <1>3 DEF Unlink
  <2>2. up'[n] = None /\ \A m \in Name \ {n} : up'[m] = up[m]
    BY <1>1, <2>1 DEF TypeOK
  <2>3. \A m \in Name : OnLow(m)' => OnLow(m)
    BY <2>1, <2>2 DEF OnLow
  <2>4. \A l \in LowIno : Alive(l)' => Alive(l)
    BY <2>1, <2>3 DEF Alive
  <2>5. \A u \in UpIno : Linked(u)' => Linked(u)
    <3>1. \A u \in UpIno : u # None
      BY PlinkAssumption
    <3>. QED BY <2>1, <2>2, <3>1 DEF Linked
  <2>6. ASSUME NEW l \in LowIno, NEW u \in UpIno, Alive(l), Linked(u), FileOf(u) = l
        PROVE  Linked(u)'
    <3>1. PICK j \in list : <<j, u>> \in pldir
      BY <1>1, <2>6 DEF CopyInv
    <3>2. <<j, u>>[2] = u
      OBVIOUS
    <3>. QED BY <2>1, <3>1, <3>2 DEF Linked
  <2>. QED BY <2>1, <2>4, <2>5, <2>6, LessVer
<1>. QED BY <1>2, <1>3

Written == fails = 0 => VerInv

LEMMA NextVer ==
    ASSUME Steady, ~Unfollowed, BaseInv, Conditional, Written, [Next]_vars
    PROVE  Written'
<1>. SUFFICES ASSUME fails' = 0 PROVE VerInv'
  BY DEF Written
<1>1. CASE UNCHANGED vars
  BY <1>1, StillVer DEF Written, vars, ghost
<1>2. CASE Next
  <2>1. CASE \E n \in Name : Lookup(n) \/ Readdir(n) \/ Shrink(n)
    <3>1. UNCHANGED <<low, up, wh, pldir, data, ver>>
      BY <2>1 DEF Lookup, Readdir, Shrink, ghost
    <3>2. fails = 0
      <4>1. ASSUME NEW n \in Name, Lookup(n) PROVE fails = 0
        <5>1. PICK r \in Outcome({"xino"}) : Count(r)
          BY <4>1 DEF Lookup, Instantiate
        <5>. QED BY <5>1, OutcomeCount DEF BaseInv
      <4>. QED BY <2>1, <4>1 DEF Readdir, Shrink
    <3>. QED BY <3>1, <3>2, StillVer DEF Written
  <2>2. CASE \E n \in Name : Unlink(n)
    BY <2>2, LessLinkedVer DEF Unlink, Written, Conditional
  <2>3. ASSUME NEW n \in Name, NEW f \in NewFile, Create(n, f) PROVE VerInv'
    <3>1. fails = 0
      <4>1. PICK r \in Outcome({"xino"}) : Count(r)
        BY <2>3 DEF Create, Instantiate
      <4>. QED BY <4>1, OutcomeCount DEF BaseInv
    <3>. QED BY <2>3, <3>1, CreateVer DEF Written
  <2>4. CASE \E s, n \in Name, w \in 0 .. 1, x \in 0 .. 1, u \in UpIno :
                 Frame(s, n, w) /\ JoinRel(s, n, u, x) /\ (x = w \/ Unfollowed)
    <3>1. PICK s \in Name, n \in Name, w \in 0 .. 1, u \in UpIno :
                 Frame(s, n, w) /\ JoinRel(s, n, u, w)
      BY <2>4
    <3>2. PICK i \in Ino : i = dent[s]
      BY <3>1 DEF BaseInv, TypeOK, Frame
    <3>3. FileOf(u) = fid[s]
      BY <3>1, <3>2, JoinDeep DEF Mild
    <3>4. fails = 0
      BY <3>1 DEF JoinRel
    <3>. QED BY <3>1, <3>3, <3>4, JoinVer DEF Written, Conditional
  <2>5. CASE \E s, n \in Name, w \in 0 .. 1, h \in UpIno, r \in {"ok", "xino", "nomem", "link"} :
                 Frame(s, n, w) /\ CopyRel(s, n, h, r, w)
    <3>1. PICK s \in Name, n \in Name, w \in 0 .. 1, h \in UpIno,
               r \in {"ok", "xino", "nomem", "link"} : Frame(s, n, w) /\ CopyRel(s, n, h, r, w)
      BY <2>5
    <3>2. PICK i \in Ino : i = dent[s]
      BY <3>1 DEF BaseInv, TypeOK, Frame
    <3>3. fails = 0
      BY <3>1 DEF CopyRel
    <3>. QED BY <3>1, <3>2, <3>3, CopyVer DEF Written, Conditional
  <2>6. CASE JobOnly \/ AuplinkClean
    BY <2>6, StillVer DEF JobOnly, AuplinkClean, ghost, Written
  <2>7. CASE AuplinkRm
    BY <2>7, LessLinkedVer DEF AuplinkRm, Written, Conditional
  <2>. QED BY <1>2, <2>1, <2>2, <2>3, <2>4, <2>5, <2>6, <2>7, Steps
<1>. QED BY <1>1, <1>2

LEMMA InitVer == Init => Written
<1>. SUFFICES ASSUME Init PROVE VerInv
  BY DEF Written
<1>1. \A u \in UpIno : ~Linked(u)
  BY PlinkAssumption DEF Init, Linked
<1>2. \A l \in LowIno : l \in File /\ ver[l] = 0
  BY DEF Init, File
<1>. QED BY <1>1, <1>2 DEF VerInv

LEMMA DataHere ==
    ASSUME BaseInv, Conditional, Written
    PROVE  DataRight
<1>. SUFFICES ASSUME fails = 0, NEW n \in Name, Cached(n)
              PROVE  ReadOf(n) = [f |-> fid[n], v |-> ver[fid[n]]]
  BY DEF DataRight
<1>1. DeepInv /\ FileInv /\ VerInv /\ TypeOK /\ CoreInv /\ NumInv /\ CopyInv /\ BornInv
  BY DEF Conditional, Mild, Written, DeepInv, BaseInv
<1>2. \A u \in UpIno : data[u] = [f |-> FileOf(u), v |-> data[u].v]
  BY <1>1 DEF TypeOK, FileOf
<1>3. ASSUME NEW u \in UpIno, Linked(u), FileOf(u) = fid[n], ReadOf(n) = data[u]
      PROVE  ReadOf(n) = [f |-> fid[n], v |-> ver[fid[n]]]
  <2>1. fid[n] \in File
    BY <1>1, <1>3 DEF BornInv
  <2>2. data[u].v = ver[fid[n]]
    BY <1>1, <1>3, <2>1 DEF VerInv
  <2>. QED BY <1>2, <1>3, <2>2
<1>4. CASE up[n] # None
  <2>1. up[n] \in UpIno /\ Linked(up[n]) /\ ReadOf(n) = data[up[n]]
    BY <1>1, <1>4, Levels DEF Linked, ReadOf, Top, Content
  <2>2. FileOf(up[n]) = fid[n]
    BY <1>1, <2>1 DEF FileInv
  <2>. QED BY <1>3, <2>1, <2>2
<1>5. CASE up[n] = None
  <2>1. /\ OnLow(n) /\ dent[n] \in Ino /\ low[n] \in LowIno /\ fid[n] = low[n]
        /\ Alive(low[n]) /\ xino[low[n]] = dent[n]
    BY <1>1, <1>5, NameNumber, Levels, PlinkAssumption
  <2>2. CASE H0(dent[n]) \in UpIno
    <3>1. PICK u \in UpIno : H0(dent[n]) = u
      BY <2>2
    <3>2. dent[n] \in list /\ <<dent[n], u>> \in pldir /\ FileOf(u) = low[n]
      BY <1>1, <2>1, <3>1, HoldLinked
    <3>3. Linked(u) /\ u # None
      BY <1>1, <2>1, <3>1, PlinkAssumption DEF NumInv
    <3>4. ReadOf(n) = data[u]
      BY <1>5, <3>1, <3>2, <3>3 DEF ReadOf, Top, H0
    <3>. QED BY <1>3, <2>1, <3>2, <3>3, <3>4
  <2>3. CASE H0(dent[n]) = None
    <3>1. ReadOf(n) = [f |-> low[n], v |-> 0]
      BY <1>5, <2>3 DEF ReadOf, H0, Content
    <3>2. ASSUME NEW u \in UpIno, Linked(u), FileOf(u) = low[n] PROVE FALSE
      <4>1. \E j \in list : xino[low[n]] = j /\ H0(j) = u
        BY <1>1, <2>1, <3>2 DEF CopyInv
      <4>2. u # None
        BY PlinkAssumption
      <4>. QED BY <2>1, <2>3, <4>1, <4>2
    <3>3. ver[low[n]] = 0
      BY <1>1, <2>1, <3>2 DEF VerInv
    <3>. QED BY <2>1, <3>1, <3>3
  <2>. QED BY <1>1, <2>1, <2>2, <2>3 DEF CoreInv
<1>. QED BY <1>4, <1>5

(* As long as nothing failed, a read through any cached name returns the    *)
(* last write to the file through any of its names, whatever was copied up, *)
(* linked, removed, shrunk or flushed before: for any number of names,      *)
(* hidden inodes and files.                                                 *)
THEOREM DataSafe ==
    ASSUME Steady, ~Unfollowed
    PROVE  Spec => []DataRight
<1>1. Init => Written
  BY InitVer
<1>2. BaseInv /\ Conditional /\ Written /\ [Next]_vars => Written'
  BY NextVer
<1>3. BaseInv /\ Conditional /\ Written => DataRight
  BY DataHere
<1>. QED BY <1>1, <1>2, <1>3, DeepHolds, PTL DEF Spec

=============================================================================
