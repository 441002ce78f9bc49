--------------------------- MODULE ProductProofs ----------------------------
(***************************************************************************)
(* What sellers do, for any number of sellers, requests, products and      *)
(* images.  Three facts carry the proofs: a product keeps its seller, so   *)
(* that the look-up of the owner stays true until the write; the key of an *)
(* object names its product; and a request whose count of images is not    *)
(* stale knows the position that comes next.                               *)
(***************************************************************************)
EXTENDS ProductAdmin, FiniteSetTheorems, TLAPS

(* What a request may rely on. *)
DeskSound(d) ==
    /\ desk[d].pc # "idle" =>
           /\ desk[d].product \in ProductIds
           /\ products[desk[d].product].seller = desk[d].seller
           /\ desk[d].seller \in Sellers
    /\ desk[d].pc \in {"idle", "update", "archive"} => desk[d].upload = 0
    /\ desk[d].upload # 0 =>
           /\ uploads[desk[d].upload].product = desk[d].product
           /\ uploads[desk[d].upload].file \in FileNames
           /\ ~ desk[d].stale => desk[d].position = Cardinality(ImagesOf(desk[d].product))
    /\ desk[d].pc \in {"store", "insert"} => desk[d].upload # 0
    /\ desk[d].pc = "insert" => bucket[ProductImageKey(desk[d].upload)] # 0
DesksSound == \A d \in Desks : DeskSound(d)

(* An object is at the key of its upload; an image leads to an object at   *)
(* the key of its own upload.                                              *)
ObjectsSound ==
    \A p \in ProductIds, f \in FileNames :
        bucket[<<p, f>>] # 0 =>
            uploads[bucket[<<p, f>>]].product = p /\ uploads[bucket[<<p, f>>]].file = f
ImagesSound ==
    \A i \in images :
        /\ i.url = ProductImageKey(i.upload)
        /\ uploads[i.upload].product = i.product
        /\ uploads[i.upload].file \in FileNames
        /\ bucket[i.url] # 0

ProductInv ==
    /\ ProductAdminTypeOK /\ DesksSound /\ ObjectsSound /\ ImagesSound
    /\ IsFiniteSet(images) /\ PositionsInOrderUnlessRaced

(***************************************************************************)
(* What the steps do to the requests                                       *)
(***************************************************************************)
LEMMA OneDesk ==
    ASSUME desk \in [Desks -> Desk], NEW d \in Desks, NEW rec \in Desk,
           desk' = [desk EXCEPT ![d] = rec]
    PROVE  /\ desk' \in [Desks -> Desk]
           /\ desk'[d] = rec
           /\ \A e \in Desks : e # d => desk'[e] = desk[e]
OBVIOUS

LEMMA IdleDeskIsDesk ==
    /\ NoChange \in Change
    /\ IdleDesk \in Desk
    /\ IdleDesk.pc = "idle" /\ IdleDesk.upload = 0
BY DEF IdleDesk, Desk, NoChange, Change

(* A request begins, for a product of its seller. *)
Asked(d) ==
    /\ desk' \in [Desks -> Desk]
    /\ desk[d].pc = "idle"
    /\ desk'[d].seller \in Sellers /\ desk'[d].product \in ProductIds
    /\ MayEdit(desk'[d].seller, desk'[d].product)
    /\ desk'[d].pc \in {"update", "archive", "store"}
    /\ desk'[d].stale = FALSE
    /\ \A e \in Desks : e # d => desk'[e] = desk[e]
    /\ UNCHANGED <<catalogVars, images, bucket, raced, faults>>
AskedToEdit(d) ==
    /\ Asked(d) /\ UNCHANGED uploads
    /\ desk'[d].pc # "store" /\ desk'[d].upload = 0
    /\ desk'[d].pc = "update" => desk'[d].change \in Changes
AskedToUpload(d) ==
    /\ Asked(d)
    /\ desk'[d].pc = "store"
    /\ desk'[d].position = Cardinality(ImagesOf(desk'[d].product))
    /\ \E file \in FileNames :
          /\ ~ Begun(desk'[d].upload) /\ desk'[d].upload \in Uploads
          /\ uploads' = [uploads EXCEPT ![desk'[d].upload] =
                            [product |-> desk'[d].product, file |-> file]]

LEMMA UpdateAsked ==
    ASSUME desk \in [Desks -> Desk], NEW d \in Desks, NEW s \in Sellers,
           NEW p \in ProductIds, NEW change \in Changes, AskUpdate(d, s, p, change)
    PROVE  AskedToEdit(d)
<1> DEFINE rec == [Ask("update", s, p) EXCEPT !.change = change]
<1>1. change \in Change BY ProductAdminAssumption
<1>2. /\ rec \in Desk /\ rec.pc = "update" /\ rec.seller = s /\ rec.product = p
      /\ rec.upload = 0 /\ rec.stale = FALSE /\ rec.change = change
  BY <1>1 DEF Ask, IdleDesk, Desk
<1>3. desk' = [desk EXCEPT ![d] = rec] BY DEF AskUpdate
<1> HIDE DEF rec
<1>4. QED BY <1>2, <1>3, OneDesk DEF AskUpdate, At, AskedToEdit, Asked, imageVars

LEMMA DeleteAsked ==
    ASSUME desk \in [Desks -> Desk], NEW d \in Desks, NEW s \in Sellers,
           NEW p \in ProductIds, AskDelete(d, s, p)
    PROVE  AskedToEdit(d)
<1> DEFINE rec == Ask("archive", s, p)
<1>1. /\ rec \in Desk /\ rec.pc = "archive" /\ rec.seller = s /\ rec.product = p
      /\ rec.upload = 0 /\ rec.stale = FALSE
  BY IdleDeskIsDesk DEF Ask, IdleDesk, Desk
<1>2. desk' = [desk EXCEPT ![d] = rec] BY DEF AskDelete
<1> HIDE DEF rec
<1>3. QED BY <1>1, <1>2, OneDesk DEF AskDelete, At, AskedToEdit, Asked, imageVars

LEMMA ImagesCount ==
    ASSUME IsFiniteSet(images), NEW p
    PROVE  IsFiniteSet(ImagesOf(p)) /\ Cardinality(ImagesOf(p)) \in Nat
<1>1. ImagesOf(p) \subseteq images BY DEF ImagesOf
<1>2. QED BY <1>1, FS_Subset, FS_CardinalityType

LEMMA UploadAsked ==
    ASSUME desk \in [Desks -> Desk], IsFiniteSet(images), NEW d \in Desks, NEW s \in Sellers,
           NEW p \in ProductIds, NEW file \in FileNames, AskUpload(d, s, p, file)
    PROVE  AskedToUpload(d)
<1>1. PICK n \in Uploads :
         /\ ~ Begun(n)
         /\ uploads' = [uploads EXCEPT ![n] = [product |-> p, file |-> file]]
         /\ desk' = [desk EXCEPT ![d] = [Ask("store", s, p) EXCEPT
                         !.upload = n, !.position = Cardinality(ImagesOf(p))]]
  BY DEF AskUpload
<1> DEFINE rec == [Ask("store", s, p) EXCEPT
                         !.upload = n, !.position = Cardinality(ImagesOf(p))]
<1>2. Cardinality(ImagesOf(p)) \in Nat BY ImagesCount
<1>3. /\ rec \in Desk /\ rec.pc = "store" /\ rec.seller = s /\ rec.product = p
      /\ rec.upload = n /\ rec.stale = FALSE
      /\ rec.position = Cardinality(ImagesOf(p))
  BY <1>2, IdleDeskIsDesk DEF Ask, IdleDesk, Desk
<1>4. desk' = [desk EXCEPT ![d] = rec] BY <1>1
<1> HIDE DEF rec
<1>5. /\ desk' \in [Desks -> Desk] /\ desk'[d] = rec
      /\ \A e \in Desks : e # d => desk'[e] = desk[e]
  BY <1>3, <1>4, OneDesk
<1>6. Asked(d) BY <1>3, <1>5 DEF AskUpload, At, Asked
<1>7. QED BY <1>1, <1>3, <1>5, <1>6 DEF AskedToUpload

(* The end of a request. *)
LEMMA Answered ==
    ASSUME desk \in [Desks -> Desk], NEW d \in Desks, Answer(d)
    PROVE  /\ desk' \in [Desks -> Desk] /\ desk'[d] = IdleDesk
           /\ \A e \in Desks : e # d => desk'[e] = desk[e]
BY IdleDeskIsDesk, OneDesk DEF Answer

(***************************************************************************)
(* What the steps do to the rows                                           *)
(***************************************************************************)
LEMMA PositiveIsNat == \A n \in Int : n > 0 => n \in Nat OBVIOUS

LEMMA RowChanged ==
    ASSUME NEW row \in Row, NEW change \in Change
    PROVE  /\ Changed(row, Decoded(change)) \in Row
           /\ Changed(row, Decoded(change)).seller = row.seller
           /\ Changed(row, Decoded(change)).category = row.category
<1> DEFINE c == Decoded(change)
<1>1. /\ change.price \in Int /\ change.stock \in Int
      /\ change.status \in Statuses \cup {""}
  BY DEF Change
<1> DEFINE stock == IF change.counted THEN change.stock ELSE 0
<1>2. /\ c.price = change.price /\ c.status = change.status
      /\ c.stock = change.stock \/ c.stock = 0
  <2>1. stock = change.stock \/ stock = 0 OBVIOUS
  <2>2. c = [change EXCEPT !.stock = stock] BY DEF Decoded
  <2> HIDE DEF stock, c
  <2>3. QED BY <2>1, <2>2 DEF Change
<1> HIDE DEF c, stock
<1>3. c.price \in Int /\ c.stock \in Int /\ c.status \in Statuses \cup {""}
  <2>1. 0 \in Int OBVIOUS
  <2>2. QED BY <1>1, <1>2, <2>1
<1>4. c.price > 0 => c.price \in Nat BY <1>3, PositiveIsNat
<1>5. QED BY <1>3, <1>4 DEF Changed, Row, c

(* A request edits the product it asked for, which keeps its seller. *)
RowsEdited(d) ==
    /\ desk[d].pc \in {"update", "archive"}
    /\ Answer(d)
    /\ products' \in [ProductIds -> Row]
    /\ \A p \in ProductIds :
          /\ products'[p].seller = products[p].seller
          /\ products'[p].category = products[p].category
          /\ p # desk[d].product => products'[p] = products[p]
    /\ UNCHANGED <<categories, imageVars>>
    /\ FaultsTypeOK'

LEMMA FaultsKept ==
    ASSUME FaultsTypeOK
    PROVE  /\ NoFault => FaultsTypeOK'
           /\ \A kind : Fault(kind) => FaultsTypeOK'
BY FaultsAssumption DEF FaultsTypeOK, NoFault, Fault

LEMMA UpdateEdits ==
    ASSUME ProductAdminTypeOK, DesksSound, NEW d \in Desks, WriteUpdate(d)
    PROVE  RowsEdited(d)
<1> DEFINE p == desk[d].product
           row == Changed(products[p], Decoded(desk[d].change))
<1>1. /\ desk[d].pc = "update" /\ Answer(d) /\ UNCHANGED <<categories, imageVars>>
      /\ UNCHANGED products \/ products' = [products EXCEPT ![p] = row]
  BY DEF WriteUpdate, WriteRow, At
<1>2. /\ products \in [ProductIds -> Row] /\ p \in ProductIds /\ desk[d].change \in Change
  BY <1>1 DEF ProductAdminTypeOK, DesksSound, DeskSound, Desk
<1>3. row \in Row /\ row.seller = products[p].seller /\ row.category = products[p].category
  BY <1>2, RowChanged
<1>4. FaultsTypeOK' BY FaultsKept DEF WriteUpdate, ProductAdminTypeOK
<1> HIDE DEF row
<1>5. QED BY <1>1, <1>2, <1>3, <1>4 DEF RowsEdited

LEMMA ArchiveEdits ==
    ASSUME ProductAdminTypeOK, DesksSound, NEW d \in Desks, Archive(d)
    PROVE  RowsEdited(d)
<1> DEFINE p == desk[d].product
           row == [products[p] EXCEPT !.status = "archived"]
<1>1. /\ desk[d].pc = "archive" /\ Answer(d) /\ UNCHANGED <<categories, imageVars>>
      /\ UNCHANGED products \/ products' = [products EXCEPT ![p] = row]
  BY DEF Archive, ArchiveRow, At
<1>2. products \in [ProductIds -> Row] /\ p \in ProductIds
  BY <1>1 DEF ProductAdminTypeOK, DesksSound, DeskSound
<1>3. row \in Row /\ row.seller = products[p].seller /\ row.category = products[p].category
  BY <1>2, ProductAdminAssumption DEF Row
<1>4. FaultsTypeOK' BY FaultsKept DEF Archive, ProductAdminTypeOK
<1> HIDE DEF row
<1>5. QED BY <1>1, <1>2, <1>3, <1>4 DEF RowsEdited

(* A new product takes the place of none. *)
Sold(p) ==
    /\ ~ Exists(p)
    /\ products' \in [ProductIds -> Row]
    /\ \A q \in ProductIds : q # p => products'[q] = products[q]
    /\ UNCHANGED <<categories, imageVars, desk>>
    /\ FaultsTypeOK'

LEMMA ProductCreated ==
    ASSUME ProductAdminTypeOK, NEW s \in Sellers, NEW draft \in Drafts, CreateProduct(s, draft)
    PROVE  \E p \in ProductIds : Sold(p)
<1> DEFINE row == [seller |-> s, category |-> draft.category, price |-> draft.price,
                   stock |-> draft.stock, status |-> "active"]
<1>1. row \in Row
  BY ProductAdminAssumption DEF CreateProduct, CategoryExists, Draft, Row
<1> HIDE DEF row
<1>2. PICK p \in ProductIds : ~ Exists(p) /\ products' = [products EXCEPT ![p] = row]
  BY DEF CreateProduct, row
<1>3. products \in [ProductIds -> Row] BY DEF ProductAdminTypeOK
<1>4. FaultsTypeOK' BY FaultsKept DEF CreateProduct, ProductAdminTypeOK
<1>5. QED BY <1>1, <1>2, <1>3, <1>4 DEF CreateProduct, Sold

(* A step that concerns neither products nor requests. *)
LEMMA CategoryCreated ==
    ASSUME ProductAdminTypeOK, NEW name \in CategoryNames, CreateCategory(name)
    PROVE  /\ categories' \in [CategoryIds -> CategoryNames \cup {"none"}]
           /\ UNCHANGED <<products, imageVars, desk>>
           /\ FaultsTypeOK'
<1>1. FaultsTypeOK' BY FaultsKept DEF CreateCategory, ProductAdminTypeOK
<1>2. QED BY <1>1 DEF CreateCategory, ProductAdminTypeOK

(***************************************************************************)
(* What the steps do to the images                                         *)
(***************************************************************************)
Stored(d) ==
    /\ desk[d].pc = "store"
    /\ desk' \in [Desks -> Desk]
    /\ \A e \in Desks : e # d => desk'[e] = desk[e]
    /\ \/ /\ UploadFile(d)
          /\ desk'[d].pc = "insert" /\ desk'[d].upload = desk[d].upload
          /\ desk'[d].seller = desk[d].seller /\ desk'[d].product = desk[d].product
          /\ desk'[d].stale = desk[d].stale /\ desk'[d].position = desk[d].position
       \/ (UploadFile(d) \/ UNCHANGED bucket) /\ desk'[d] = IdleDesk
    /\ UNCHANGED <<catalogVars, images, uploads, raced>>
    /\ FaultsTypeOK'

LEMMA Stores ==
    ASSUME ProductAdminTypeOK, NEW d \in Desks, Store(d)
    PROVE  Stored(d)
<1> DEFINE rec == [desk[d] EXCEPT !.pc = "insert"]
<1>1. desk \in [Desks -> Desk] BY DEF ProductAdminTypeOK
<1>2. /\ rec \in Desk /\ rec.pc = "insert" /\ rec.upload = desk[d].upload
      /\ rec.seller = desk[d].seller /\ rec.product = desk[d].product
      /\ rec.stale = desk[d].stale /\ rec.position = desk[d].position
  BY <1>1 DEF Desk
<1>3. \/ UploadFile(d) /\ desk' = [desk EXCEPT ![d] = rec]
      \/ (UploadFile(d) \/ UNCHANGED bucket) /\ Answer(d)
  BY DEF Store
<1>4. desk[d].pc = "store" /\ UNCHANGED <<catalogVars, images, uploads, raced>>
  BY DEF Store, At
<1>5. FaultsTypeOK' BY FaultsKept DEF Store, ProductAdminTypeOK
<1> HIDE DEF rec
<1>6. CASE UploadFile(d) /\ desk' = [desk EXCEPT ![d] = rec]
  BY <1>1, <1>2, <1>4, <1>5, <1>6, OneDesk DEF Stored
<1>7. CASE (UploadFile(d) \/ UNCHANGED bucket) /\ Answer(d)
  BY <1>1, <1>4, <1>5, <1>7, Answered DEF Stored
<1>8. QED BY <1>3, <1>6, <1>7

(* The key of an upload that was begun. *)
LEMMA KeyOf ==
    ASSUME NEW n, uploads[n].product \in ProductIds, uploads[n].file \in FileNames
    PROVE  ProductImageKey(n) \in ProductIds \X FileNames
BY DEF ProductImageKey

(* The bucket after PutObject. *)
LEMMA FileStored ==
    ASSUME ProductAdminTypeOK, DesksSound, ObjectsSound,
           NEW d \in Desks, desk[d].pc = "store", UploadFile(d), UNCHANGED uploads
    PROVE  /\ bucket' \in [ProductIds \X FileNames -> Uploads \cup {0}]
           /\ bucket'[ProductImageKey(desk[d].upload)] # 0
           /\ \A key \in ProductIds \X FileNames : bucket[key] # 0 => bucket'[key] # 0
           /\ ObjectsSound'
<1> DEFINE n == desk[d].upload
<1>1. /\ n \in Uploads /\ n # 0
      /\ uploads[n].product \in ProductIds /\ uploads[n].file \in FileNames
      /\ bucket \in [ProductIds \X FileNames -> Uploads \cup {0}]
  BY DEF ProductAdminTypeOK, DesksSound, DeskSound, Desk, Uploads
<1>2. ProductImageKey(n) \in ProductIds \X FileNames BY <1>1, KeyOf
<1>3. bucket' = [bucket EXCEPT ![ProductImageKey(n)] = n] BY DEF UploadFile
<1> HIDE DEF n
<1>4. /\ bucket' \in [ProductIds \X FileNames -> Uploads \cup {0}]
      /\ bucket'[ProductImageKey(n)] = n
      /\ \A key \in ProductIds \X FileNames :
            key # ProductImageKey(n) => bucket'[key] = bucket[key]
  BY <1>1, <1>2, <1>3
<1>5. ASSUME NEW p \in ProductIds, NEW f \in FileNames, bucket'[<<p, f>>] # 0
      PROVE  uploads[bucket'[<<p, f>>]].product = p /\ uploads[bucket'[<<p, f>>]].file = f
  <2>1. CASE <<p, f>> = ProductImageKey(n)
    BY <1>4, <2>1 DEF ProductImageKey
  <2>2. CASE <<p, f>> # ProductImageKey(n)
    <3>1. bucket'[<<p, f>>] = bucket[<<p, f>>] BY <1>4, <2>2
    <3>2. QED BY <1>5, <3>1 DEF ObjectsSound
  <2>3. QED BY <2>1, <2>2
<1>6. ObjectsSound' BY <1>5 DEF ObjectsSound
<1>7. QED BY <1>1, <1>4, <1>6 DEF n

(* An image row is inserted; the other uploads for its product are stale.  *)
Inserted(d) ==
    /\ desk[d].pc = "insert"
    /\ \E i \in Image :
          /\ images' = images \cup {i}
          /\ i.product = desk[d].product /\ i.position = desk[d].position
          /\ i.upload = desk[d].upload /\ i.url = ProductImageKey(desk[d].upload)
    /\ desk' \in [Desks -> Desk]
    /\ desk'[d] = IdleDesk
    /\ \A e \in Desks : e # d =>
          /\ desk'[e].pc = desk[e].pc /\ desk'[e].seller = desk[e].seller
          /\ desk'[e].product = desk[e].product /\ desk'[e].upload = desk[e].upload
          /\ desk'[e].position = desk[e].position /\ desk'[e].change = desk[e].change
          /\ desk[e].stale => desk'[e].stale
          /\ desk[e].upload # 0 /\ desk[e].product = desk[d].product => desk'[e].stale
    /\ raced' = IF desk[d].stale THEN raced \cup {desk[d].product} ELSE raced
    /\ UNCHANGED <<catalogVars, bucket, uploads>>
    /\ FaultsTypeOK'

LEMMA ImageAdded ==
    ASSUME ProductAdminTypeOK, DesksSound, NEW d \in Desks, InsertImage(d), AddProductImage(d)
    PROVE  Inserted(d)
<1>1. /\ desk \in [Desks -> Desk] /\ desk[d] \in Desk /\ desk[d].pc = "insert"
      /\ UNCHANGED <<catalogVars, bucket, uploads>>
  BY DEF InsertImage, At, ProductAdminTypeOK
<1>2. /\ desk[d].product \in ProductIds /\ desk[d].upload \in Uploads
      /\ desk[d].position \in Nat
      /\ uploads[desk[d].upload].product \in ProductIds
      /\ uploads[desk[d].upload].file \in FileNames
  BY <1>1 DEF DesksSound, DeskSound, Desk
<1> DEFINE i == [product |-> desk[d].product, url |-> ProductImageKey(desk[d].upload),
                 position |-> Position(d), upload |-> desk[d].upload]
<1>3. /\ i \in Image /\ i.product = desk[d].product /\ i.position = desk[d].position
      /\ i.upload = desk[d].upload /\ i.url = ProductImageKey(desk[d].upload)
  <2>1. ProductImageKey(desk[d].upload) \in ProductIds \X FileNames BY <1>2, KeyOf
  <2>2. Position(d) = desk[d].position BY DEF Position
  <2>3. QED BY <1>2, <2>1, <2>2 DEF Image
<1>4. images' = images \cup {i} BY DEF AddProductImage
<1> HIDE DEF i
<1> DEFINE old(e) == [desk[e] EXCEPT !.stale = TRUE]
<1>5. ASSUME NEW e \in Desks
      PROVE  /\ old(e) \in Desk /\ old(e).pc = desk[e].pc /\ old(e).seller = desk[e].seller
             /\ old(e).product = desk[e].product /\ old(e).upload = desk[e].upload
             /\ old(e).position = desk[e].position /\ old(e).stale
             /\ old(e).change = desk[e].change
             /\ desk[e] \in Desk
  BY <1>1 DEF Desk
<1>6. desk' = [e \in Desks |->
          IF e = d THEN IdleDesk
          ELSE IF desk[e].product = desk[d].product /\ desk[e].upload # 0
               THEN old(e) ELSE desk[e]]
  BY DEF AddProductImage
<1> HIDE DEF old
<1>7. /\ desk' \in [Desks -> Desk] /\ desk'[d] = IdleDesk
      /\ \A e \in Desks : e # d =>
          desk'[e] = IF desk[e].product = desk[d].product /\ desk[e].upload # 0
                     THEN old(e) ELSE desk[e]
  BY <1>5, <1>6, IdleDeskIsDesk
<1>8. raced' = IF desk[d].stale THEN raced \cup {desk[d].product} ELSE raced
  BY DEF AddProductImage
<1>9. FaultsTypeOK' BY FaultsKept DEF InsertImage, ProductAdminTypeOK
<1>10. QED BY <1>1, <1>3, <1>4, <1>5, <1>7, <1>8, <1>9 DEF Inserted

(* A request gives up and nothing but the request changes. *)
GivenUp(d) ==
    /\ desk' \in [Desks -> Desk]
    /\ desk'[d] = IdleDesk
    /\ \A e \in Desks : e # d => desk'[e] = desk[e]
    /\ UNCHANGED <<catalogVars, imageVars>>
    /\ FaultsTypeOK'

LEMMA Inserts ==
    ASSUME ProductAdminTypeOK, DesksSound, NEW d \in Desks, InsertImage(d)
    PROVE  Inserted(d) \/ GivenUp(d)
<1>1. CASE AddProductImage(d) BY <1>1, ImageAdded
<1>2. CASE Answer(d) /\ UNCHANGED <<images, raced>>
  <2>1. desk \in [Desks -> Desk] BY DEF ProductAdminTypeOK
  <2>2. FaultsTypeOK' BY FaultsKept DEF InsertImage, ProductAdminTypeOK
  <2>3. UNCHANGED <<catalogVars, imageVars>> BY <1>2 DEF InsertImage, imageVars
  <2>4. QED BY <1>2, <2>1, <2>2, <2>3, Answered DEF GivenUp
<1>3. QED BY <1>1, <1>2 DEF InsertImage

LEMMA Crashes ==
    ASSUME ProductAdminTypeOK, Crash
    PROVE  /\ desk' \in [Desks -> Desk] /\ \A d \in Desks : desk'[d] = IdleDesk
           /\ UNCHANGED <<catalogVars, imageVars>>
           /\ FaultsTypeOK'
<1>1. FaultsTypeOK' BY FaultsKept DEF Crash, ProductAdminTypeOK
<1>2. QED BY <1>1, IdleDeskIsDesk DEF Crash

(* The kinds of steps there are. *)
LEMMA StepKinds ==
    ASSUME ProductAdminTypeOK, DesksSound, IsFiniteSet(images), [Next]_vars
    PROVE  \/ \E name \in CategoryNames : CreateCategory(name)
           \/ \E p \in ProductIds : Sold(p)
           \/ \E d \in Desks : AskedToEdit(d) \/ AskedToUpload(d)
           \/ \E d \in Desks : RowsEdited(d)
           \/ \E d \in Desks : Stored(d)
           \/ \E d \in Desks : Inserted(d)
           \/ \E d \in Desks : GivenUp(d)
           \/ Crash
           \/ UNCHANGED vars
<1>1. desk \in [Desks -> Desk] BY DEF ProductAdminTypeOK
<1>2. CASE \E s \in Sellers, draft \in Drafts : CreateProduct(s, draft)
  BY <1>2, ProductCreated
<1>3. CASE \E d \in Desks, s \in Sellers, p \in ProductIds :
          \/ \E change \in Changes : AskUpdate(d, s, p, change)
          \/ AskDelete(d, s, p)
          \/ \E file \in FileNames : AskUpload(d, s, p, file)
  BY <1>1, <1>3, UpdateAsked, DeleteAsked, UploadAsked
<1>4. CASE \E d \in Desks : WriteUpdate(d) \/ Archive(d) \/ Store(d) \/ InsertImage(d)
  BY <1>4, UpdateEdits, ArchiveEdits, Stores, Inserts
<1>5. QED BY <1>2, <1>3, <1>4 DEF Next

(***************************************************************************)
(* The parts of the invariant                                              *)
(***************************************************************************)

(* What lasts: the seller of a product, an upload, an object at its key.   *)
Lasts ==
    /\ \A p \in ProductIds : Exists(p) => products'[p].seller = products[p].seller
    /\ \A n \in Uploads : Begun(n) => uploads'[n] = uploads[n]
    /\ \A key \in ProductIds \X FileNames : bucket[key] # 0 => bucket'[key] # 0

Intact == ProductAdminTypeOK' /\ Lasts /\ ObjectsSound' /\ IsFiniteSet(images)'

LEMMA TypesKept ==
    ASSUME ProductAdminTypeOK, DesksSound, ObjectsSound, IsFiniteSet(images), [Next]_vars
    PROVE  Intact
<1> USE DEF Intact
<1>1. /\ categories \in [CategoryIds -> CategoryNames \cup {"none"}]
      /\ products \in [ProductIds -> Row] /\ images \in SUBSET Image
      /\ bucket \in [ProductIds \X FileNames -> Uploads \cup {0}]
      /\ desk \in [Desks -> Desk]
      /\ uploads \in [Uploads -> [product : ProductIds \cup {0}, file : FileNames \cup {"none"}]]
      /\ raced \in SUBSET ProductIds /\ FaultsTypeOK
  BY DEF ProductAdminTypeOK
<1>2. UNCHANGED <<uploads, bucket>> => ObjectsSound' BY DEF ObjectsSound
<1>3. UNCHANGED faults => FaultsTypeOK' BY <1>1 DEF FaultsTypeOK
<1>4. ASSUME NEW name \in CategoryNames, CreateCategory(name) PROVE Intact
  BY <1>1, <1>2, <1>4, CategoryCreated DEF ProductAdminTypeOK, Lasts, imageVars
<1>5. ASSUME NEW p \in ProductIds, Sold(p) PROVE Intact
  BY <1>1, <1>2, <1>5 DEF ProductAdminTypeOK, Lasts, Sold, imageVars
<1>6. ASSUME NEW d \in Desks, AskedToEdit(d) PROVE Intact
  BY <1>1, <1>2, <1>3, <1>6 DEF ProductAdminTypeOK, Lasts, AskedToEdit, Asked, catalogVars
<1>7. ASSUME NEW d \in Desks, AskedToUpload(d) PROVE Intact
  <2> DEFINE n == desk'[d].upload
  <2>1. PICK file \in FileNames :
           /\ ~ Begun(n) /\ n \in Uploads
           /\ uploads' = [uploads EXCEPT ![n] = [product |-> desk'[d].product, file |-> file]]
    BY <1>7 DEF AskedToUpload
  <2>2. desk'[d].product \in ProductIds BY <1>7 DEF AskedToUpload, Asked
  <2> HIDE DEF n
  <2>3. uploads' \in [Uploads -> [product : ProductIds \cup {0}, file : FileNames \cup {"none"}]]
    BY <1>1, <2>1, <2>2
  <2>4. \A m \in Uploads : Begun(m) => uploads'[m] = uploads[m]
    BY <1>1, <2>1
  <2>5. ObjectsSound'
    <3>1. ASSUME NEW p \in ProductIds, NEW f \in FileNames, bucket[<<p, f>>] # 0
          PROVE  Begun(bucket[<<p, f>>])
      BY <1>1, <3>1 DEF ObjectsSound, Begun, ProductIds
    <3>2. UNCHANGED bucket BY <1>7 DEF AskedToUpload, Asked
    <3>3. QED BY <1>1, <2>4, <3>1, <3>2 DEF ObjectsSound, Begun
  <2>6. UNCHANGED <<categories, products, images, bucket, raced, faults>> /\ desk' \in [Desks -> Desk]
    BY <1>7 DEF AskedToUpload, Asked, catalogVars
  <2>7. QED BY <1>1, <1>3, <2>3, <2>4, <2>5, <2>6 DEF ProductAdminTypeOK, Lasts
<1>8. ASSUME NEW d \in Desks, RowsEdited(d) PROVE Intact
  <2>1. desk' \in [Desks -> Desk] BY <1>1, <1>8, Answered DEF RowsEdited
  <2>2. QED BY <1>1, <1>2, <1>8, <2>1 DEF ProductAdminTypeOK, Lasts, RowsEdited, imageVars
<1>9. ASSUME NEW d \in Desks, Stored(d) PROVE Intact
  <2>1. /\ desk' \in [Desks -> Desk] /\ FaultsTypeOK'
        /\ UNCHANGED <<categories, products, images, uploads, raced>>
        /\ desk[d].pc = "store" /\ (UploadFile(d) \/ UNCHANGED bucket)
    BY <1>9 DEF Stored, catalogVars
  <2>2. CASE UploadFile(d)
    BY <1>1, <2>1, <2>2, FileStored DEF ProductAdminTypeOK, Lasts
  <2>3. CASE UNCHANGED bucket
    BY <1>1, <1>2, <2>1, <2>3 DEF ProductAdminTypeOK, Lasts
  <2>4. QED BY <2>1, <2>2, <2>3
<1>10. ASSUME NEW d \in Desks, Inserted(d) PROVE Intact
  <2>1. PICK i \in Image : images' = images \cup {i} BY <1>10 DEF Inserted
  <2>2. IsFiniteSet(images)' BY <2>1, FS_AddElement
  <2>3. desk[d].product \in ProductIds BY <1>10 DEF Inserted, DesksSound, DeskSound
  <2>4. raced' \in SUBSET ProductIds BY <1>1, <1>10, <2>3 DEF Inserted
  <2>5. images' \in SUBSET Image BY <1>1, <2>1
  <2>6. /\ desk' \in [Desks -> Desk] /\ FaultsTypeOK'
        /\ UNCHANGED <<categories, products, bucket, uploads>>
    BY <1>10 DEF Inserted, catalogVars
  <2>7. QED BY <1>1, <1>2, <2>2, <2>4, <2>5, <2>6 DEF ProductAdminTypeOK, Lasts
<1>11. ASSUME NEW d \in Desks, GivenUp(d) PROVE Intact
  BY <1>1, <1>2, <1>11 DEF ProductAdminTypeOK, Lasts, GivenUp, catalogVars, imageVars
<1>12. CASE Crash
  BY <1>1, <1>2, <1>12, Crashes DEF ProductAdminTypeOK, Lasts, catalogVars, imageVars
<1>13. CASE UNCHANGED vars
  BY <1>1, <1>2, <1>3, <1>13 DEF ProductAdminTypeOK, Lasts, vars
<1> HIDE DEF Intact
<1>14. QED
  BY <1>4, <1>5, <1>6, <1>7, <1>8, <1>9, <1>10, <1>11, <1>12, <1>13, StepKinds

(* A request that does not move keeps what it relies on, and its count of  *)
(* images if no image of its product comes.                                *)
LEMMA DeskKept ==
    ASSUME ProductAdminTypeOK, Lasts, NEW d \in Desks, DeskSound(d),
           desk'[d].pc = desk[d].pc, desk'[d].seller = desk[d].seller,
           desk'[d].product = desk[d].product, desk'[d].upload = desk[d].upload,
           desk'[d].position = desk[d].position,
           desk[d].upload # 0 /\ ~ desk'[d].stale =>
               /\ ~ desk[d].stale
               /\ (ImagesOf(desk[d].product))' = ImagesOf(desk[d].product)
    PROVE  DeskSound(d)'
<1> DEFINE n == desk[d].upload
           p == desk[d].product
<1>1. /\ desk[d] \in Desk /\ n \in Uploads \cup {0}
      /\ \A k \in Uploads : uploads[k].product \in ProductIds \cup {0}
      /\ 0 \notin ProductIds
  BY DEF ProductAdminTypeOK, Desk, ProductIds
<1>2. desk[d].pc # "idle" => Exists(p) /\ products'[p].seller = products[p].seller
  BY ProductAdminAssumption DEF DeskSound, Exists, Lasts
<1>3. n # 0 =>
         /\ desk[d].pc # "idle" /\ n \in Uploads /\ Begun(n)
         /\ uploads'[n] = uploads[n]
         /\ ProductImageKey(n) \in ProductIds \X FileNames
  <2>1. n # 0 => desk[d].pc # "idle" /\ p \in ProductIds /\ uploads[n].product = p
                 /\ uploads[n].file \in FileNames
    BY DEF DeskSound
  <2>2. QED BY <1>1, <2>1, KeyOf DEF Lasts, Begun
<1>4. n # 0 => (ProductImageKey(n) = <<uploads'[n].product, uploads'[n].file>>)
  BY <1>3 DEF ProductImageKey
<1>5. desk[d].pc = "insert" => bucket'[ProductImageKey(n)] # 0
  BY <1>3 DEF DeskSound, Lasts
<1>6. desk[d].pc = "insert" => bucket'[<<uploads'[n].product, uploads'[n].file>>] # 0
  BY <1>4, <1>5 DEF DeskSound
<1>7. (n # 0 /\ ~ desk'[d].stale) => desk'[d].position = (Cardinality(ImagesOf(desk[d].product)))'
  BY DEF DeskSound
<1>8. QED BY <1>2, <1>3, <1>6, <1>7 DEF DeskSound, ProductImageKey

LEMMA ImagesOfSame ==
    ASSUME UNCHANGED images
    PROVE  \A p : (ImagesOf(p))' = ImagesOf(p)
BY DEF ImagesOf

LEMMA IdleIsSound ==
    ASSUME NEW d \in Desks, desk'[d] = IdleDesk
    PROVE  DeskSound(d)'
BY IdleDeskIsDesk DEF DeskSound

LEMMA OthersKept ==
    ASSUME ProductAdminTypeOK, Lasts, NEW d \in Desks, DeskSound(d), UNCHANGED images,
           desk'[d] = desk[d]
    PROVE  DeskSound(d)'
<1>1. (ImagesOf(desk[d].product))' = ImagesOf(desk[d].product) BY DEF ImagesOf
<1>2. QED BY <1>1, DeskKept

LEMMA DesksKept ==
    ASSUME ProductAdminTypeOK, DesksSound, ObjectsSound, IsFiniteSet(images), [Next]_vars
    PROVE  DesksSound'
<1> USE DEF DesksSound
<1>1. /\ desk \in [Desks -> Desk] /\ uploads \in [Uploads -> [product : ProductIds \cup {0}, file : FileNames \cup {"none"}]]
      /\ Lasts
  BY TypesKept DEF ProductAdminTypeOK, Intact
<1>2. ASSUME UNCHANGED images, UNCHANGED desk PROVE DesksSound'
  BY <1>1, <1>2, OthersKept
<1>3. ASSUME NEW d \in Desks, UNCHANGED images, desk'[d] = IdleDesk,
             \A e \in Desks : e # d => desk'[e] = desk[e]
      PROVE  DesksSound'
  BY <1>1, <1>3, OthersKept, IdleIsSound
<1>4. ASSUME NEW name \in CategoryNames, CreateCategory(name) PROVE DesksSound'
  BY <1>2, <1>4, CategoryCreated DEF imageVars
<1>5. ASSUME NEW p \in ProductIds, Sold(p) PROVE DesksSound'
  BY <1>2, <1>5 DEF Sold, imageVars
<1>6. ASSUME NEW d \in Desks, Asked(d), DeskSound(d)' PROVE DesksSound'
  BY <1>1, <1>6, OthersKept DEF Asked
<1>7. ASSUME NEW d \in Desks, AskedToEdit(d) PROVE DesksSound'
  <2>1. DeskSound(d)'
    BY <1>7 DEF AskedToEdit, Asked, DeskSound, MayEdit, catalogVars
  <2>2. QED BY <1>6, <1>7, <2>1 DEF AskedToEdit
<1>8. ASSUME NEW d \in Desks, AskedToUpload(d) PROVE DesksSound'
  <2> DEFINE n == desk'[d].upload
             p == desk'[d].product
  <2>1. PICK file \in FileNames :
           n \in Uploads /\ uploads' = [uploads EXCEPT ![n] = [product |-> p, file |-> file]]
    BY <1>8 DEF AskedToUpload
  <2>2. /\ p \in ProductIds /\ desk'[d].seller \in Sellers /\ desk'[d].pc = "store"
        /\ products'[p].seller = desk'[d].seller
        /\ desk'[d].position = Cardinality(ImagesOf(p))
        /\ UNCHANGED images
    BY <1>8 DEF AskedToUpload, Asked, MayEdit, catalogVars
  <2>3. (Cardinality(ImagesOf(desk[d].product)))' = Cardinality(ImagesOf(p))
    BY <2>2 DEF ImagesOf
  <2>4. n # 0 BY <2>1 DEF Uploads
  <2>5. uploads'[n].product = p /\ uploads'[n].file \in FileNames BY <1>1, <2>1
  <2>6. DeskSound(d)' BY <2>2, <2>3, <2>4, <2>5 DEF DeskSound
  <2>7. QED BY <1>6, <1>8, <2>6 DEF AskedToUpload
<1>9. ASSUME NEW d \in Desks, RowsEdited(d) PROVE DesksSound'
  BY <1>1, <1>3, <1>9, Answered DEF RowsEdited, imageVars
<1>10. ASSUME NEW d \in Desks, Stored(d) PROVE DesksSound'
  <2>1. UNCHANGED <<images, uploads>> /\ UNCHANGED products BY <1>10 DEF Stored, catalogVars
  <2>2. CASE desk'[d] = IdleDesk BY <1>3, <1>10, <2>1, <2>2 DEF Stored
  <2>3. CASE /\ UploadFile(d)
             /\ desk'[d].pc = "insert" /\ desk'[d].upload = desk[d].upload
             /\ desk'[d].seller = desk[d].seller /\ desk'[d].product = desk[d].product
             /\ desk'[d].stale = desk[d].stale /\ desk'[d].position = desk[d].position
    <3>1. desk[d].pc = "store" /\ desk[d].upload # 0 BY <1>10 DEF Stored, DeskSound
    <3>2. bucket'[ProductImageKey(desk[d].upload)] # 0
      BY <2>1, <2>3, <3>1, FileStored
    <3>3. bucket'[<<uploads'[desk[d].upload].product, uploads'[desk[d].upload].file>>] # 0
      BY <2>1, <3>2 DEF ProductImageKey
    <3>4. (Cardinality(ImagesOf(desk[d].product)))' = Cardinality(ImagesOf(desk[d].product))
      BY <2>1, <2>3 DEF ImagesOf
    <3>5. DeskSound(d)'
      BY <2>1, <2>3, <3>1, <3>3, <3>4 DEF DeskSound, ProductImageKey
    <3>6. QED BY <1>1, <1>10, <2>1, <3>5, OthersKept DEF Stored
  <2>4. QED BY <1>10, <2>2, <2>3 DEF Stored
<1>11. ASSUME NEW d \in Desks, Inserted(d) PROVE DesksSound'
  <2>1. PICK i \in Image : images' = images \cup {i} /\ i.product = desk[d].product
    BY <1>11 DEF Inserted
  <2>2. \A q : q # desk[d].product => {j \in images' : j.product = q} = ImagesOf(q)
    BY <2>1 DEF ImagesOf
  <2>3. ASSUME NEW e \in Desks, e # d PROVE DeskSound(e)'
    <3>1. /\ desk'[e].pc = desk[e].pc /\ desk'[e].seller = desk[e].seller
          /\ desk'[e].product = desk[e].product /\ desk'[e].upload = desk[e].upload
          /\ desk'[e].position = desk[e].position
          /\ desk[e].stale => desk'[e].stale
          /\ desk[e].upload # 0 /\ desk[e].product = desk[d].product => desk'[e].stale
      BY <1>11, <2>3 DEF Inserted
    <3>2. desk[e].product # desk[d].product =>
              (ImagesOf(desk[e].product))' = ImagesOf(desk[e].product)
      BY <2>2, <3>1 DEF ImagesOf
    <3>3. QED BY <1>1, <3>1, <3>2, DeskKept
  <2>4. DeskSound(d)' BY <1>11, IdleIsSound DEF Inserted
  <2>5. QED BY <2>3, <2>4
<1>12. ASSUME NEW d \in Desks, GivenUp(d) PROVE DesksSound'
  BY <1>3, <1>12 DEF GivenUp, imageVars
<1>13. CASE Crash BY <1>13, Crashes, IdleIsSound
<1>14. CASE UNCHANGED vars BY <1>2, <1>14 DEF vars
<1> HIDE DEF DesksSound
<1>15. QED
  BY <1>4, <1>5, <1>7, <1>8, <1>9, <1>10, <1>11, <1>12, <1>13, <1>14, StepKinds

(* Whichever step it is, the images stay, or one comes at the position its *)
(* request counted.                                                        *)
ImagesStay == UNCHANGED <<images, uploads>> \/ (UNCHANGED images /\ \E d \in Desks : AskedToUpload(d))
LEMMA ImagesStep ==
    ASSUME ProductAdminTypeOK, DesksSound, ObjectsSound, IsFiniteSet(images), [Next]_vars
    PROVE  (ImagesStay /\ UNCHANGED raced) \/ \E d \in Desks : Inserted(d)
<1>1. UNCHANGED imageVars => ImagesStay /\ UNCHANGED raced BY DEF imageVars, ImagesStay
<1>2. ASSUME NEW name \in CategoryNames, CreateCategory(name) PROVE UNCHANGED imageVars
  BY <1>2, CategoryCreated
<1>3. ASSUME NEW p \in ProductIds, Sold(p) PROVE UNCHANGED imageVars BY <1>3 DEF Sold
<1>4. ASSUME NEW d \in Desks, AskedToEdit(d) PROVE ImagesStay /\ UNCHANGED raced
  BY <1>4 DEF AskedToEdit, Asked, ImagesStay
<1>5. ASSUME NEW d \in Desks, AskedToUpload(d) PROVE ImagesStay /\ UNCHANGED raced
  BY <1>5 DEF AskedToUpload, Asked, ImagesStay
<1>6. ASSUME NEW d \in Desks, RowsEdited(d) PROVE UNCHANGED imageVars BY <1>6 DEF RowsEdited
<1>7. ASSUME NEW d \in Desks, Stored(d) PROVE ImagesStay /\ UNCHANGED raced
  BY <1>7 DEF Stored, ImagesStay
<1>8. ASSUME NEW d \in Desks, GivenUp(d) PROVE UNCHANGED imageVars BY <1>8 DEF GivenUp
<1>9. CASE Crash BY <1>1, <1>9, Crashes
<1>10. CASE UNCHANGED vars BY <1>10 DEF vars, ImagesStay, imageVars
<1>11. QED BY <1>1, <1>2, <1>3, <1>4, <1>5, <1>6, <1>7, <1>8, <1>9, <1>10, StepKinds

LEMMA ImagesKept ==
    ASSUME ProductAdminTypeOK, DesksSound, ObjectsSound, ImagesSound, IsFiniteSet(images),
           [Next]_vars
    PROVE  ImagesSound'
<1>1. Lasts /\ images \in SUBSET Image
      /\ \A n \in Uploads : uploads[n].product \in ProductIds \cup {0}
  BY TypesKept DEF Intact, ProductAdminTypeOK
<1> DEFINE Sound(i) == /\ i.url = <<uploads'[i.upload].product, uploads'[i.upload].file>>
                       /\ uploads'[i.upload].product = i.product
                       /\ uploads'[i.upload].file \in FileNames
                       /\ bucket'[i.url] # 0
<1>2. ASSUME NEW i \in Image, i.url = ProductImageKey(i.upload),
             uploads[i.upload].product = i.product, uploads[i.upload].file \in FileNames,
             bucket[i.url] # 0
      PROVE  Sound(i)
  <2>1. /\ i.upload \in Uploads /\ i.product \in ProductIds
        /\ i.url \in ProductIds \X FileNames /\ 0 \notin ProductIds
    BY DEF Image, ProductIds
  <2>2. Begun(i.upload) BY <1>2, <2>1 DEF Begun
  <2>3. uploads'[i.upload] = uploads[i.upload] /\ bucket'[i.url] # 0
    BY <1>1, <1>2, <2>1, <2>2 DEF Lasts
  <2>4. QED BY <1>2, <2>3 DEF ProductImageKey
<1>3. \A i \in images : Sound(i) BY <1>1, <1>2 DEF ImagesSound
<1>4. ASSUME NEW d \in Desks, Inserted(d) PROVE \A i \in images' : Sound(i)
  <2>1. PICK i \in Image :
           /\ images' = images \cup {i} /\ i.product = desk[d].product
           /\ i.upload = desk[d].upload /\ i.url = ProductImageKey(desk[d].upload)
    BY <1>4 DEF Inserted
  <2>2. desk[d].pc = "insert" /\ DeskSound(d) BY <1>4 DEF Inserted, DesksSound
  <2>3. Sound(i) BY <1>2, <2>1, <2>2 DEF DeskSound
  <2> HIDE DEF Sound
  <2>4. QED BY <1>3, <2>1, <2>3
<1> HIDE DEF Sound
<1>5. \A i \in images' : Sound(i)
  BY <1>3, <1>4, ImagesStep DEF ImagesStay
<1>6. QED BY <1>5 DEF Sound, ImagesSound, ProductImageKey

(* The positions of one product. *)
InOrder(p) ==
    /\ {i.position : i \in ImagesOf(p)} = 0 .. Cardinality(ImagesOf(p)) - 1
    /\ \A i, j \in ImagesOf(p) : i.position = j.position => i = j

LEMMA PositionNext ==
    ASSUME NEW S, IsFiniteSet(S), NEW x, x.position = Cardinality(S),
           {i.position : i \in S} = 0 .. Cardinality(S) - 1,
           \A i, j \in S : i.position = j.position => i = j
    PROVE  /\ {i.position : i \in S \cup {x}} = 0 .. Cardinality(S \cup {x}) - 1
           /\ \A i, j \in S \cup {x} : i.position = j.position => i = j
<1>1. PICK n \in Nat : n = Cardinality(S) BY FS_CardinalityType
<1>2. \A i \in S : i.position \in 0 .. n - 1 BY <1>1
<1>3. \A i \in S : i.position # n BY <1>1, <1>2
<1>4. x \notin S BY <1>1, <1>3
<1>5. Cardinality(S \cup {x}) = n + 1 BY <1>1, <1>4, FS_AddElement
<1>6. {i.position : i \in S \cup {x}} = {i.position : i \in S} \cup {n} BY <1>1
<1>7. (0 .. n - 1) \cup {n} = 0 .. (n + 1) - 1 BY <1>1
<1>8. QED BY <1>1, <1>3, <1>5, <1>6, <1>7

LEMMA PositionsKept ==
    ASSUME ProductAdminTypeOK, DesksSound, ObjectsSound, IsFiniteSet(images),
           PositionsInOrderUnlessRaced, [Next]_vars
    PROVE  PositionsInOrderUnlessRaced'
<1>1. \A p \in ProductIds \ raced : InOrder(p) BY DEF PositionsInOrderUnlessRaced, InOrder
<1>2. ASSUME UNCHANGED images, UNCHANGED raced PROVE PositionsInOrderUnlessRaced'
  BY <1>1, <1>2 DEF PositionsInOrderUnlessRaced, ImagesOf, InOrder
<1>3. ASSUME NEW d \in Desks, Inserted(d), NEW p \in ProductIds, p \notin raced'
      PROVE  InOrder(p)'
  <2>1. PICK i \in Image :
           images' = images \cup {i} /\ i.product = desk[d].product /\ i.position = desk[d].position
    BY <1>3 DEF Inserted
  <2>2. p \notin raced /\ (p = desk[d].product => ~ desk[d].stale) BY <1>3 DEF Inserted
  <2>3. InOrder(p) BY <1>1, <2>2
  <2>4. CASE p # desk[d].product
    <3>1. (ImagesOf(p))' = ImagesOf(p) BY <2>1, <2>4 DEF ImagesOf
    <3>2. QED BY <2>3, <3>1 DEF InOrder
  <2>5. CASE p = desk[d].product
    <3>1. (ImagesOf(p))' = ImagesOf(p) \cup {i} BY <2>1, <2>5 DEF ImagesOf
    <3>2. desk[d].pc = "insert" /\ DeskSound(d) BY <1>3 DEF Inserted, DesksSound
    <3>3. i.position = Cardinality(ImagesOf(p))
      BY <2>1, <2>2, <2>5, <3>2 DEF DeskSound
    <3>4. IsFiniteSet(ImagesOf(p)) BY ImagesCount
    <3> DEFINE S == ImagesOf(p)
    <3>5. /\ {j.position : j \in S} = 0 .. Cardinality(S) - 1
          /\ \A j, k \in S : j.position = k.position => j = k
      BY <2>3 DEF InOrder
    <3>6. i.position = Cardinality(S) /\ IsFiniteSet(S) BY <3>3, <3>4
    <3> HIDE DEF S
    <3>7. /\ {j.position : j \in S \cup {i}} = 0 .. Cardinality(S \cup {i}) - 1
          /\ \A j, k \in S \cup {i} : j.position = k.position => j = k
      BY <3>5, <3>6, PositionNext
    <3>8. QED BY <3>1, <3>7 DEF InOrder, S
  <2>6. QED BY <2>4, <2>5
<1>4. ASSUME NEW d \in Desks, Inserted(d) PROVE PositionsInOrderUnlessRaced'
  <2>1. \A p \in ProductIds : p \notin raced' => InOrder(p)' BY <1>3, <1>4
  <2>2. QED BY <2>1 DEF PositionsInOrderUnlessRaced, InOrder
<1>5. QED BY <1>2, <1>4, ImagesStep DEF ImagesStay

(***************************************************************************)
(* The theorems                                                            *)
(***************************************************************************)
LEMMA ProductInit ==
    ASSUME Init
    PROVE  ProductInv
<1> USE DEF Init
<1>1. NoProduct \in Row BY ProductAdminAssumption DEF NoProduct, Row
<1>2. FaultsTypeOK BY FaultsAssumption DEF FaultsInit, FaultsTypeOK
<1>3. ProductAdminTypeOK BY <1>1, <1>2, IdleDeskIsDesk DEF ProductAdminTypeOK, NoUpload
<1>4. DesksSound BY IdleDeskIsDesk DEF DesksSound, DeskSound
<1>5. ObjectsSound /\ ImagesSound BY DEF ObjectsSound, ImagesSound
<1>6. IsFiniteSet(images) BY FS_EmptySet
<1>7. PositionsInOrderUnlessRaced
  <2>1. \A p : ImagesOf(p) = {} BY DEF ImagesOf
  <2>2. Cardinality({}) = 0 /\ 0 .. 0 - 1 = {} BY FS_EmptySet
  <2>3. ASSUME NEW p PROVE InOrder(p)
    <3>1. ImagesOf(p) = {} BY <2>1
    <3>2. {i.position : i \in {}} = {} OBVIOUS
    <3>3. QED BY <2>2, <3>1, <3>2 DEF InOrder
  <2>4. QED BY <2>3 DEF PositionsInOrderUnlessRaced, InOrder
<1>8. QED BY <1>3, <1>4, <1>5, <1>6, <1>7 DEF ProductInv

LEMMA ProductStep ==
    ASSUME ProductInv, [Next]_vars
    PROVE  ProductInv'
BY TypesKept, DesksKept, ImagesKept, PositionsKept DEF ProductInv, Intact

LEMMA ProductInvariant == Spec => []ProductInv
BY ProductInit, ProductStep, PTL DEF Spec

(* Every variable of the catalog's administration keeps its type, under    *)
(* every interleaving of the sellers' requests, faults and crashes.        *)
THEOREM ProductsTyped == Spec => []ProductAdminTypeOK
<1>1. ProductInv => ProductAdminTypeOK BY DEF ProductInv
<1>2. QED BY <1>1, ProductInvariant, PTL

(* However many uploads run at once, and whichever fails between the       *)
(* object and the row, an image leads to a file of its product.            *)
THEOREM ImagesLead == Spec => []ImagesShowTheirProduct
<1>1. ASSUME ProductInv, NEW i \in images
      PROVE  /\ bucket[i.url] # 0
             /\ uploads[bucket[i.url]].product = i.product
             /\ uploads[bucket[i.url]].file = uploads[i.upload].file
  <2>1. /\ i.url = <<uploads[i.upload].product, uploads[i.upload].file>>
        /\ uploads[i.upload].product = i.product /\ uploads[i.upload].file \in FileNames
        /\ bucket[i.url] # 0
    BY <1>1 DEF ProductInv, ImagesSound, ProductImageKey
  <2>2. i.product \in ProductIds BY <1>1 DEF ProductInv, ProductAdminTypeOK, Image
  <2>3. QED BY <1>1, <2>1, <2>2 DEF ProductInv, ObjectsSound
<1>2. ProductInv => ImagesShowTheirProduct BY <1>1 DEF ImagesShowTheirProduct
<1>3. QED BY <1>2, ProductInvariant, PTL

(* The images of a product are numbered in the order of their rows, unless *)
(* one was inserted while another upload of the product was under way.     *)
THEOREM PositionsFollow == Spec => []PositionsInOrderUnlessRaced
<1>1. ProductInv => PositionsInOrderUnlessRaced BY DEF ProductInv
<1>2. QED BY <1>1, ProductInvariant, PTL

(* A product is changed only by a request of its seller, although the      *)
(* owner is compared in another statement than the one that writes.        *)
OwnedStep ==
    \A p \in ProductIds :
       (Exists(p) /\ products'[p] # products[p]) =>
           /\ products'[p].seller = products[p].seller
           /\ products'[p].category = products[p].category
           /\ \E d \in Desks :
                 /\ desk[d].seller = products[p].seller /\ desk[d].product = p
                 /\ desk[d].pc \in {"update", "archive"} /\ At(d, "idle")'
LEMMA OwnedStepHolds ==
    ASSUME ProductInv, [Next]_vars
    PROVE  OwnedStep
<1> USE DEF ProductInv
<1>1. UNCHANGED products => OwnedStep BY DEF OwnedStep
<1>2. ASSUME NEW name \in CategoryNames, CreateCategory(name) PROVE UNCHANGED products
  BY <1>2, CategoryCreated
<1>3. ASSUME NEW p \in ProductIds, Sold(p) PROVE OwnedStep BY <1>3 DEF Sold, OwnedStep
<1>4. ASSUME NEW d \in Desks, AskedToEdit(d) \/ AskedToUpload(d) PROVE UNCHANGED products
  BY <1>4 DEF AskedToEdit, AskedToUpload, Asked, catalogVars
<1>5. ASSUME NEW d \in Desks, RowsEdited(d) PROVE OwnedStep
  <2>1. DeskSound(d) /\ desk[d].pc \in {"update", "archive"}
    BY <1>5 DEF DesksSound, RowsEdited
  <2>2. desk'[d].pc = "idle"
    BY <1>5, Answered, IdleDeskIsDesk DEF RowsEdited, ProductAdminTypeOK
  <2>3. QED BY <1>5, <2>1, <2>2 DEF RowsEdited, DeskSound, OwnedStep, At
<1>6. ASSUME NEW d \in Desks, Stored(d) PROVE UNCHANGED products
  BY <1>6 DEF Stored, catalogVars
<1>7. ASSUME NEW d \in Desks, Inserted(d) PROVE UNCHANGED products
  BY <1>7 DEF Inserted, catalogVars
<1>8. ASSUME NEW d \in Desks, GivenUp(d) PROVE UNCHANGED products
  BY <1>8 DEF GivenUp, catalogVars
<1>9. CASE Crash BY <1>1, <1>9, Crashes DEF catalogVars
<1>10. CASE UNCHANGED vars BY <1>1, <1>10 DEF vars
<1>11. QED
  BY <1>1, <1>2, <1>3, <1>4, <1>5, <1>6, <1>7, <1>8, <1>9, <1>10, StepKinds

(* A product changes only in answer to a request of its seller, which it   *)
(* keeps, as well as its category.                                         *)
THEOREM Owned == Spec => SellersOwn
<1>1. ProductInv /\ [Next]_vars => [OwnedStep]_vars BY OwnedStepHolds
<1>2. QED BY <1>1, ProductInvariant, PTL DEF Spec, SellersOwn, OwnedStep

(***************************************************************************)
(* What a cart sees                                                        *)
(***************************************************************************)

(* A request that is about to write an update carries a body that was sent. *)
BodiesSent == \A d \in Desks : desk[d].pc = "update" => desk[d].change \in Changes

LEMMA BodiesKept ==
    ASSUME ProductInv, BodiesSent, [Next]_vars
    PROVE  BodiesSent'
<1> USE DEF ProductInv, BodiesSent
<1>1. UNCHANGED desk => BodiesSent' OBVIOUS
<1>2. ASSUME NEW d \in Desks, \A e \in Desks : e # d => desk'[e] = desk[e],
             desk'[d].pc = "update" => desk'[d].change \in Changes
      PROVE  BodiesSent'
  BY <1>2
<1>3. ASSUME NEW name \in CategoryNames, CreateCategory(name) PROVE BodiesSent'
  BY <1>1, <1>3, CategoryCreated
<1>4. ASSUME NEW p \in ProductIds, Sold(p) PROVE BodiesSent' BY <1>1, <1>4 DEF Sold
<1>5. ASSUME NEW d \in Desks, AskedToEdit(d) \/ AskedToUpload(d) PROVE BodiesSent'
  BY <1>2, <1>5 DEF AskedToEdit, AskedToUpload, Asked
<1>6. ASSUME NEW d \in Desks, RowsEdited(d) PROVE BodiesSent'
  BY <1>2, <1>6, Answered, IdleDeskIsDesk DEF RowsEdited, ProductAdminTypeOK
<1>7. ASSUME NEW d \in Desks, Stored(d) PROVE BodiesSent'
  BY <1>2, <1>7, IdleDeskIsDesk DEF Stored
<1>8. ASSUME NEW d \in Desks, Inserted(d) PROVE BodiesSent'
  BY <1>8, IdleDeskIsDesk DEF Inserted
<1>9. ASSUME NEW d \in Desks, GivenUp(d) PROVE BodiesSent'
  BY <1>2, <1>9, IdleDeskIsDesk DEF GivenUp
<1>10. CASE Crash BY <1>10, Crashes, IdleDeskIsDesk
<1>11. CASE UNCHANGED vars BY <1>1, <1>11 DEF vars
<1>12. QED
  BY <1>3, <1>4, <1>5, <1>6, <1>7, <1>8, <1>9, <1>10, <1>11, StepKinds

(* The three columns of a row that a cart sees. *)
Seen(row) == [price |-> row.price, stock |-> row.stock, status |-> row.status]
LEMMA RowsSeen ==
    ASSUME products \in [ProductIds -> Row], products' \in [ProductIds -> Row]
    PROVE  /\ listings = [q \in ProductIds |-> Seen(products[q])]
           /\ listings' = [q \in ProductIds |-> Seen(products'[q])]
BY DEF listings, Seen

(* What UpdateProduct makes of a row, and of a body, is what Catalog says. *)
Edit(c) == [price |-> c.price, stock |-> Decoded(c).stock, status |-> c.status]
LEMMA EditSeen ==
    ASSUME NEW row \in Row, NEW c \in Change
    PROVE  Seen(Changed(row, Decoded(c))) = Shop!Edited(Seen(row), Edit(c))
<1> DEFINE e == Decoded(c)
<1>1. e.price = c.price /\ e.status = c.status BY DEF Decoded, Change
<1>2. /\ Edit(c).price = e.price /\ Edit(c).stock = e.stock /\ Edit(c).status = e.status
  BY <1>1 DEF Edit
<1> HIDE DEF e
<1>3. /\ Changed(row, e).price = IF e.price > 0 THEN e.price ELSE row.price
      /\ Changed(row, e).stock = IF e.stock >= 0 THEN e.stock ELSE row.stock
      /\ Changed(row, e).status = IF e.status # "" THEN e.status ELSE row.status
  BY DEF Changed, Row
<1>4. /\ Seen(row).price = row.price /\ Seen(row).stock = row.stock
      /\ Seen(row).status = row.status
  BY DEF Seen
<1>5. Seen(Changed(row, e)) = Shop!Edited(Seen(row), Edit(c))
  BY <1>2, <1>3, <1>4 DEF Seen, Shop!Edited
<1>6. QED BY <1>5 DEF e

LEMMA ArchivedSeen ==
    ASSUME NEW row \in Row
    PROVE  Seen([row EXCEPT !.status = "archived"]) = [Seen(row) EXCEPT !.status = "archived"]
BY DEF Seen, Row

LEMMA UpdateSeen ==
    ASSUME ProductInv, BodiesSent, ProductAdminTypeOK', NEW d \in Desks, WriteUpdate(d)
    PROVE  UNCHANGED listings \/ Shop!CatalogStep
<1> DEFINE p == desk[d].product
           c == desk[d].change
           row == Changed(products[p], Decoded(c))
<1>1. p \in ProductIds /\ c \in Changes /\ c \in Change
  BY ProductAdminAssumption
  DEF WriteUpdate, At, ProductInv, DesksSound, DeskSound, BodiesSent
<1>2. products \in [ProductIds -> Row] /\ products' \in [ProductIds -> Row]
  BY DEF ProductInv, ProductAdminTypeOK
<1>3. CASE UNCHANGED products BY <1>3, <1>2, RowsSeen
<1>4. CASE products' = [products EXCEPT ![p] = row]
  <2>1. Seen(row) = Shop!Edited(Seen(products[p]), Edit(c)) BY <1>1, <1>2, EditSeen
  <2> HIDE DEF p, c, row
  <2>2. listings' = [listings EXCEPT ![p] = Shop!Edited(listings[p], Edit(c))]
    BY <1>1, <1>2, <1>4, <2>1, RowsSeen
  <2>3. Shop!UpdateProduct(p, Edit(c)) BY <2>2 DEF Shop!UpdateProduct
  <2>4. Edit(c) \in {[price |-> e.price, stock |-> Decoded(e).stock, status |-> e.status] :
                     e \in Changes}
    BY <1>1 DEF Edit
  <2>5. QED BY <1>1, <2>3, <2>4 DEF Shop!CatalogStep
<1>5. QED BY <1>3, <1>4 DEF WriteUpdate, WriteRow

LEMMA ArchiveSeen ==
    ASSUME ProductInv, ProductAdminTypeOK', NEW d \in Desks, Archive(d)
    PROVE  UNCHANGED listings \/ Shop!CatalogStep
<1> DEFINE p == desk[d].product
           row == [products[p] EXCEPT !.status = "archived"]
<1>1. p \in ProductIds BY DEF Archive, At, ProductInv, DesksSound, DeskSound
<1>2. products \in [ProductIds -> Row] /\ products' \in [ProductIds -> Row]
  BY DEF ProductInv, ProductAdminTypeOK
<1>3. CASE UNCHANGED products BY <1>3, <1>2, RowsSeen
<1>4. CASE products' = [products EXCEPT ![p] = row]
  <2>1. Seen(row) = [Seen(products[p]) EXCEPT !.status = "archived"]
    BY <1>1, <1>2, ArchivedSeen
  <2> HIDE DEF p, row
  <2>2. listings' = [listings EXCEPT ![p].status = "archived"]
    BY <1>1, <1>2, <1>4, <2>1, RowsSeen
  <2>3. Shop!DeleteProduct(p) BY <2>2 DEF Shop!DeleteProduct
  <2>4. QED BY <1>1, <2>3 DEF Shop!CatalogStep
<1>5. QED BY <1>3, <1>4 DEF Archive, ArchiveRow

LEMMA ProductAppears ==
    ASSUME ProductInv, NEW s \in Sellers, NEW draft \in Drafts, CreateProduct(s, draft)
    PROVE  \E p \in ProductIds : ~ Exists(p) /\ Exists(p)'
<1> DEFINE row == [seller |-> s, category |-> draft.category, price |-> draft.price,
                   stock |-> draft.stock, status |-> "active"]
<1>1. row.seller # "none" BY ProductAdminAssumption
<1> HIDE DEF row
<1>2. PICK p \in ProductIds : ~ Exists(p) /\ products' = [products EXCEPT ![p] = row]
  BY DEF CreateProduct, row
<1>3. products'[p] = row BY <1>2 DEF ProductInv, ProductAdminTypeOK
<1>4. QED BY <1>1, <1>2, <1>3 DEF Exists

LEMMA StepSeen ==
    ASSUME ProductInv, BodiesSent, [Next]_vars
    PROVE  \/ UNCHANGED listings
           \/ Shop!CatalogStep
           \/ \E p \in ProductIds : ~ Exists(p) /\ Exists(p)'
<1>1. ProductAdminTypeOK' BY TypesKept DEF ProductInv, Intact
<1>2. UNCHANGED products => UNCHANGED listings
  BY <1>1, RowsSeen DEF ProductInv, ProductAdminTypeOK
<1>3. CASE \E name \in CategoryNames : CreateCategory(name)
  BY <1>2, <1>3 DEF CreateCategory
<1>4. CASE \E s \in Sellers, draft \in Drafts : CreateProduct(s, draft)
  BY <1>4, ProductAppears
<1>5. CASE \E d \in Desks, s \in Sellers, p \in ProductIds :
          \/ \E change \in Changes : AskUpdate(d, s, p, change)
          \/ AskDelete(d, s, p)
          \/ \E file \in FileNames : AskUpload(d, s, p, file)
  BY <1>2, <1>5 DEF AskUpdate, AskDelete, AskUpload, catalogVars
<1>6. CASE \E d \in Desks : WriteUpdate(d) \/ Archive(d) BY <1>1, <1>6, UpdateSeen, ArchiveSeen
<1>7. CASE \E d \in Desks : Store(d) \/ InsertImage(d)
  BY <1>2, <1>7 DEF Store, InsertImage, catalogVars
<1>8. CASE Crash BY <1>2, <1>8 DEF Crash, catalogVars
<1>9. CASE UNCHANGED vars BY <1>2, <1>9 DEF vars
<1>10. QED BY <1>3, <1>4, <1>5, <1>6, <1>7, <1>8, <1>9 DEF Next

(* Statement by statement, interleaved and failing, the sellers' requests  *)
(* implement what Catalog says of the products that carts hold: every step *)
(* is one of its edits, leaves the listings alone, or lists a new product. *)
THEOREM CatalogRefined == Spec => CartsSeeEdits
<1>1. Init => BodiesSent BY IdleDeskIsDesk DEF Init, BodiesSent
<1>2. ProductInv /\ BodiesSent /\ [Next]_vars => BodiesSent' BY BodiesKept
<1>3. ProductInv /\ BodiesSent /\ [Next]_vars =>
        [Shop!CatalogStep \/ \E p \in ProductIds : ~ Exists(p) /\ Exists(p)']_listings
  BY StepSeen
<1>4. QED BY <1>1, <1>2, <1>3, ProductInvariant, PTL DEF Spec, CartsSeeEdits
=============================================================================
