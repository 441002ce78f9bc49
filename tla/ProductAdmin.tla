---------------------------- MODULE ProductAdmin ----------------------------
(***************************************************************************)
(* What sellers do to the catalog: they add categories and products, edit, *)
(* archive and illustrate the products they own.  An edit looks the owner  *)
(* up before it writes; an image is stored in S3 before its row is, at the *)
(* position counted before the upload began.  Rows are never removed.  A   *)
(* step that ends a request with an error and changes nothing is left out. *)
(***************************************************************************)
EXTENDS Faults, FiniteSets

CONSTANTS
    Sellers,        \* users with the seller role
    Desks,          \* requests of sellers that run at once
    CategoryNames,  \* names of categories
    FileNames,      \* names of image files
    Statuses,       \* the status strings sellers use
    Drafts,         \* bodies of POST /seller/product
    Changes,        \* bodies of PUT /seller/product/:id
    S3Enabled,      \* is a bucket configured
    MaxCategories,  \* bound: categories ever inserted
    MaxProducts,    \* bound: products ever inserted
    MaxUploads      \* bound: uploads ever begun

(* counted tells whether the body has a stock field at all. *)
Draft == [price : Int, stock : Int, category : Nat]
Change == [price : Int, stock : Int, counted : BOOLEAN, status : Statuses \cup {""}]

ASSUME ProductAdminAssumption ==
    /\ "none" \notin Sellers
    /\ {"active", "archived"} \subseteq Statuses
    /\ S3Enabled \in BOOLEAN
    /\ MaxCategories \in Nat /\ MaxProducts \in Nat /\ MaxUploads \in Nat
    /\ Drafts \subseteq Draft
    /\ Changes \subseteq Change

VARIABLES
    categories,     \* id -> name, "none" if there is no such row
    products,       \* id -> row of the products table
    images,         \* the rows of product_images
    bucket,         \* S3: product, file name -> the upload stored there, or 0
    desk,           \* the requests
    uploads,        \* history: upload -> its product and file
    raced           \* history: products that got an image at a stale position

vars == <<categories, products, images, bucket, desk, uploads, raced, faults>>
catalogVars == <<categories, products>>
imageVars == <<images, bucket, uploads, raced>>

CategoryIds == 1 .. MaxCategories
ProductIds == 1 .. MaxProducts
Uploads == 1 .. MaxUploads

NoProduct == [seller |-> "none", category |-> 0, price |-> 0, stock |-> 0, status |-> "archived"]
Exists(p) == p \in ProductIds /\ products[p].seller # "none"
CategoryExists(k) == k \in CategoryIds /\ categories[k] # "none"
NoUpload == [product |-> 0, file |-> "none"]
Begun(n) == n \in Uploads /\ uploads[n].product # 0
ImagesOf(p) == {i \in images : i.product = p}

(* A request and its local variables: the change it was sent, the file and *)
(* the upload it makes, the position it counted.  stale is history: the    *)
(* product has got another image since.                                    *)
NoChange == [price |-> 0, stock |-> 0, counted |-> FALSE, status |-> ""]
IdleDesk == [pc |-> "idle", seller |-> "none", product |-> 0, change |-> NoChange,
             upload |-> 0, position |-> 0, stale |-> FALSE]

At(d, pc) == desk[d].pc = pc
Answer(d) == desk' = [desk EXCEPT ![d] = IdleDesk]

(***************************************************************************)
(* CreateCategory and CreateProduct: one INSERT each                       *)
(***************************************************************************)

(* The name is unique; the parent, which nothing reads, is left out. *)
CreateCategory(name) ==
    /\ \A k \in CategoryIds : categories[k] # name
    /\ \E k \in CategoryIds :
          /\ categories[k] = "none" /\ \A j \in 1 .. k - 1 : CategoryExists(j)
          /\ categories' = [categories EXCEPT ![k] = name]
    /\ NoFault \/ Fault("dbwrite")
    /\ UNCHANGED <<products, imageVars, desk>>

(* A price is wanted, stock is not looked at, and the category has to be   *)
(* there: one that is left out is zero, and refers to nothing.             *)
CreateProduct(s, draft) ==
    /\ draft.price > 0
    /\ CategoryExists(draft.category)
    /\ \E p \in ProductIds :
          /\ ~ Exists(p) /\ \A q \in 1 .. p - 1 : Exists(q)
          /\ products' = [products EXCEPT ![p] =
                [seller |-> s, category |-> draft.category, price |-> draft.price,
                 stock |-> draft.stock, status |-> "active"]]
    /\ NoFault \/ Fault("dbwrite")
    /\ UNCHANGED <<categories, imageVars, desk>>

(***************************************************************************)
(* UpdateProduct and DeleteProduct                                         *)
(***************************************************************************)
MayEdit_Anyone(s, p) == Exists(p)     \* a variant: the owner is not compared

(* FindProductByID, and the comparison with the seller who asks. *)
MayEdit(s, p) == Exists(p) /\ products[p].seller = s

Ask(pc, s, p) == [IdleDesk EXCEPT !.pc = pc, !.seller = s, !.product = p]

AskUpdate(d, s, p, change) ==
    /\ At(d, "idle")
    /\ MayEdit(s, p)
    /\ desk' = [desk EXCEPT ![d] = [Ask("update", s, p) EXCEPT !.change = change]]
    /\ UNCHANGED <<catalogVars, imageVars, faults>>

AskDelete(d, s, p) ==
    /\ At(d, "idle")
    /\ MayEdit(s, p)
    /\ desk' = [desk EXCEPT ![d] = Ask("archive", s, p)]
    /\ UNCHANGED <<catalogVars, imageVars, faults>>

(* What the body decodes to: a number that is absent is zero. *)
Decoded(change) == [change EXCEPT !.stock = IF change.counted THEN @ ELSE 0]

(* UPDATE of the given columns only.  Zero and the empty string count as   *)
(* not given, except that a stock of zero is a stock like any other.       *)
Changed(row, change) ==
    [row EXCEPT !.price  = IF change.price > 0 THEN change.price ELSE @,
                !.stock  = IF change.stock >= 0 THEN change.stock ELSE @,
                !.status = IF change.status # "" THEN change.status ELSE @]

WriteRow(d) ==
    products' = [products EXCEPT ![desk[d].product] = Changed(@, Decoded(desk[d].change))]

(* The row is looked up once more, and is there, as rows stay. *)
WriteUpdate(d) ==
    /\ At(d, "update")
    /\ \/ WriteRow(d) /\ NoFault
       \/ (WriteRow(d) \/ UNCHANGED products) /\ Fault("dbwrite")
    /\ Answer(d)
    /\ UNCHANGED <<categories, imageVars>>

ArchiveRow_Saved(d) ==                \* a variant: the whole, empty row is saved
    products' = [products EXCEPT ![desk[d].product].price = 0,
                                 ![desk[d].product].status = "archived"]

ArchiveRow(d) == products' = [products EXCEPT ![desk[d].product].status = "archived"]

Archive(d) ==
    /\ At(d, "archive")
    /\ \/ ArchiveRow(d) /\ NoFault
       \/ (ArchiveRow(d) \/ UNCHANGED products) /\ Fault("dbwrite")
    /\ Answer(d)
    /\ UNCHANGED <<categories, imageVars>>

(***************************************************************************)
(* UploadProductImage                                                      *)
(***************************************************************************)

(* The images of the product are counted, long before the row is written. *)
AskUpload(d, s, p, file) ==
    /\ At(d, "idle")
    /\ MayEdit(s, p)
    /\ S3Enabled
    /\ \E n \in Uploads :
          /\ ~ Begun(n) /\ \A m \in 1 .. n - 1 : Begun(m)
          /\ uploads' = [uploads EXCEPT ![n] = [product |-> p, file |-> file]]
          /\ desk' = [desk EXCEPT ![d] = [Ask("store", s, p) EXCEPT
                         !.upload = n, !.position = Cardinality(ImagesOf(p))]]
    /\ UNCHANGED <<catalogVars, images, bucket, raced, faults>>

ProductImageKey_ByName(n) ==          \* a variant: the product is not in the key
    <<1, uploads[n].file>>

(* The object's key, and so its URL. *)
ProductImageKey(n) == <<uploads[n].product, uploads[n].file>>

UploadFile(d) == bucket' = [bucket EXCEPT ![ProductImageKey(desk[d].upload)] = desk[d].upload]

(* PutObject replaces an object of the same name. *)
Store(d) ==
    /\ At(d, "store")
    /\ \/ UploadFile(d) /\ desk' = [desk EXCEPT ![d].pc = "insert"] /\ NoFault
       \/ (UploadFile(d) \/ UNCHANGED bucket) /\ Answer(d) /\ Fault("s3")
    /\ UNCHANGED <<catalogVars, images, uploads, raced>>

Position_OneBased(d) == desk[d].position + 1      \* a variant

Position(d) == desk[d].position

AddProductImage(d) ==
    /\ images' = images \cup {[product |-> desk[d].product, url |-> ProductImageKey(desk[d].upload),
                               position |-> Position(d), upload |-> desk[d].upload]}
    /\ desk' = [e \in Desks |->
          IF e = d THEN IdleDesk
          ELSE IF desk[e].product = desk[d].product /\ desk[e].upload # 0
               THEN [desk[e] EXCEPT !.stale = TRUE] ELSE desk[e]]
    /\ raced' = IF desk[d].stale THEN raced \cup {desk[d].product} ELSE raced

InsertImage(d) ==
    /\ At(d, "insert")
    /\ \/ AddProductImage(d) /\ (NoFault \/ Fault("dbwrite"))
       \/ Answer(d) /\ UNCHANGED <<images, raced>> /\ Fault("dbwrite")
    /\ UNCHANGED <<catalogVars, bucket, uploads>>

(* The API process dies, and every request with it. *)
Crash ==
    /\ Fault("crash")
    /\ desk' = [d \in Desks |-> IdleDesk]
    /\ UNCHANGED <<catalogVars, imageVars>>

Init ==
    /\ FaultsInit
    /\ categories = [k \in CategoryIds |-> "none"]
    /\ products = [p \in ProductIds |-> NoProduct]
    /\ images = {}
    /\ bucket = [key \in ProductIds \X FileNames |-> 0]
    /\ desk = [d \in Desks |-> IdleDesk]
    /\ uploads = [n \in Uploads |-> NoUpload]
    /\ raced = {}

Next ==
    \/ \E name \in CategoryNames : CreateCategory(name)
    \/ \E s \in Sellers, draft \in Drafts : CreateProduct(s, draft)
    \/ \E d \in Desks, s \in Sellers, p \in ProductIds :
          \/ \E change \in Changes : AskUpdate(d, s, p, change)
          \/ AskDelete(d, s, p)
          \/ \E file \in FileNames : AskUpload(d, s, p, file)
    \/ \E d \in Desks : WriteUpdate(d) \/ Archive(d) \/ Store(d) \/ InsertImage(d)
    \/ Crash

Spec == Init /\ [][Next]_vars

(***************************************************************************)
(* What a cart sees of it.  Catalog starts with all its products and edits *)
(* them in one step each; a product that is not there yet is none of its.  *)
(***************************************************************************)
Row == [seller : Sellers \cup {"none"}, category : CategoryIds \cup {0},
        price : Nat, stock : Int, status : Statuses]
listings == [p \in ProductIds |->
    [price |-> products[p].price, stock |-> products[p].stock, status |-> products[p].status]]

Shop == INSTANCE Catalog WITH
    Products <- ProductIds, products <- listings, Deletions <- ProductIds,
    FirstListing <- [price |-> 1, stock |-> 0, status |-> "active"],
    Edits <- {[price |-> c.price, stock |-> Decoded(c).stock, status |-> c.status] : c \in Changes}

(***************************************************************************)
(* Properties                                                              *)
(***************************************************************************)
Image == [product : ProductIds, url : ProductIds \X FileNames,
          position : Nat, upload : Uploads]
Desk == [pc : {"idle", "update", "archive", "store", "insert"}, seller : Sellers \cup {"none"},
         product : ProductIds \cup {0}, change : Change, upload : Uploads \cup {0},
         position : Nat, stale : BOOLEAN]

(* Every variable has its type. *)
ProductAdminTypeOK ==
    /\ FaultsTypeOK
    /\ categories \in [CategoryIds -> CategoryNames \cup {"none"}]
    /\ products \in [ProductIds -> Row]
    /\ images \in SUBSET Image
    /\ bucket \in [ProductIds \X FileNames -> Uploads \cup {0}]
    /\ desk \in [Desks -> Desk]
    /\ uploads \in [Uploads -> [product : ProductIds \cup {0}, file : FileNames \cup {"none"}]]
    /\ raced \in SUBSET ProductIds

(* An image's URL leads to a file that was uploaded for the same product:   *)
(* the one of its own upload, or of another of the same name, whichever     *)
(* statement or PutObject failed on the way.                                *)
ImagesShowTheirProduct ==
    \A i \in images :
        /\ bucket[i.url] # 0
        /\ uploads[bucket[i.url]].product = i.product
        /\ uploads[bucket[i.url]].file = uploads[i.upload].file

(* The images of a product have the positions 0, 1, 2 and so on, each once, *)
(* unless a row was inserted at a position counted before another row.      *)
PositionsInOrderUnlessRaced ==
    \A p \in ProductIds \ raced :
        /\ {i.position : i \in ImagesOf(p)} = 0 .. Cardinality(ImagesOf(p)) - 1
        /\ \A i, j \in ImagesOf(p) : i.position = j.position => i = j

(* A product changes only in answer to a request of its seller, which it    *)
(* keeps, as well as its category.                                          *)
SellersOwn ==
    [][\A p \in ProductIds :
          (Exists(p) /\ products'[p] # products[p]) =>
              /\ products'[p].seller = products[p].seller
              /\ products'[p].category = products[p].category
              /\ \E d \in Desks :
                    /\ desk[d].seller = products[p].seller /\ desk[d].product = p
                    /\ desk[d].pc \in {"update", "archive"} /\ At(d, "idle")']_vars

(* Concurrent edits, deletes and uploads, statement by statement, are for a *)
(* cart the atomic edits of Catalog: no request writes back a column it     *)
(* only read, so that no edit and no deletion is lost.                      *)
CartsSeeEdits ==
    [][Shop!CatalogStep \/ \E p \in ProductIds : ~ Exists(p) /\ Exists(p)']_listings

(* An update leaves a stock alone that its body does not mention: the body  *)
(* holds the "Updated product fields"                                       *)
(* (src/internal/api/rest/handlers/sellerHandler.go:73).                    *)
StockKeptUnlessGiven ==
    [][\A d \in Desks :
          (At(d, "update") /\ ~ desk[d].change.counted /\ At(d, "idle")') =>
              products'[desk[d].product].stock = products[desk[d].product].stock]_vars
=============================================================================
