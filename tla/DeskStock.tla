------------------------------ MODULE DeskStock ------------------------------
(* The dialogs, lists and pages of the warehouse, as its manager and the     *)
(* owner use them (features/warehouse, features/owner).                      *)
EXTENDS DeskForms

------------------------------------------------------------------------------
(* Lists, and what they read at the server: the main pool's quantities and   *)
(* movements, its batches, the couriers' pools, products, warehouses,        *)
(* transfers, returns and losses.                                            *)

Products == Query("products", <<"warehouse", "products">>, {"product"})
Inventory == Query("inventory", <<"warehouse", "inventory">>, {"stock"})
Movements == Query("movements", <<"warehouse", "movements">>, {"movement"})
Batches == Query("batches", <<"warehouse", "batches">>, {"batch"})
Warehouses == Query("warehouses", <<"warehouse", "warehouses">>, {"warehouse"})
Transfers == Query("transfers", <<"warehouse", "transfers">>, {"transfer"})
LostReports == Query("losses", <<"warehouse", "lostReports">>, {"loss"})
Returns == Query("returns", <<"warehouse", "returns">>, {"return"})
InventorySummary ==
    Query("stock summary", <<"warehouse", "inventorySummary">>,
          {"stock", "courier stock", "transfer", "return", "loss"})
InventoryDistribution ==
    Query("stock by warehouse", <<"warehouse", "inventoryDistribution">>,
          {"stock", "courier stock", "warehouse"})
ReceivingHistory ==
    QueryById("receiving history", <<"warehouse", "receiving-history">>,
              {"receiving edit"})

Both == {InventorySummary.key, InventoryDistribution.key}

------------------------------------------------------------------------------
(* Dialogs.                                                                  *)

\* One delivery note with its lines; it closes through its own handleClose.
ReceivingModal ==
    Form("ReceivingModal",
         <<Send("add", {"stock", "movement", "batch", "product"},
                {Inventory.key, Movements.key, Batches.key, Products.key})>>,
         {"guarded", "closes", "forgets"})
WriteoffModal ==
    Form("WriteoffModal",
         <<Send("add", {"stock", "movement", "batch"},
                {Inventory.key, Movements.key, Batches.key})>>,
         {"guarded", "closes", "forgets"})
\* The received quantity, then the product's price: one mutation, renewed only
\* when both are done.
ReceivingEditModal ==
    Form("ReceivingEditModal",
         <<Send("set", {"stock", "movement", "batch", "receiving edit"}, {}),
           Send("set", {"product"},
                {Inventory.key, Movements.key, Batches.key,
                 ReceivingHistory.key, Products.key})>>,
         {"guarded", "closes", "forgets"})

\* The product, then (without the media pipeline) its picture.
CreateProductModal ==
    Form("CreateProductModal",
         <<Send("add", {"product"}, {}), Send("set", {"product"}, {Products.key})>>,
         {"guarded", "closes"})
EditProductModal ==
    Form("EditProductModal",
         <<Send("set", {"product"}, {}), Send("set", {"product"}, {Products.key})>>,
         {"guarded", "closes"})
ArchiveProductModal ==
    Form("ArchiveProductModal", <<Send("set", {"product"}, {Products.key})>>,
         {"plain", "guarded", "closes"})
RestoreButton ==
    Form("RestoreButton", <<Send("set", {"product"}, {Products.key})>>, {"plain"})

\* An awaited request; emptied and closed whatever is open by then.
NewTransferModal ==
    Form("NewTransferModal",
         <<Send("add", {"stock", "transfer"},
                {Transfers.key, Inventory.key, Movements.key} \cup Both)>>,
         {"guarded", "closes"})
AcceptReturn ==
    Form("AcceptReturn",
         <<Send("set", {"stock", "courier stock", "movement", "batch", "return"},
                {Returns.key, Inventory.key, Movements.key} \cup Both)>>,
         {"plain"})
RejectReturn ==
    Form("RejectReturn",
         <<Send("set", {"courier stock", "return"}, {Returns.key})>>,
         {"plain"})
DecideLoss ==
    Form("DecideLoss",
         <<Send("set", {"courier stock", "loss"}, {LostReports.key} \cup Both)>>,
         {"plain"})
NewWarehouseModal ==
    Form("NewWarehouseModal",
         <<Send("add", {"warehouse"}, {Warehouses.key})>>,
         {"guarded", "closes"})
RenameWarehouseModal ==
    Form("RenameWarehouseModal",
         <<Send("set", {"warehouse"}, {Warehouses.key})>>,
         {"guarded", "closes"})

------------------------------------------------------------------------------
(* Pages.  useWarehouseData brings four lists to each of them.               *)

WarehouseData == {Products, Inventory, Movements, Batches}

WarehouseInventoryPage ==
    Page({CreateProductModal, EditProductModal, ArchiveProductModal,
          ReceivingModal, WriteoffModal},
         WarehouseData \cup {InventorySummary, InventoryDistribution})
WarehouseDashboard ==
    Page({CreateProductModal, ReceivingModal, WriteoffModal},
         WarehouseData \cup {InventorySummary})
WarehouseReceivingPage ==
    Page({ReceivingModal, WriteoffModal, NewTransferModal, AcceptReturn,
          RejectReturn, DecideLoss, ReceivingEditModal},
         WarehouseData \cup {Returns, LostReports, ReceivingHistory})
WarehouseMovementsPage ==
    Page({NewTransferModal, NewWarehouseModal, RenameWarehouseModal},
         WarehouseData \cup {Transfers, Warehouses})
WarehouseArchivePage ==
    Page({RestoreButton}, WarehouseData \cup {InventoryDistribution})
OwnerWarehousePage ==
    Page({CreateProductModal, EditProductModal, ArchiveProductModal,
          RestoreButton, ReceivingModal, WriteoffModal, ReceivingEditModal,
          NewTransferModal, AcceptReturn, RejectReturn, DecideLoss,
          NewWarehouseModal, RenameWarehouseModal},
         WarehouseData \cup
            {InventorySummary, InventoryDistribution, Transfers, Returns,
             LostReports, Warehouses, ReceivingHistory})
OwnerWarehouseMobile ==
    Page({CreateProductModal, EditProductModal, ArchiveProductModal,
          RestoreButton, ReceivingModal, WriteoffModal, ReceivingEditModal},
         WarehouseData \cup {ReceivingHistory})

\* The owner's page holds all that the manager's pages do.
StockPages ==
    {WarehouseInventoryPage, WarehouseDashboard, WarehouseReceivingPage,
     WarehouseMovementsPage, WarehouseArchivePage, OwnerWarehousePage,
     OwnerWarehouseMobile}

\* The dialogs that are filled from a list, anew whenever the list changes.
StockFills == {<<ReceivingEditModal, Products>>}
==============================================================================
