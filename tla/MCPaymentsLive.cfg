SPECIFICATION PreparedSpec
CONSTANTS
  a1 = a1
  a2 = a2
  SellerSolicitor = "seller_solicitor"
  FirmClientAccount = "firm_client_account"
  Payees = {"seller_solicitor", "firm_client_account"}
  Accounts <- MCOneAccount
  Lender = "lender"
  Payers = {"client", "lender"}
  MaxRecords = 3
  MaxUncleared = 1

PROPERTY Completes
