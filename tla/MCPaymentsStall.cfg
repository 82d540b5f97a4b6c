SPECIFICATION PreparedSpec
CONSTANTS
  a1 = a1
  a2 = a2
  SellerSolicitor = "seller_solicitor"
  FirmClientAccount = "firm_client_account"
  Payees = {"seller_solicitor", "firm_client_account"}
  Accounts <- MCAccounts
  Lender = "lender"
  Payers = {"client"}
  MaxRecords = 3
  MaxUncleared = 1

PROPERTY NoCaseStops
